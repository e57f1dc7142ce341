--------------------------- MODULE EvaluatorProofs ---------------------------
(***************************************************************************)
(* Eight facts about Evaluator, for any requests: the locals are those of  *)
(* the calls under way; only handlers the analysis saw are dispatched to;  *)
(* what the analysis announces of steps, cost and depth bounds the         *)
(* evaluation; all that is held and worked was charged; no handler whose   *)
(* regex argument is declared misses its compiled regex; names find the    *)
(* locals the analysis bound them to; no variable is looked up that was    *)
(* not admitted; and value, steps and bytes are those of the tree.  Each   *)
(* rests on invariants of those before it.                                 *)
(***************************************************************************)
EXTENDS EvaluatorInvariants, SequenceTheorems, FiniteSetTheorems, WellFoundedInduction, TLAPS

-----------------------------------------------------------------------------
\* Sequences without a type for their elements.

(* A sequence over any set is one over its own elements.                   *)
LEMMA SequenceListed ==
  ASSUME NEW S, NEW s \in Seq(S)
  PROVE Listed(s)
<1>1. Len(s) \in Nat /\ DOMAIN s = 1 .. Len(s) /\ s = [k \in 1 .. Len(s) |-> s[k]]
  OBVIOUS
<1>2. \A k \in 1 .. Len(s) : s[k] \in Elements(s)
  BY <1>1 DEF Elements
<1> DEFINE E == Elements(s)
<1> HIDE DEF E
<1>3. s \in [1 .. Len(s) -> E]
  BY <1>1, <1>2 DEF E
<1>4. s \in Seq(E)
  BY <1>1, <1>3, SeqDef
<1> QED
  BY <1>4 DEF Listed, E

(* The positions of a sequence.                                            *)
LEMMA ListedProperties ==
  ASSUME NEW s, Listed(s)
  PROVE /\ Len(s) \in Nat /\ DOMAIN s = 1 .. Len(s)
        /\ s # <<>> <=> Len(s) > 0
<1> DEFINE E == Elements(s)
<1>1. s \in Seq(E)
  BY DEF Listed
<1> HIDE DEF E
<1> QED
  BY <1>1

(* A sequence with one element more.                                       *)
LEMMA AppendListed ==
  ASSUME NEW s, NEW e, Listed(s)
  PROVE /\ Listed(Append(s, e))
        /\ Len(Append(s, e)) = Len(s) + 1
        /\ \A k \in DOMAIN s : Append(s, e)[k] = s[k]
        /\ Append(s, e)[Len(s) + 1] = e
<1> DEFINE E == Elements(s) \cup {e}
<1>1. s \in Seq(E)
  <2>1. Elements(s) \subseteq E
    OBVIOUS
  <2> DEFINE F == Elements(s)
  <2>2. s \in Seq(F)
    BY DEF Listed
  <2> HIDE DEF E, F
  <2> QED
    BY <2>1, <2>2 DEF F
<1>2. e \in E
  OBVIOUS
<1> HIDE DEF E
<1>3. /\ Append(s, e) \in Seq(E)
      /\ Len(Append(s, e)) = Len(s) + 1
      /\ \A k \in 1 .. Len(s) : Append(s, e)[k] = s[k]
      /\ Append(s, e)[Len(s) + 1] = e
  BY <1>1, <1>2, AppendProperties
<1>4. Listed(Append(s, e))
  BY <1>3, SequenceListed
<1> QED
  BY <1>1, <1>3, <1>4

(* A sequence without its last element.                                    *)
LEMMA FrontListed ==
  ASSUME NEW s, Listed(s), s # <<>>
  PROVE LET t == SubSeq(s, 1, Len(s) - 1)
        IN  /\ Listed(t)
            /\ Len(t) = Len(s) - 1
            /\ \A k \in 1 .. Len(s) - 1 : t[k] = s[k]
<1> DEFINE E == Elements(s)
<1>1. s \in Seq(E)
  BY DEF Listed
<1> HIDE DEF E
<1> DEFINE n == Len(s) - 1
<1>2. n \in Nat /\ \A k \in 1 .. n : s[k] \in E
  BY <1>1
<1> HIDE DEF n
<1> DEFINE t == SubSeq(s, 1, n)
<1>3. /\ t \in Seq(E)
      /\ Len(t) = IF 1 <= n THEN n - 1 + 1 ELSE 0
      /\ \A k \in 1 .. n - 1 + 1 : t[k] = s[1 + k - 1]
  BY <1>2, SubSeqProperties
<1> HIDE DEF t
<1>4. t \in Seq(E) /\ Len(t) = n /\ \A k \in 1 .. n : t[k] = s[k]
  BY <1>2, <1>3
<1>5. Listed(t)
  BY <1>4, SequenceListed
<1> QED
  BY <1>4, <1>5, Zenon DEF t, n

(* A sequence with one element replaced.                                   *)
LEMMA ReplaceListed ==
  ASSUME NEW s, NEW e, NEW i \in DOMAIN s, Listed(s)
  PROVE LET t == [s EXCEPT ![i] = e]
        IN  /\ Listed(t)
            /\ Len(t) = Len(s)
            /\ \A k \in DOMAIN s : t[k] = IF k = i THEN e ELSE s[k]
<1> DEFINE E == Elements(s) \cup {e}
           t == [s EXCEPT ![i] = e]
<1>1. s \in Seq(E)
  <2>1. Elements(s) \subseteq E
    OBVIOUS
  <2> DEFINE F == Elements(s)
  <2>2. s \in Seq(F)
    BY DEF Listed
  <2> HIDE DEF E, F
  <2> QED
    BY <2>1, <2>2 DEF F
<1>2. e \in E
  OBVIOUS
<1> HIDE DEF E
<1>3. t \in Seq(E) /\ Len(t) = Len(s)
  BY <1>1, <1>2
<1>4. \A k \in DOMAIN s : t[k] = IF k = i THEN e ELSE s[k]
  BY <1>1
<1> QED
  BY <1>3, <1>4, SequenceListed

-----------------------------------------------------------------------------
\* Locals and frames.

(* What happens to calls that bind nothing leaves the locals as they are.  *)
LEMMA FollowSame ==
  ASSUME NEW ls, NEW fs, NEW gs, Follow(ls, fs), Bound(gs) = Bound(fs),
         \A k \in Bound(fs) : gs[k].node = fs[k].node
  PROVE Follow(ls, gs)
<1>1. PICK at \in [DOMAIN ls -> Bound(fs)] :
        /\ \A j, k \in DOMAIN ls : j < k => at[j] < at[k]
        /\ \A b \in Bound(fs) : \E k \in DOMAIN ls : at[k] = b
        /\ \A k \in DOMAIN ls : ls[k].node = fs[at[k]].node
  BY DEF Follow
<1>2. \A k \in DOMAIN ls : ls[k].node = gs[at[k]].node
  BY <1>1
<1> QED
  BY <1>1, <1>2 DEF Follow

(* The last call binds its arguments: its locals are the last.             *)
LEMMA FollowBind ==
  ASSUME NEW ls, NEW fs, NEW gs, NEW e, Listed(ls), Listed(fs), fs # <<>>,
         Follow(ls, fs), Len(fs) \notin Bound(fs),
         Bound(gs) = Bound(fs) \cup {Len(fs)},
         \A k \in DOMAIN fs : gs[k].node = fs[k].node,
         e.node = fs[Len(fs)].node
  PROVE Follow(Append(ls, e), gs)
<1> DEFINE n == Len(fs)
           m == Len(ls) + 1
           ms == Append(ls, e)
<1>1. PICK at \in [DOMAIN ls -> Bound(fs)] :
        /\ \A j, k \in DOMAIN ls : j < k => at[j] < at[k]
        /\ \A b \in Bound(fs) : \E k \in DOMAIN ls : at[k] = b
        /\ \A k \in DOMAIN ls : ls[k].node = fs[at[k]].node
  BY DEF Follow
<1>2. /\ n \in Nat /\ n > 0 /\ DOMAIN fs = 1 .. n
      /\ m \in Nat /\ m > 0 /\ DOMAIN ls = 1 .. m - 1
  BY ListedProperties
<1>3. DOMAIN ms = 1 .. m /\ ms[m] = e /\ \A k \in 1 .. m - 1 : ms[k] = ls[k]
  BY <1>2, AppendListed, ListedProperties
<1>4. Bound(fs) \subseteq 1 .. n - 1
  BY <1>2 DEF Bound
<1> HIDE DEF n, m, ms
<1> DEFINE new == [k \in 1 .. m |-> IF k = m THEN n ELSE at[k]]
<1>5. new \in [DOMAIN ms -> Bound(gs)]
  BY <1>1, <1>2, <1>3 DEF n
<1>6. \A j, k \in DOMAIN ms : j < k => new[j] < new[k]
  <2> SUFFICES ASSUME NEW j \in DOMAIN ms, NEW k \in DOMAIN ms, j < k
               PROVE new[j] < new[k]
    OBVIOUS
  <2>1. j \in 1 .. m - 1 /\ new[j] = at[j] /\ at[j] \in 1 .. n - 1
    BY <1>1, <1>2, <1>3, <1>4
  <2>2. CASE k = m
    BY <1>2, <1>3, <2>1, <2>2
  <2>3. CASE k # m
    BY <1>1, <1>2, <1>3, <2>1, <2>3
  <2> QED
    BY <2>2, <2>3
<1>7. \A b \in Bound(gs) : \E k \in DOMAIN ms : new[k] = b
  <2> SUFFICES ASSUME NEW b \in Bound(gs)
               PROVE \E k \in 1 .. m : new[k] = b
    BY <1>3
  <2>1. CASE b = n
    BY <1>2, <2>1
  <2>2. CASE b \in Bound(fs)
    BY <1>1, <1>2, <2>2
  <2> QED
    BY <2>1, <2>2 DEF n
<1>8. \A k \in DOMAIN ms : ms[k].node = gs[new[k]].node
  <2> SUFFICES ASSUME NEW k \in 1 .. m
               PROVE ms[k].node = gs[new[k]].node
    BY <1>3
  <2>1. CASE k = m
    <3>1. ms[k] = e /\ new[k] = n
      BY <1>3, <2>1
    <3>2. n \in DOMAIN fs /\ e.node = fs[n].node
      BY <1>2 DEF n
    <3> HIDE DEF new
    <3> QED
      BY <3>1, <3>2
  <2>2. CASE k # m
    <3>1. k \in 1 .. m - 1
      BY <1>2, <2>2
    <3>2. ms[k] = ls[k] /\ new[k] = at[k] /\ k \in DOMAIN ls
      BY <1>2, <1>3, <2>2, <3>1
    <3>3. at[k] \in DOMAIN fs /\ ls[k].node = fs[at[k]].node
      BY <1>1, <3>2 DEF Bound
    <3> HIDE DEF new
    <3> QED
      BY <3>2, <3>3
  <2> QED
    BY <2>1, <2>2
<1> HIDE DEF new
<1> QED
  BY <1>5, <1>6, <1>7, <1>8 DEF Follow, ms

(* The last call returns from a body: its locals go with it.               *)
LEMMA FollowLeave ==
  ASSUME NEW ls, NEW fs, NEW gs, Listed(ls), Listed(fs), fs # <<>>,
         Follow(ls, fs), Len(fs) \in Bound(fs),
         Bound(gs) = Bound(fs) \ {Len(fs)},
         \A k \in Bound(gs) : gs[k].node = fs[k].node
  PROVE Follow(SubSeq(ls, 1, Len(ls) - 1), gs)
<1> DEFINE n == Len(fs)
           m == Len(ls)
           ms == SubSeq(ls, 1, Len(ls) - 1)
<1>1. PICK at \in [DOMAIN ls -> Bound(fs)] :
        /\ \A j, k \in DOMAIN ls : j < k => at[j] < at[k]
        /\ \A b \in Bound(fs) : \E k \in DOMAIN ls : at[k] = b
        /\ \A k \in DOMAIN ls : ls[k].node = fs[at[k]].node
  BY DEF Follow
<1>2. /\ n \in Nat /\ n > 0 /\ DOMAIN fs = 1 .. n
      /\ m \in Nat /\ DOMAIN ls = 1 .. m
  BY ListedProperties
<1>3. Bound(fs) \subseteq 1 .. n
  BY <1>2 DEF Bound
<1>4. PICK last \in 1 .. m : at[last] = n
  BY <1>1, <1>2
<1>5. last = m
  <2>1. \A k \in 1 .. m : at[k] \in 1 .. n
    BY <1>1, <1>2, <1>3
  <2>2. m \in 1 .. m
    BY <1>2, <1>4
  <2>3. SUFFICES ASSUME last < m PROVE FALSE
    <3>1. \A a \in Nat : \A b \in 1 .. a : ~(b < a) => b = a
      OBVIOUS
    <3> QED
      BY <1>2, <2>3, <3>1, Zenon
  <2>4. last \in DOMAIN ls /\ m \in DOMAIN ls
    BY <1>2, <2>2
  <2>5. at[last] < at[m]
    BY <1>1, <2>3, <2>4, Zenon
  <2> QED
    BY <1>2, <1>4, <2>1, <2>2, <2>5
<1>6. ls # <<>>
  BY <1>2, <1>4
<1>7. DOMAIN ms = 1 .. m - 1 /\ \A k \in 1 .. m - 1 : ms[k] = ls[k]
  BY <1>2, <1>6, FrontListed, ListedProperties
<1> HIDE DEF n, m, ms
<1> DEFINE new == [k \in 1 .. m - 1 |-> at[k]]
<1>8. \A k \in 1 .. m - 1 : at[k] \in Bound(gs)
  <2> SUFFICES ASSUME NEW k \in 1 .. m - 1 PROVE at[k] \in Bound(gs)
    OBVIOUS
  <2>1. at[k] < at[m] /\ at[k] \in Bound(fs) /\ at[m] = n
    BY <1>1, <1>2, <1>4, <1>5
  <2>2. at[k] # n
    BY <1>2, <1>3, <2>1
  <2> QED
    BY <2>1, <2>2 DEF n
<1>9. new \in [DOMAIN ms -> Bound(gs)]
  BY <1>7, <1>8
<1>10. \A j, k \in DOMAIN ms : j < k => new[j] < new[k]
  BY <1>1, <1>2, <1>7
<1>11. \A b \in Bound(gs) : \E k \in DOMAIN ms : new[k] = b
  <2> SUFFICES ASSUME NEW b \in Bound(gs)
               PROVE \E k \in 1 .. m - 1 : at[k] = b
    BY <1>7
  <2>1. b \in Bound(fs) /\ b # n
    BY DEF n
  <2>2. PICK k \in 1 .. m : at[k] = b
    BY <1>1, <1>2, <2>1
  <2>3. k # m
    BY <1>4, <1>5, <2>1, <2>2
  <2> QED
    BY <1>2, <2>2, <2>3
<1>12. \A k \in DOMAIN ms : ms[k].node = gs[new[k]].node
  BY <1>1, <1>2, <1>7, <1>8
<1> HIDE DEF new
<1> QED
  BY <1>9, <1>10, <1>11, <1>12 DEF Follow, ms

-----------------------------------------------------------------------------
\* The calls under way.

(* No calls, no locals.                                                    *)
LEMMA NothingCalled ==
  ASSUME NEW fs, NEW ls, fs = <<>>, ls = <<>>
  PROVE Listed(ls) /\ AllCalled(fs) /\ Follow(ls, fs) /\ Bound(fs) = {}
<1>1. Listed(<<>>)
  BY DEF Listed, Elements
<1>2. Bound(fs) = {} /\ DOMAIN ls = {} /\ DOMAIN fs = {}
  BY DEF Bound
<1>3. [k \in {} |-> k] \in [DOMAIN ls -> Bound(fs)]
  BY <1>2
<1>4. Follow(ls, fs)
  BY <1>2, <1>3 DEF Follow
<1> QED
  BY <1>1, <1>2, <1>4 DEF AllCalled

(* A new call has bound nothing.                                           *)
LEMMA EnterFrames ==
  ASSUME NEW fs, AllCalled(fs), NEW i,
         Dispatches(i) => i \in verified.tickets
  PROVE LET gs == Append(fs, [node |-> i, vals |-> <<>>, bound |-> FALSE])
        IN  /\ AllCalled(gs) /\ Bound(gs) = Bound(fs)
            /\ \A k \in Bound(fs) : gs[k].node = fs[k].node
<1> DEFINE new == [node |-> i, vals |-> <<>>, bound |-> FALSE]
           gs == Append(fs, new)
           n == Len(fs)
<1>1. Listed(fs) /\ \A k \in DOMAIN fs : Called(fs[k])
  BY DEF AllCalled
<1>2. Called(new)
  BY DEF Called
<1>3. n \in Nat /\ DOMAIN fs = 1 .. n
  BY <1>1, ListedProperties
<1>4. /\ Listed(gs) /\ Len(gs) = n + 1 /\ \A k \in DOMAIN fs : gs[k] = fs[k]
      /\ gs[n + 1] = new
  BY <1>1, AppendListed
<1>5. DOMAIN gs = 1 .. n + 1
  BY <1>4, ListedProperties
<1>6. new.bound = FALSE
  OBVIOUS
<1> HIDE DEF new, gs, n
<1>7. \A k \in DOMAIN gs : Called(gs[k])
  BY <1>1, <1>2, <1>3, <1>4, <1>5
<1>8. Bound(gs) = Bound(fs)
  BY <1>3, <1>4, <1>5, <1>6 DEF Bound
<1>9. \A k \in Bound(fs) : gs[k].node = fs[k].node
  BY <1>4 DEF Bound
<1> QED
  BY <1>4, <1>7, <1>8, <1>9 DEF AllCalled, gs, new

(* A call holds one more value.                                            *)
LEMMA HoldValue ==
  ASSUME NEW f, NEW v, Called(f)
  PROVE LET e == [f EXCEPT !.vals = Append(@, v)]
        IN  Called(e) /\ e.node = f.node /\ e.bound = f.bound
<1>1. PICK a, b, c : f = [node |-> a, vals |-> b, bound |-> c]
  BY DEF Called
<1> DEFINE e == [node |-> a, vals |-> Append(b, v), bound |-> c]
<1>2. [f EXCEPT !.vals = Append(@, v)] = e
  BY <1>1
<1>3. f.node = a /\ f.bound = c /\ e.node = a /\ e.vals = Append(b, v) /\ e.bound = c
  BY <1>1
<1>4. e = [node |-> e.node, vals |-> e.vals, bound |-> e.bound]
  BY <1>3
<1> HIDE DEF e
<1>5. Called(e)
  BY <1>3, <1>4 DEF Called
<1> QED
  BY <1>2, <1>3, <1>5

(* The call below the last one holds its value.                            *)
LEMMA AnswerFrames ==
  ASSUME NEW fs, NEW v, AllCalled(fs), Len(fs) > 1
  PROVE LET m == Len(fs) - 1
            gs == [SubSeq(fs, 1, m) EXCEPT ![m].vals = Append(@, v)]
        IN  /\ AllCalled(gs) /\ Bound(gs) = Bound(fs) \ {Len(fs)}
            /\ \A k \in Bound(gs) : gs[k].node = fs[k].node
<1> DEFINE n == Len(fs)
           m == n - 1
           rest == SubSeq(fs, 1, m)
           f == rest[m]
           e == [f EXCEPT !.vals = Append(@, v)]
           gs == [rest EXCEPT ![m] = e]
<1>1. Listed(fs) /\ \A k \in DOMAIN fs : Called(fs[k])
  BY DEF AllCalled
<1>2. fs # <<>> /\ DOMAIN fs = 1 .. n
  BY <1>1, ListedProperties
<1>3. m \in Nat /\ m > 0 /\ n = m + 1
  BY <1>1, ListedProperties
<1>4. Listed(rest) /\ Len(rest) = m /\ \A k \in 1 .. m : rest[k] = fs[k]
  BY <1>1, <1>2, FrontListed
<1> HIDE DEF n, m
<1> HIDE DEF rest
<1>5. DOMAIN rest = 1 .. m
  BY <1>4, ListedProperties
<1>6. f = fs[m] /\ Called(f)
  BY <1>1, <1>2, <1>3, <1>4
<1>7. Called(e) /\ e.node = f.node /\ e.bound = f.bound
  <2> HIDE DEF f
  <2> QED
    BY <1>6, HoldValue
<1> HIDE DEF e
<1>8. /\ Listed(gs) /\ Len(gs) = m
      /\ \A k \in 1 .. m : gs[k] = IF k = m THEN e ELSE rest[k]
  <2>1. m \in DOMAIN rest /\ Listed(rest)
    BY <1>3, <1>4, <1>5
  <2>2. /\ Listed(gs) /\ Len(gs) = Len(rest)
        /\ \A k \in DOMAIN rest : gs[k] = IF k = m THEN e ELSE rest[k]
    BY <2>1, ReplaceListed, Zenon
  <2> HIDE DEF gs
  <2> QED
    BY <1>4, <1>5, <2>2
<1>9. DOMAIN gs = 1 .. m
  BY <1>8, ListedProperties
<1> HIDE DEF gs, f
<1>10. \A k \in 1 .. m : /\ Called(gs[k]) /\ gs[k].node = fs[k].node
                         /\ gs[k].bound = fs[k].bound
  BY <1>1, <1>2, <1>3, <1>4, <1>6, <1>7, <1>8
<1>11. AllCalled(gs)
  BY <1>8, <1>9, <1>10 DEF AllCalled
<1>12. Bound(gs) = Bound(fs) \ {n}
  BY <1>2, <1>3, <1>9, <1>10 DEF Bound
<1>13. \A k \in Bound(gs) : gs[k].node = fs[k].node
  BY <1>9, <1>10 DEF Bound
<1> QED
  BY <1>11, <1>12, <1>13 DEF gs, e, f, rest, m, n

(* The last call is answered to the one below it.                          *)
LEMMA ReturnFrames ==
  ASSUME NEW v, AllCalled(frames), frames # <<>>, Return(v)
  PROVE /\ AllCalled(frames') /\ Bound(frames') = Bound(frames) \ {Len(frames)}
        /\ \A k \in Bound(frames') : frames'[k].node = frames[k].node
<1> DEFINE n == Len(frames)
           rest == SubSeq(frames, 1, n - 1)
<1>1. Listed(frames) /\ \A k \in DOMAIN frames : Called(frames[k])
  BY DEF AllCalled
<1>2. n \in Nat /\ n > 0 /\ DOMAIN frames = 1 .. n
  BY <1>1, ListedProperties
<1>3. Listed(rest) /\ Len(rest) = n - 1 /\ \A k \in 1 .. n - 1 : rest[k] = frames[k]
  BY <1>1, FrontListed
<1>4. CASE n - 1 = 0
  <2>1. frames' = <<>>
    BY <1>4 DEF Return
  <2>2. Bound(frames) \ {n} = {}
    <3> HIDE DEF n
    <3>1. Bound(frames) \subseteq 1 .. n /\ n = 1
      BY <1>2, <1>4 DEF Bound
    <3> QED
      BY <3>1
  <2>3. AllCalled(frames') /\ Bound(frames') = {}
    <3> DEFINE gs == frames'
    <3>1. gs = <<>>
      BY <2>1
    <3> HIDE DEF gs
    <3>2. AllCalled(gs) /\ Bound(gs) = {}
      BY <3>1, NothingCalled
    <3> QED
      BY <3>2 DEF gs
  <2> QED
    BY <2>2, <2>3
<1>5. CASE n - 1 # 0
  <2> DEFINE gs == [rest EXCEPT ![n - 1].vals = Append(@, v)]
  <2>1. frames' = gs
    BY <1>5 DEF Return
  <2>2. /\ AllCalled(gs) /\ Bound(gs) = Bound(frames) \ {n}
        /\ \A k \in Bound(gs) : gs[k].node = frames[k].node
    <3>1. n > 1
      BY <1>2, <1>5
    <3> QED
      BY <3>1, AnswerFrames
  <2> QED
    BY <2>1, <2>2
<1> QED
  BY <1>4, <1>5

(* The last call binds its arguments.                                      *)
LEMMA BindFrames ==
  ASSUME NEW fs, AllCalled(fs), fs # <<>>, CallsFunction(fs[Len(fs)].node)
  PROVE LET gs == [fs EXCEPT ![Len(fs)].vals = <<>>, ![Len(fs)].bound = TRUE]
        IN  /\ AllCalled(gs) /\ Bound(gs) = Bound(fs) \cup {Len(fs)}
            /\ \A k \in DOMAIN fs : gs[k].node = fs[k].node
<1> DEFINE n == Len(fs)
           f == fs[n]
           e == [node |-> f.node, vals |-> <<>>, bound |-> TRUE]
           gs == [fs EXCEPT ![n] = e]
<1>1. Listed(fs) /\ \A k \in DOMAIN fs : Called(fs[k])
  BY DEF AllCalled
<1>2. n \in Nat /\ n > 0 /\ DOMAIN fs = 1 .. n
  BY <1>1, ListedProperties
<1>3. n \in DOMAIN fs /\ Called(f) /\ CallsFunction(f.node)
  BY <1>1, <1>2
<1>4. e.node = f.node /\ e.vals = <<>> /\ e.bound = TRUE
  OBVIOUS
<1>5. [fs EXCEPT ![n].vals = <<>>, ![n].bound = TRUE] = gs
  <2>1. PICK a, b, c : f = [node |-> a, vals |-> b, bound |-> c]
    BY <1>3 DEF Called
  <2>2. [[f EXCEPT !.vals = <<>>] EXCEPT !.bound = TRUE] = e
    <3>1. f.node = a
      BY <2>1
    <3> HIDE DEF f
    <3>2. [f EXCEPT !.vals = <<>>] = [node |-> a, vals |-> <<>>, bound |-> c]
      BY <2>1
    <3> DEFINE g == [f EXCEPT !.vals = <<>>]
    <3> HIDE DEF g
    <3>3. g = [node |-> a, vals |-> <<>>, bound |-> c]
      BY <3>2 DEF g
    <3>4. \A t : [g EXCEPT !.bound = t] = [node |-> a, vals |-> <<>>, bound |-> t]
      BY <3>3
    <3>5. [g EXCEPT !.bound = TRUE] = [node |-> a, vals |-> <<>>, bound |-> TRUE]
      BY <3>4
    <3> QED
      BY <3>1, <3>5 DEF g
  <2>3. [fs EXCEPT ![n].vals = <<>>, ![n].bound = TRUE]
          = [fs EXCEPT ![n] = [[f EXCEPT !.vals = <<>>] EXCEPT !.bound = TRUE]]
    BY <1>2, <1>3
  <2> QED
    BY <2>2, <2>3
<1> HIDE DEF e
<1>6. Called(e)
  <2>1. e = [node |-> e.node, vals |-> e.vals, bound |-> e.bound]
    BY <1>4 DEF e
  <2> HIDE DEF f
  <2> QED
    BY <1>3, <1>4, <2>1 DEF Called
<1> HIDE DEF n
<1>7. /\ Listed(gs) /\ Len(gs) = Len(fs)
      /\ \A k \in DOMAIN fs : gs[k] = IF k = n THEN e ELSE fs[k]
  BY <1>1, <1>3, ReplaceListed, Zenon
<1> HIDE DEF gs, f
<1>8. DOMAIN gs = 1 .. n
  BY <1>7, ListedProperties DEF n
<1>9. AllCalled(gs)
  BY <1>1, <1>2, <1>6, <1>7, <1>8 DEF AllCalled
<1>10. Bound(gs) = Bound(fs) \cup {n}
  BY <1>2, <1>3, <1>4, <1>7, <1>8 DEF Bound
<1>11. \A k \in DOMAIN fs : gs[k].node = fs[k].node
  BY <1>4, <1>7 DEF f
<1> QED
  BY <1>5, <1>9, <1>10, <1>11 DEF n

-----------------------------------------------------------------------------
\* The steps.

(* An error leaves no call behind.                                         *)
LEMMA StopCalls ==
  ASSUME NEW reason, Stop(reason)
  PROVE CallsInv'
<1>1. frames' = <<>> /\ locals' = <<>>
  BY DEF Stop
<1>2. (\A k \in DOMAIN frames : Called(frames[k]))'
  BY <1>1
<1>3. Listed(<<>>) /\ Follow(<<>>, <<>>)
  BY NothingCalled
<1>4. FramesInv'
  BY <1>1, <1>2, <1>3 DEF FramesInv, AllCalled, LocalsFollowCalls
<1> QED
  BY <1>1, <1>4 DEF CallsInv, EarlyInv

(* The steps before the first call.                                        *)
LEMMA EarlyCalls ==
  ASSUME CallsInv, Prepare \/ Analyze \/ Verify
  PROVE CallsInv'
<1>1. stage \in {"preparing", "analyzing", "verifying"} /\ UNCHANGED <<frames, locals>>
  BY DEF Prepare, Analyze, Verify, idle, inputs
<1>2. frames = <<>> /\ locals = <<>>
  BY <1>1 DEF CallsInv, EarlyInv
<1>3. frames' = <<>> /\ locals' = <<>>
  BY <1>1, <1>2
<1>4. (\A k \in DOMAIN frames : Called(frames[k]))'
  BY <1>3
<1>5. FramesInv'
  BY <1>1, <1>4 DEF CallsInv, FramesInv, AllCalled, LocalsFollowCalls
<1> QED
  BY <1>3, <1>5 DEF CallsInv, EarlyInv

(* What eval checks of a node that it begins to evaluate.                  *)
LEMMA EnterTicket ==
  ASSUME NEW i, AllHold(EntryChecks(i))
  PROVE Dispatches(i) => i \in verified.tickets
<1> DEFINE a == steps + 1 <= limits.steps
           b == Len(frames) <= limits.depth
           c == program.kind[i] = "array" => Len(program.kids[i]) <= limits.items
           d == program.kind[i] \in Dispatching => i \in verified.tickets
           e == program.kind[i] = "expression function" =>
                  Len(program.params[i]) + 1 = Len(program.kids[i])
           checks == <<<<a, "steps">>, <<b, "depth">>, <<c, "items">>,
                       <<d, "unresolved">>, <<e, "arity">>>>
<1>1. EntryChecks(i) = checks
  BY Zenon DEF EntryChecks
<1>2. d <=> (Dispatches(i) => i \in verified.tickets)
  BY Zenon DEF Dispatches
<1> HIDE DEF a, b, c, d, e
<1>3. 4 \in DOMAIN checks /\ checks[4][1] = d
  OBVIOUS
<1>4. d
  BY <1>1, <1>3 DEF AllHold
<1> QED
  BY <1>2, <1>4

(* A new call binds nothing yet.                                           *)
LEMMA EnterCalls ==
  ASSUME CallsInv, Running, NEW i, Enter(i)
  PROVE CallsInv'
<1>1. CASE AllHold(EntryChecks(i))
  <2>1. /\ frames' = Append(frames, [node |-> i, vals |-> <<>>, bound |-> FALSE])
        /\ UNCHANGED <<request, verified, locals, stage>>
    BY <1>1 DEF Enter, inputs
  <2>2. Dispatches(i) => i \in verified.tickets
    BY <1>1, EnterTicket
  <2>3. /\ AllCalled(frames') /\ Bound(frames') = Bound(frames)
        /\ \A k \in Bound(frames) : frames'[k].node = frames[k].node
    BY <2>1, <2>2, EnterFrames DEF CallsInv, FramesInv
  <2>4. Follow(locals, frames')
    BY <2>3, FollowSame DEF CallsInv, FramesInv, LocalsFollowCalls
  <2> QED
    BY <2>1, <2>3, <2>4 DEF CallsInv, FramesInv, LocalsFollowCalls, EarlyInv, Running,
       AllCalled, Called, CallsFunction, Dispatches, program
<1>2. CASE ~AllHold(EntryChecks(i))
  BY <1>2, StopCalls DEF Enter
<1> QED
  BY <1>1, <1>2

(* Calls and their locals when the program and its tickets stay the same.  *)
LEMMA SameProgram ==
  ASSUME stage = "running", UNCHANGED <<request, verified>>,
         stage' = "running" \/ (frames' = <<>> /\ locals' = <<>>),
         Listed(locals'), AllCalled(frames'), Follow(locals', frames')
  PROVE CallsInv'
<1>1. (\A k \in DOMAIN frames : Called(frames[k]))'
  BY DEF AllCalled, Called, CallsFunction, Dispatches, program
<1> QED
  BY <1>1 DEF CallsInv, FramesInv, LocalsFollowCalls, EarlyInv, AllCalled

(* Arguments become the locals of their call.                              *)
LEMMA BindCalls ==
  ASSUME CallsInv, Bind
  PROVE CallsInv'
<1> DEFINE n == Len(frames)
           new == [node |-> Node, vals |-> Vals]
<1>1. /\ stage = "running" /\ frames # <<>>
      /\ IsFunction /\ ~Top.bound
      /\ locals' = Append(locals, new)
      /\ frames' = [frames EXCEPT ![n].vals = <<>>, ![n].bound = TRUE]
      /\ UNCHANGED <<request, verified, stage>>
  BY Zenon DEF Bind, inputs, Running, Unbound
<1>2. CallsFunction(frames[n].node)
  BY <1>1, Zenon DEF IsFunction, Kind, Node, Top, CallsFunction
<1>3. Listed(locals) /\ Listed(frames) /\ AllCalled(frames) /\ Follow(locals, frames)
  BY DEF CallsInv, FramesInv, LocalsFollowCalls, AllCalled
<1>4. /\ AllCalled(frames') /\ Bound(frames') = Bound(frames) \cup {n}
      /\ \A k \in DOMAIN frames : frames'[k].node = frames[k].node
  BY <1>1, <1>2, <1>3, BindFrames
<1>5. new.node = frames[n].node
  BY DEF Node, Top
<1>6. n \notin Bound(frames)
  BY <1>1 DEF Bound, Top
<1>7. Listed(locals')
  BY <1>1, <1>3, AppendListed
<1>8. Follow(locals', frames')
  <2> HIDE DEF new
  <2>1. Follow(Append(locals, new), frames')
    BY <1>1, <1>3, <1>4, <1>5, <1>6, FollowBind
  <2> QED
    BY <1>1, <2>1
<1>9. stage' = "running" /\ UNCHANGED <<request, verified>>
  BY <1>1
<1> HIDE DEF new
<1> QED
  BY <1>1, <1>4, <1>7, <1>8, <1>9, SameProgram

(* An answer to the last call.                                             *)
LEMMA ReturnStage ==
  ASSUME NEW v, Return(v)
  PROVE frames' = <<>> \/ UNCHANGED stage
BY DEF Return

(* The locals of a function leave with its call.                           *)
LEMMA LeaveCalls ==
  ASSUME CallsInv, LeaveFunction
  PROVE CallsInv'
<1> DEFINE n == Len(frames)
           v == Vals[1]
<1>1. /\ stage = "running" /\ frames # <<>> /\ Top.bound /\ Return(v)
      /\ locals' = SubSeq(locals, 1, Len(locals) - 1)
      /\ UNCHANGED <<request, verified>>
  BY Zenon DEF LeaveFunction, inputs, Running
<1>2. Listed(locals) /\ Listed(frames) /\ AllCalled(frames) /\ Follow(locals, frames)
  BY DEF CallsInv, FramesInv, LocalsFollowCalls, AllCalled
<1> HIDE DEF v
<1>3. /\ AllCalled(frames') /\ Bound(frames') = Bound(frames) \ {n}
      /\ \A k \in Bound(frames') : frames'[k].node = frames[k].node
  BY <1>1, <1>2, ReturnFrames
<1>4. n \in DOMAIN frames
  BY <1>1, <1>2, ListedProperties
<1>5. n \in Bound(frames)
  BY <1>1, <1>4 DEF Bound, Top
<1>6. Follow(locals', frames')
  BY <1>1, <1>2, <1>3, <1>5, FollowLeave
<1>7. locals # <<>>
  BY <1>2, <1>5 DEF Follow
<1>8. Listed(locals')
  BY <1>1, <1>2, <1>7, FrontListed
<1>9. stage' = "running" \/ (frames' = <<>> /\ locals' = <<>>)
  <2>1. CASE UNCHANGED stage
    BY <1>1, <2>1
  <2>2. CASE frames' = <<>>
    <3>1. DOMAIN locals' = {}
      BY <1>6, <2>2 DEF Follow, Bound
    <3> QED
      BY <1>8, <2>2, <3>1, ListedProperties
  <2> QED
    BY <1>1, <2>1, <2>2, ReturnStage
<1> QED
  BY <1>1, <1>3, <1>6, <1>8, <1>9, SameProgram

(* Every conclusion is one of a ready call.                                *)
LEMMA ConclusionConcludes ==
  ASSUME Conclusion
  PROVE Ready /\ \E made : Conclude(made)
<1>1. CASE ReturnLiteral
  BY <1>1, Zenon DEF ReturnLiteral
<1>2. CASE ReturnIdentifier
  BY <1>2, Zenon DEF ReturnIdentifier
<1>3. CASE ReturnArray
  BY <1>3, Zenon DEF ReturnArray
<1>4. CASE ReturnMember
  BY <1>4, Zenon DEF ReturnMember
<1>5. CASE ReturnCall
  BY <1>5, Zenon DEF ReturnCall
<1>6. CASE ReturnOperator
  BY <1>6, Zenon DEF ReturnOperator
<1>7. CASE ReturnLogical
  BY <1>7, Zenon DEF ReturnLogical
<1> QED
  BY <1>1, <1>2, <1>3, <1>4, <1>5, <1>6, <1>7 DEF Conclusion

(* It returns a value, or stops.                                           *)
LEMMA ConcludeOutcome ==
  ASSUME NEW made, Conclude(made)
  PROVE \/ (\E v : Return(v)) /\ UNCHANGED <<inputs, locals>>
        \/ \E reason : Stop(reason)
BY Zenon DEF Conclude

(* A conclusion answers the last call, which is no function's, or fails.   *)
LEMMA ConclusionCalls ==
  ASSUME CallsInv, Conclusion
  PROVE CallsInv'
<1> DEFINE n == Len(frames)
<1>1. stage = "running" /\ frames # <<>> /\ ~IsFunction
  BY ConclusionConcludes, Zenon DEF Ready, Running
<1>2. Listed(locals) /\ Listed(frames) /\ AllCalled(frames) /\ Follow(locals, frames)
  BY DEF CallsInv, FramesInv, LocalsFollowCalls, AllCalled
<1>3. n \in DOMAIN frames
  BY <1>1, <1>2, ListedProperties
<1>4. n \notin Bound(frames)
  <2>1. ~CallsFunction(frames[n].node)
    BY <1>1, Zenon DEF IsFunction, Kind, Node, Top, CallsFunction
  <2> QED
    BY <1>2, <1>3, <2>1 DEF Bound, AllCalled, Called
<1>5. ASSUME NEW v, Return(v), UNCHANGED <<inputs, locals>>
      PROVE CallsInv'
  <2>1. /\ AllCalled(frames') /\ Bound(frames') = Bound(frames) \ {n}
        /\ \A k \in Bound(frames') : frames'[k].node = frames[k].node
    BY <1>1, <1>2, <1>5, ReturnFrames
  <2>2. Bound(frames') = Bound(frames)
    BY <1>4, <2>1
  <2>3. Follow(locals, frames')
    BY <1>2, <2>1, <2>2, FollowSame
  <2>4. stage' = "running" \/ (frames' = <<>> /\ locals' = <<>>)
    <3>1. CASE UNCHANGED stage
      BY <1>1, <3>1
    <3>2. CASE frames' = <<>>
      <4>1. DOMAIN locals = {}
        BY <2>3, <3>2 DEF Follow, Bound
      <4> QED
        BY <1>2, <1>5, <3>2, <4>1, ListedProperties
    <3> QED
      BY <1>5, <3>1, <3>2, ReturnStage
  <2> QED
    BY <1>1, <1>2, <1>5, <2>1, <2>3, <2>4, SameProgram DEF inputs
<1> QED
  BY <1>5, ConclusionConcludes, ConcludeOutcome, StopCalls

(* A step keeps the locals those of the calls under way.                   *)
LEMMA CallsStep ==
  ASSUME CallsInv, [Next]_vars
  PROVE CallsInv'
<1>1. CASE Prepare \/ Analyze \/ Verify
  BY <1>1, EarlyCalls
<1>2. CASE EnterRoot
  BY <1>2, EnterCalls DEF EnterRoot
<1>3. CASE EnterOperand
  BY <1>3, EnterCalls DEF EnterOperand
<1>4. CASE Bind
  BY <1>4, BindCalls
<1>5. CASE LeaveFunction
  BY <1>5, LeaveCalls
<1>6. CASE Conclusion
  BY <1>6, ConclusionCalls
<1>7. CASE UNCHANGED vars
  BY <1>7 DEF vars, CallsInv, FramesInv, EarlyInv, LocalsFollowCalls, AllCalled, Called,
     CallsFunction, Dispatches, program
<1> QED
  BY <1>1, <1>2, <1>3, <1>4, <1>5, <1>6, <1>7 DEF Next, Conclusion

(* The locals are at all times those of the expression functions whose     *)
(* bodies are being evaluated, in order, and no frame outlives its call    *)
(* (eval_expression_function).                                             *)
THEOREM LocalsTheorem == Spec => []LocalsFollowCalls
<1>1. Init => CallsInv
  BY NothingCalled DEF Init, CallsInv, FramesInv, EarlyInv, LocalsFollowCalls
<1>2. CallsInv /\ [Next]_vars => CallsInv'
  BY CallsStep
<1>3. CallsInv => LocalsFollowCalls
  BY DEF CallsInv, FramesInv
<1> QED
  BY <1>1, <1>2, <1>3, PTL DEF Spec

-----------------------------------------------------------------------------
\* What is dispatched to.

(* An accepted program has no ticket for a capability its profile forbids. *)
LEMMA AcceptedSound ==
  ASSUME Accepted
  PROVE Sound(VerifiedProgram)
<1> DEFINE V == VerifiedProgram
<1>1. /\ V.tickets = Resolved
      /\ V.required = [t \in {Ticket(i) : i \in Resolved} |->
                         MetaOf(CHOOSE i \in Resolved : Ticket(i) = t)]
  BY DEF VerifiedProgram
<1>2. Resolved \subseteq Nodes
  BY DEF Resolved, Operations, Calls
<1>3. \A i \in Resolved : Permitted(MetaOf(i))
  BY <1>2 DEF Accepted, CapabilityProblem, Permitted
<1> HIDE DEF V
<1>4. \A i \in V.tickets : Ticket(i) \in DOMAIN V.required
  BY <1>1
<1>5. ASSUME NEW t \in DOMAIN V.required
      PROVE Permitted(V.required[t])
  <2>1. PICK i \in Resolved : t = Ticket(i)
    BY <1>1
  <2> DEFINE j == CHOOSE k \in Resolved : Ticket(k) = t
  <2>2. j \in Resolved
    BY <2>1
  <2>3. V.required[t] = MetaOf(j)
    BY <1>1, <2>1
  <2> HIDE DEF j
  <2> QED
    BY <1>3, <2>2, <2>3
<1> QED
  BY <1>4, <1>5 DEF Sound, V

(* What a conclusion adds to the history.                                  *)
LEMMA ConcludeHistory ==
  ASSUME NEW made, Conclude(made), History(history)
  PROVE /\ History(history')
        /\ \/ history'.dispatched = history.dispatched
           \/ /\ Dispatches(Node)
              /\ history'.dispatched =
                   history.dispatched \cup {<<Ticket(Node), MetadataOf(Ticket(Node))>>}
<1>1. \E w, r, l : history' = [spent |-> history.spent, worked |-> w, read |-> r,
                               looked |-> l,
                               dispatched |-> history.dispatched \cup DispatchedTo]
  BY Zenon DEF Conclude
<1>2. History(history') /\ history'.dispatched = history.dispatched \cup DispatchedTo
  BY <1>1 DEF History
<1>3. \/ DispatchedTo = {}
      \/ /\ Dispatches(Node)
         /\ DispatchedTo = {<<Ticket(Node), MetadataOf(Ticket(Node))>>}
  BY Zenon DEF DispatchedTo, Dispatches, Kind
<1> QED
  BY <1>2, <1>3

(* A step dispatches only to what the program was verified with.           *)
LEMMA DispatchStep ==
  ASSUME DispatchInv, [Next]_vars
  PROVE DispatchInv'
<1>1. CallsInv'
  BY CallsStep DEF DispatchInv
<1>2. ASSUME UNCHANGED <<request, verified>>
      PROVE /\ Sound(verified)' /\ (Verified => Verified')
            /\ history'.dispatched = history.dispatched => DispatchVerified'
  <2>1. program' = program /\ profile' = profile /\ context' = context /\ verified' = verified
    BY <1>2 DEF program, profile, context
  <2>2. Sound(verified)'
    BY <2>1 DEF DispatchInv, Sound, Permitted, Available, Ticket, Receivers
  <2>3. Verified => Verified'
    BY <2>1 DEF Verified, Registered, MetadataOf, Entry
  <2>4. history'.dispatched = history.dispatched => DispatchVerified'
    BY <2>1 DEF DispatchInv, Available, DispatchVerified
  <2> QED
    BY <2>2, <2>3, <2>4
<1>3. CASE Prepare
  <2>1. UNCHANGED <<request, verified, history>> /\ ~Running'
    BY <1>3 DEF Prepare, idle, Running, End
  <2> QED
    BY <1>1, <1>2, <1>3, <2>1 DEF DispatchInv, Running, Prepare
<1>4. CASE Analyze
  <2>1. stage = "analyzing" /\ UNCHANGED <<request, history>> /\ ~Running'
    BY <1>4 DEF Analyze, idle, Running, End
  <2>2. history'.dispatched = {} /\ DispatchVerified'
    BY <2>1 DEF DispatchInv, DispatchVerified
  <2>3. Sound(verified)'
    <3>1. CASE Accepted
      <4>1. verified' = VerifiedProgram
        BY <1>4, <3>1 DEF Analyze
      <4>2. Sound(VerifiedProgram)
        BY <3>1, AcceptedSound
      <4> QED
        BY <2>1, <4>1, <4>2 DEF Sound, Permitted, Available, Ticket, Receivers, program, profile
    <3>2. CASE ~Accepted
      BY <1>2, <1>4, <2>1, <3>2 DEF Analyze
    <3> QED
      BY <3>1, <3>2
  <2> QED
    BY <1>1, <2>1, <2>2, <2>3 DEF DispatchInv
<1>5. CASE Verify
  <2>1. UNCHANGED <<request, verified, history>> /\ (Running' => Verified)
    BY <1>5 DEF Verify, inputs, idle, Running, End
  <2>2. history'.dispatched = {}
    BY <1>5, <2>1 DEF DispatchInv, Verify
  <2> QED
    BY <1>1, <1>2, <2>1, <2>2 DEF DispatchInv
<1>6. CASE EnterRoot \/ EnterOperand
  <2>1. PICK i : Running /\ Enter(i)
    BY <1>6, Zenon DEF EnterRoot, EnterOperand
  <2>2. UNCHANGED <<request, verified>> /\ stage' \in {"running", "ended"}
    BY <2>1 DEF Enter, Stop, End, inputs, Running
  <2>3. History(history') /\ history'.dispatched = history.dispatched
    <3>1. PICK s : history' = history \/ history' = [history EXCEPT !.spent = s]
      BY <2>1, Zenon DEF Enter
    <3> QED
      BY <3>1 DEF DispatchInv, History
  <2> QED
    BY <1>1, <1>2, <2>1, <2>2, <2>3 DEF DispatchInv, Running
<1>7. CASE Bind
  <2>1. Running /\ UNCHANGED <<request, verified, history, stage>>
    BY <1>7, Zenon DEF Bind, inputs
  <2> QED
    BY <1>1, <1>2, <2>1 DEF DispatchInv, Running
<1>8. CASE LeaveFunction
  <2>1. Running /\ UNCHANGED <<request, verified>> /\ Return(Vals[1])
    BY <1>8, Zenon DEF LeaveFunction, inputs
  <2>2. stage' \in {"running", "ended"}
    BY <2>1 DEF Return, End, Running
  <2>3. History(history') /\ history'.dispatched = history.dispatched
    <3>1. PICK r : history' = [history EXCEPT !.read = r]
      BY <1>8, Zenon DEF LeaveFunction
    <3> QED
      BY <3>1 DEF DispatchInv, History
  <2> QED
    BY <1>1, <1>2, <2>1, <2>2, <2>3 DEF DispatchInv, Running
<1>9. CASE Conclusion
  <2>1. PICK made : Ready /\ Conclude(made)
    BY <1>9, ConclusionConcludes
  <2>2. Running /\ frames # <<>>
    BY <2>1 DEF Ready
  <2>3. UNCHANGED <<request, verified>> /\ stage' \in {"running", "ended"}
    BY <2>1, <2>2, ConcludeOutcome DEF Return, Stop, End, inputs, Running
  <2>4. History(history')
    BY <2>1, ConcludeHistory DEF DispatchInv
  <2>5. CASE history'.dispatched = history.dispatched
    BY <1>1, <1>2, <2>2, <2>3, <2>4, <2>5 DEF DispatchInv, Running
  <2>6. CASE /\ Dispatches(Node)
             /\ history'.dispatched =
                  history.dispatched \cup {<<Ticket(Node), MetadataOf(Ticket(Node))>>}
    <3> DEFINE t == Ticket(Node)
               m == MetadataOf(t)
    <3>1. Node \in verified.tickets
      <4>1. Listed(frames) /\ \A k \in DOMAIN frames : Called(frames[k])
        BY DEF DispatchInv, CallsInv, FramesInv, AllCalled
      <4>2. Len(frames) \in DOMAIN frames
        BY <2>2, <4>1, ListedProperties
      <4> QED
        BY <2>6, <4>1, <4>2 DEF Called, Node, Top
    <3>2. t \in DOMAIN verified.required
      BY <3>1 DEF DispatchInv, Sound
    <3>3. m = verified.required[t]
      BY <2>2, <3>2 DEF DispatchInv, Verified
    <3>4. Permitted(m)
      BY <3>2, <3>3 DEF DispatchInv, Sound
    <3> HIDE DEF t, m
    <3>5. DispatchVerified'
      <4> SUFFICES ASSUME NEW d \in history'.dispatched
                   PROVE /\ d[1] \in DOMAIN verified.required /\ verified.required[d[1]] = d[2]
                         /\ Permitted(d[2])
        BY <2>3 DEF DispatchVerified, Permitted, Available, profile
      <4>1. CASE d \in history.dispatched
        BY <4>1 DEF DispatchInv, DispatchVerified, Permitted
      <4>2. CASE d = <<t, m>>
        BY <3>2, <3>3, <3>4, <4>2
      <4> QED
        BY <2>6, <4>1, <4>2 DEF t, m
    <3> QED
      BY <1>1, <1>2, <2>2, <2>3, <2>4, <3>5 DEF DispatchInv, Running
  <2> QED
    BY <2>1, <2>5, <2>6, ConcludeHistory DEF DispatchInv
<1>10. CASE UNCHANGED vars
  BY <1>1, <1>2, <1>10 DEF vars, DispatchInv, Running
<1> QED
  BY <1>3, <1>4, <1>5, <1>6, <1>7, <1>8, <1>9, <1>10 DEF Next, Conclusion

(* Nothing is dispatched to before anything runs.                          *)
LEMMA DispatchInit == Init => DispatchInv
<1> SUFFICES ASSUME Init PROVE DispatchInv
  OBVIOUS
<1>1. CallsInv
  BY NothingCalled DEF Init, CallsInv, FramesInv, EarlyInv, LocalsFollowCalls
<1>2. Sound(verified)
  BY DEF Init, NoProgram, Sound
<1>3. History(history) /\ history.dispatched = {} /\ ~Running
  BY DEF Init, History, Running
<1> QED
  BY <1>1, <1>2, <1>3 DEF DispatchInv, DispatchVerified

(* Every handler that runs is the one whose metadata the analysis saw, and *)
(* is permitted in the phase and profile it was analyzed for               *)
(* (verify_runtime_capabilities, validate_capability).                     *)
THEOREM DispatchTheorem == Spec => []DispatchVerified
<1>1. Init => DispatchInv
  BY DispatchInit
<1>2. DispatchInv /\ [Next]_vars => DispatchInv'
  BY DispatchStep
<1>3. DispatchInv => DispatchVerified
  BY DEF DispatchInv
<1> QED
  BY <1>1, <1>2, <1>3, PTL DEF Spec

-----------------------------------------------------------------------------
\* Sums of sequences of numbers.

(* A set of numbers has a least one.                                       *)
LEMMA LeastNatural ==
  ASSUME NEW S \in SUBSET Nat, S # {}
  PROVE  \E x \in S : \A y \in S : x <= y
<1>1. PICK x \in S : \A y \in S : ~(<<y, x>> \in OpToRel(<, Nat))
  BY NatLessThanWellFounded, WFMin
<1>2. \A y \in S : ~(y < x)
  BY <1>1 DEF OpToRel
<1> QED
  BY <1>2

(* A set that holds 0 and, up to n, with a number the next one holds all   *)
(* up to n.                                                                *)
LEMMA UpTo ==
  ASSUME NEW n \in Nat, NEW S, 0 \in S, \A i \in 1 .. n : i - 1 \in S => i \in S
  PROVE  \A i \in 0 .. n : i \in S
<1> SUFFICES ASSUME NEW j \in 0 .. n, j \notin S PROVE FALSE
  OBVIOUS
<1> DEFINE Absent == {i \in 0 .. n : i \notin S}
<1>1. PICK x \in Absent : \A y \in Absent : x <= y
  <2>1. Absent \in SUBSET Nat /\ j \in Absent
    OBVIOUS
  <2> QED
    BY <2>1, LeastNatural
<1>2. x \in 1 .. n /\ x - 1 \in S
  BY <1>1
<1> QED
  BY <1>1, <1>2

(* Every sequence of numbers has sums ...                                  *)
LEMMA SumsExist ==
  ASSUME NEW s \in Seq(Nat)
  PROVE \E f : Sums(f, s)
<1> DEFINE n == Len(s)
           Summed == {m \in 0 .. n : \E f \in [0 .. m -> Nat] : SumsUpTo(f, s, m)}
<1>1. n \in Nat /\ \A k \in 1 .. n : s[k] \in Nat
  OBVIOUS
<1>2. 0 \in Summed
  <2> DEFINE g == [k \in 0 .. 0 |-> 0]
  <2>1. g \in [0 .. 0 -> Nat] /\ g[0] = 0
    OBVIOUS
  <2> HIDE DEF g
  <2>2. SumsUpTo(g, s, 0)
    BY <2>1 DEF SumsUpTo
  <2> QED
    BY <1>1, <2>1, <2>2
<1>3. ASSUME NEW m \in 1 .. n, m - 1 \in Summed PROVE m \in Summed
  <2>1. PICK f \in [0 .. m - 1 -> Nat] : SumsUpTo(f, s, m - 1)
    BY <1>3
  <2> DEFINE g == [k \in 0 .. m |-> IF k = m THEN f[m - 1] + s[m] ELSE f[k]]
  <2>2. f[m - 1] + s[m] \in Nat
    BY <1>1, <2>1
  <2>3. /\ g \in [0 .. m -> Nat] /\ g[m] = f[m - 1] + s[m]
        /\ \A k \in 0 .. m - 1 : g[k] = f[k]
    BY <1>1, <2>1, <2>2
  <2> HIDE DEF g
  <2>4. g[0] = 0
    BY <1>1, <2>1, <2>3 DEF SumsUpTo
  <2>5. ASSUME NEW k \in 1 .. m PROVE g[k] = g[k - 1] + s[k]
    <3>1. CASE k = m
      BY <1>1, <2>3, <3>1
    <3>2. CASE k # m
      <4>1. k \in 1 .. m - 1 /\ k - 1 \in 0 .. m - 1 /\ k \in 0 .. m - 1
        BY <1>1, <3>2
      <4> QED
        BY <2>1, <2>3, <4>1 DEF SumsUpTo
    <3> QED
      BY <3>1, <3>2
  <2>6. SumsUpTo(g, s, m)
    BY <2>4, <2>5 DEF SumsUpTo
  <2>7. \E h \in [0 .. m -> Nat] : SumsUpTo(h, s, m)
    BY <2>3, <2>6, Zenon
  <2>8. m \in 0 .. n
    BY <1>1
  <2> QED
    BY <2>7, <2>8, Zenon
<1>4. n \in Summed
  <2> HIDE DEF Summed, n
  <2>1. \A k \in 0 .. n : k \in Summed
    BY <1>1, <1>2, <1>3, UpTo
  <2> QED
    BY <1>1, <2>1
<1> QED
  BY <1>4 DEF Sums

(* ... which agree as far as the sequences do.                             *)
LEMMA SumsAgree ==
  ASSUME NEW s, NEW t, NEW f, NEW g, NEW n \in Nat,
         SumsUpTo(f, s, n), SumsUpTo(g, t, n), \A k \in 1 .. n : s[k] = t[k]
  PROVE \A k \in 0 .. n : f[k] = g[k]
<1> DEFINE Same == {k \in 0 .. n : f[k] = g[k]}
<1>1. 0 \in Same
  BY DEF SumsUpTo
<1>2. ASSUME NEW k \in 1 .. n, k - 1 \in Same PROVE k \in Same
  BY <1>2 DEF SumsUpTo
<1> HIDE DEF Same
<1>3. \A k \in 0 .. n : k \in Same
  BY <1>1, <1>2, UpTo
<1> QED
  BY <1>3 DEF Same

(* SumOf is the last of the sums.                                          *)
LEMMA SumIs ==
  ASSUME NEW s \in Seq(Nat), NEW f, Sums(f, s)
  PROVE SumOf(s) = f[Len(s)] /\ SumOf(s) \in Nat
<1> DEFINE n == Len(s)
           Solves(g) == g = [k \in 0 .. n |-> IF k = 0 THEN 0 ELSE g[k - 1] + s[k]]
           upTo == CHOOSE g : Solves(g)
<1>1. n \in Nat /\ f \in [0 .. n -> Nat] /\ SumsUpTo(f, s, n)
  BY DEF Sums
<1>2. SumOf(s) = upTo[n]
  BY DEF SumOf
<1>3. Solves(f)
  <2>1. \A k \in 0 .. n : f[k] = IF k = 0 THEN 0 ELSE f[k - 1] + s[k]
    BY <1>1 DEF SumsUpTo
  <2> HIDE DEF n
  <2> QED
    BY <1>1, <2>1
<1>4. Solves(upTo)
  <2> HIDE DEF Solves
  <2> QED
    BY <1>3
<1> HIDE DEF upTo
<1>5. SumsUpTo(upTo, s, n)
  <2> HIDE DEF n
  <2>1. \A k \in 0 .. n : upTo[k] = IF k = 0 THEN 0 ELSE upTo[k - 1] + s[k]
    BY <1>4
  <2> QED
    BY <1>1, <2>1 DEF SumsUpTo
<1> HIDE DEF n
<1>6. upTo[n] = f[n]
  BY <1>1, <1>5, SumsAgree
<1> QED
  BY <1>1, <1>2, <1>6 DEF n

(* Sums only grow.                                                         *)
LEMMA SumsGrow ==
  ASSUME NEW s \in Seq(Nat), NEW f, Sums(f, s),
         NEW j \in 0 .. Len(s), NEW i \in 1 .. Len(s), j < i
  PROVE f[j] + s[i] <= f[i] /\ f[j] \in Nat /\ f[i] \in Nat /\ s[i] \in Nat /\ f[i] <= SumOf(s)
<1> DEFINE n == Len(s)
           Above(m) == {k \in 0 .. n : k < m \/ f[m] <= f[k]}
<1>1. n \in Nat /\ (\A k \in 1 .. n : s[k] \in Nat) /\ f \in [0 .. n -> Nat] /\ SumsUpTo(f, s, n)
  BY DEF Sums
<1>2. ASSUME NEW m \in 0 .. n
      PROVE \A k \in 0 .. n : m <= k => f[m] <= f[k]
  <2> HIDE DEF n
  <2>1. 0 \in Above(m)
    BY <1>1
  <2>2. ASSUME NEW k \in 1 .. n, k - 1 \in Above(m) PROVE k \in Above(m)
    <3>1. f[k] = f[k - 1] + s[k] /\ f[k] \in Nat /\ f[k - 1] \in Nat /\ s[k] \in Nat /\ f[m] \in Nat
      BY <1>1 DEF SumsUpTo
    <3>2. k < m \/ k = m \/ f[m] <= f[k - 1]
      BY <1>1, <2>2
    <3>3. k < m \/ f[m] <= f[k]
      <4>1. f[k - 1] <= f[k] /\ f[m] <= f[m]
        BY <3>1
      <4>2. f[m] <= f[k - 1] => f[m] <= f[k]
        BY <3>1, <4>1
      <4> QED
        BY <3>2, <4>1, <4>2, Zenon
    <3> QED
      BY <1>1, <3>3
  <2>3. \A k \in 0 .. n : k \in Above(m)
    <3> DEFINE A == Above(m)
    <3> HIDE DEF A
    <3> QED
      <4>1. 0 \in A /\ \A k \in 1 .. n : k - 1 \in A => k \in A
        BY <2>1, <2>2 DEF A
      <4>2. \A k \in 0 .. n : k \in A
        BY <1>1, <4>1, UpTo
      <4> QED
        BY <4>2 DEF A
  <2> QED
    BY <1>1, <2>3
<1>3. f[j] <= f[i - 1] /\ f[i] <= f[n]
  <2>1. j \in 0 .. n /\ i - 1 \in 0 .. n /\ j <= i - 1 /\ i \in 0 .. n /\ n \in 0 .. n /\ i <= n
    BY <1>1
  <2> HIDE DEF n
  <2> QED
    BY <1>2, <2>1
<1>4. f[i] = f[i - 1] + s[i] /\ f[j] \in Nat /\ f[i - 1] \in Nat /\ f[i] \in Nat /\ s[i] \in Nat
  <2>1. j \in 0 .. n /\ i \in 1 .. n
    OBVIOUS
  <2> HIDE DEF n
  <2> QED
    BY <1>1, <2>1 DEF SumsUpTo
<1>5. SumOf(s) = f[n]
  BY SumIs
<1> QED
  BY <1>3, <1>4, <1>5

(* Nothing to add.                                                         *)
LEMMA SumEmpty == SumOf(<<>>) = 0
<1> DEFINE s == <<>>
<1>1. s \in Seq(Nat) /\ Len(s) = 0
  OBVIOUS
<1> HIDE DEF s
<1>2. PICK f : Sums(f, s)
  BY <1>1, SumsExist
<1>3. f[0] = 0 /\ SumOf(s) = f[0]
  BY <1>1, <1>2, SumIs DEF Sums, SumsUpTo
<1> QED
  BY <1>3 DEF s

-----------------------------------------------------------------------------
\* What a step does to the calls under way.

(* What Return does.                                                       *)
LEMMA ReturnAnswers ==
  ASSUME NEW v, AllCalled(frames), frames # <<>>, Return(v)
  PROVE /\ Answers(frames, frames', v)
        /\ Len(frames) = 1 => stage' = "ended" /\ result' = v
        /\ Len(frames) > 1 => UNCHANGED <<stage, result>>
<1> DEFINE fs == frames
           gs == frames'
           n == Len(fs)
           m == n - 1
           rest == SubSeq(fs, 1, m)
<1>1. Listed(fs) /\ \A k \in DOMAIN fs : Called(fs[k])
  BY DEF AllCalled
<1>2. n \in Nat /\ n > 0 /\ DOMAIN fs = 1 .. n
  BY <1>1, ListedProperties
<1>3. Listed(rest) /\ Len(rest) = m /\ \A k \in 1 .. m : rest[k] = fs[k]
  BY <1>1, FrontListed
<1>4. CASE m = 0
  <2>1. gs = <<>> /\ result' = v /\ stage' = "ended"
    BY <1>4 DEF Return, End
  <2>2. Listed(<<>>) /\ Len(<<>>) = 0
    BY NothingCalled
  <2> HIDE DEF gs, n
  <2>3. Answers(fs, gs, v)
    <3>1. n = 1 /\ Listed(gs) /\ Len(gs) = 0
      BY <1>2, <1>4, <2>1, <2>2
    <3> QED
      BY <3>1 DEF Answers, n
  <2>4. n = 1 /\ ~(n > 1)
    BY <1>2, <1>4
  <2> QED
    BY <2>1, <2>3, <2>4 DEF gs, n
<1>5. CASE m # 0
  <2>1. gs = [rest EXCEPT ![m].vals = Append(@, v)] /\ UNCHANGED <<stage, result>>
    BY <1>5 DEF Return
  <2>2. m \in Nat /\ m > 0 /\ n = m + 1 /\ m \in DOMAIN rest /\ m \in DOMAIN fs
    BY <1>2, <1>3, <1>5, ListedProperties
  <2>3. rest[m] = fs[m] /\ Called(fs[m])
    BY <1>1, <1>3, <2>2
  <2> DEFINE f == fs[m]
             e == [node |-> f.node, vals |-> Append(f.vals, v), bound |-> f.bound]
  <2>4. [rest[m] EXCEPT !.vals = Append(@, v)] = e
    <3> HIDE DEF f
    <3>1. PICK a, b, c : f = [node |-> a, vals |-> b, bound |-> c]
      BY <2>3 DEF Called, f
    <3>2. f.node = a /\ f.vals = b /\ f.bound = c
      BY <3>1
    <3> DEFINE g == rest[m]
    <3> HIDE DEF g
    <3>3. g = [node |-> a, vals |-> b, bound |-> c]
      BY <2>3, <3>1 DEF g, f
    <3>4. [g EXCEPT !.vals = Append(@, v)] = [node |-> a, vals |-> Append(b, v), bound |-> c]
      BY <3>3
    <3> QED
      BY <3>2, <3>4 DEF g
  <2> HIDE DEF e
  <2>5. gs = [rest EXCEPT ![m] = e]
    BY <2>1, <2>4
  <2> HIDE DEF rest, gs, m, n
  <2>6. /\ Listed(gs) /\ Len(gs) = m
        /\ \A k \in 1 .. m : gs[k] = IF k = m THEN e ELSE rest[k]
    <3>1. Listed(gs) /\ Len(gs) = Len(rest)
          /\ \A k \in DOMAIN rest : gs[k] = IF k = m THEN e ELSE rest[k]
      <4>1. Listed(rest) /\ m \in DOMAIN rest
        BY <1>3, <2>2
      <4> QED
        BY <2>5, <4>1, ReplaceListed, Zenon
    <3>2. DOMAIN rest = 1 .. m
      BY <1>3, ListedProperties
    <3> QED
      BY <1>3, <3>1, <3>2
  <2>7. gs[m] = e /\ \A k \in 1 .. m - 1 : gs[k] = fs[k]
    BY <1>3, <2>2, <2>6
  <2>8. Answers(fs, gs, v)
    <3>1. n - 2 = m - 1 /\ n - 1 = m
      BY <2>2
    <3> QED
      BY <2>6, <2>7, <3>1 DEF Answers, n, e, f
  <2> QED
    BY <2>1, <2>2, <2>8 DEF gs, n
<1> QED
  BY <1>4, <1>5

(* What Bind does.                                                         *)
LEMMA BindBinds ==
  ASSUME AllCalled(frames), Bind
  PROVE Binds(frames, frames')
<1> DEFINE fs == frames
           gs == frames'
           n == Len(fs)
           f == fs[n]
           e == [node |-> f.node, vals |-> <<>>, bound |-> TRUE]
<1>1. Listed(fs) /\ \A k \in DOMAIN fs : Called(fs[k])
  BY DEF AllCalled
<1>2. fs # <<>> /\ gs = [fs EXCEPT ![n].vals = <<>>, ![n].bound = TRUE]
  BY Zenon DEF Bind
<1>3. n \in Nat /\ n > 0 /\ DOMAIN fs = 1 .. n
  BY <1>1, <1>2, ListedProperties
<1>4. n \in DOMAIN fs /\ Called(f)
  BY <1>1, <1>3
<1>5. [[f EXCEPT !.vals = <<>>] EXCEPT !.bound = TRUE] = e
  <2> HIDE DEF f
  <2>1. PICK a, b, c : f = [node |-> a, vals |-> b, bound |-> c]
    BY <1>4 DEF Called
  <2>2. f.node = a /\ [f EXCEPT !.vals = <<>>] = [node |-> a, vals |-> <<>>, bound |-> c]
    BY <2>1
  <2> DEFINE g == [f EXCEPT !.vals = <<>>]
  <2> HIDE DEF g
  <2>3. g = [node |-> a, vals |-> <<>>, bound |-> c]
    BY <2>2 DEF g
  <2>4. \A t : [g EXCEPT !.bound = t] = [node |-> a, vals |-> <<>>, bound |-> t]
    BY <2>3
  <2>5. [g EXCEPT !.bound = TRUE] = [node |-> a, vals |-> <<>>, bound |-> TRUE]
    BY <2>4
  <2> QED
    BY <2>2, <2>5 DEF g
<1>6. gs = [fs EXCEPT ![n] = e]
  <2>1. gs = [fs EXCEPT ![n] = [[f EXCEPT !.vals = <<>>] EXCEPT !.bound = TRUE]]
    BY <1>2, <1>3, <1>4
  <2> QED
    BY <1>5, <2>1
<1> HIDE DEF e, n, gs
<1>7. /\ Listed(gs) /\ Len(gs) = Len(fs)
      /\ \A k \in DOMAIN fs : gs[k] = IF k = n THEN e ELSE fs[k]
  BY <1>1, <1>4, <1>6, ReplaceListed, Zenon
<1>8. gs[n] = e /\ \A k \in 1 .. n - 1 : gs[k] = fs[k]
  BY <1>3, <1>7
<1> QED
  BY <1>7, <1>8 DEF Binds, e, n, gs, f

-----------------------------------------------------------------------------
\* The path of calls through the program.

(* What IsProgram says of the operands.                                    *)
LEMMA ProgramOperands ==
  ASSUME NEW p, IsProgram(p)
  PROVE /\ Len(p.kind) \in Nat /\ Len(p.kind) > 0 /\ DOMAIN p.kind = 1 .. Len(p.kind)
        /\ \A i \in DOMAIN p.kind :
             /\ i \in Nat /\ p.kids[i] \in Seq(i + 1 .. Len(p.kind))
             /\ Len(p.kids[i]) \in OperandsOf(p.kind[i]) /\ p.kind[i] \in NodeKinds
             /\ Len(p.kids[i]) \in Nat /\ DOMAIN p.kids[i] = 1 .. Len(p.kids[i])
             /\ ArgumentsOf(p, i) \in Nat
             /\ FunctionNode(p, i) => Len(p.kids[i]) = ArgumentsOf(p, i) + 1
             /\ ~FunctionNode(p, i) => Len(p.kids[i]) = ArgumentsOf(p, i)
             /\ \A k \in DOMAIN p.kids[i] : p.kids[i][k] \in i + 1 .. Len(p.kind)
<1>1. p.kind \in Seq(NodeKinds) /\ p.kind # <<>>
  BY DEF IsProgram
<1>2. Len(p.kind) \in Nat /\ Len(p.kind) > 0 /\ DOMAIN p.kind = 1 .. Len(p.kind)
  BY <1>1
<1> SUFFICES ASSUME NEW i \in DOMAIN p.kind
             PROVE  /\ i \in Nat /\ p.kids[i] \in Seq(i + 1 .. Len(p.kind))
                    /\ Len(p.kids[i]) \in OperandsOf(p.kind[i]) /\ p.kind[i] \in NodeKinds
                    /\ Len(p.kids[i]) \in Nat /\ DOMAIN p.kids[i] = 1 .. Len(p.kids[i])
                    /\ ArgumentsOf(p, i) \in Nat
                    /\ FunctionNode(p, i) => Len(p.kids[i]) = ArgumentsOf(p, i) + 1
                    /\ ~FunctionNode(p, i) => Len(p.kids[i]) = ArgumentsOf(p, i)
                    /\ \A k \in DOMAIN p.kids[i] : p.kids[i][k] \in i + 1 .. Len(p.kind)
  BY <1>2
<1>3. p.kids[i] \in Seq(i + 1 .. Len(p.kind)) /\ Len(p.kids[i]) \in OperandsOf(p.kind[i])
  BY Zenon DEF IsProgram
<1>4. /\ Len(p.kids[i]) \in Nat /\ DOMAIN p.kids[i] = 1 .. Len(p.kids[i])
      /\ \A k \in DOMAIN p.kids[i] : p.kids[i][k] \in i + 1 .. Len(p.kind)
  <2> DEFINE s == p.kids[i]
             E == i + 1 .. Len(p.kind)
  <2>1. s \in Seq(E)
    BY <1>3
  <2> HIDE DEF s, E
  <2>2. Len(s) \in Nat /\ DOMAIN s = 1 .. Len(s) /\ \A k \in DOMAIN s : s[k] \in E
    BY <2>1
  <2> QED
    BY <2>2 DEF s, E
<1>5. FunctionNode(p, i) => Len(p.kids[i]) # 0
  BY <1>3 DEF FunctionNode, OperandsOf
<1>6. i \in Nat /\ p.kind[i] \in NodeKinds
  BY <1>1, <1>2
<1>7. /\ ArgumentsOf(p, i) \in Nat
      /\ FunctionNode(p, i) => Len(p.kids[i]) = ArgumentsOf(p, i) + 1
      /\ ~FunctionNode(p, i) => Len(p.kids[i]) = ArgumentsOf(p, i)
  <2> DEFINE n == Len(p.kids[i])
             b == FunctionNode(p, i)
  <2>1. n \in Nat /\ (b => n # 0)
    BY <1>4, <1>5
  <2>2. ArgumentsOf(p, i) = n - (IF b THEN 1 ELSE 0)
    BY Zenon DEF ArgumentsOf
  <2> HIDE DEF n, b
  <2>3. CASE b
    BY <2>1, <2>2, <2>3 DEF n, b
  <2>4. CASE ~b
    BY <2>1, <2>2, <2>4 DEF n, b
  <2> QED
    BY <2>3, <2>4
<1> QED
  BY <1>3, <1>4, <1>6, <1>7

(* The awaited operand is one of the node's.                               *)
LEMMA AwaitedOperand ==
  ASSUME NEW p, IsProgram(p), NEW f, Placed(p, f), Awaits(p, f)
  PROVE /\ Position(p, f) \in DOMAIN p.kids[f.node]
        /\ Awaited(p, f) \in DOMAIN p.kind
        /\ Awaited(p, f) \in f.node + 1 .. Len(p.kind)
<1> DEFINE i == f.node
           n == Len(p.kids[i])
           a == ArgumentsOf(p, i)
           l == Len(f.vals)
<1>1. i \in DOMAIN p.kind /\ Listed(f.vals)
  BY DEF Placed
<1>2. /\ i \in Nat /\ n \in Nat /\ a \in Nat /\ DOMAIN p.kids[i] = 1 .. n
      /\ FunctionNode(p, i) => n = a + 1
      /\ ~FunctionNode(p, i) => n = a
      /\ \A k \in DOMAIN p.kids[i] : p.kids[i][k] \in i + 1 .. Len(p.kind)
      /\ Len(p.kind) \in Nat /\ DOMAIN p.kind = 1 .. Len(p.kind)
  BY <1>1, ProgramOperands
<1>3. l \in Nat
  BY <1>1, ListedProperties
<1>4. /\ f.bound => FunctionNode(p, i) /\ l = 0 /\ Position(p, f) = n + l
      /\ ~f.bound => l < a /\ Position(p, f) = 1 + l
  BY DEF Placed, Awaits, Position
<1> HIDE DEF n, a, l, i
<1>5. Position(p, f) \in 1 .. n
  <2>1. CASE f.bound
    BY <1>2, <1>3, <1>4, <2>1
  <2>2. CASE ~f.bound
    <3>1. a <= n
      BY <1>2
    <3> QED
      BY <1>2, <1>3, <1>4, <2>2, <3>1
  <2> QED
    BY <2>1, <2>2
<1>6. Awaited(p, f) \in i + 1 .. Len(p.kind)
  BY <1>2, <1>5 DEF Awaited, i
<1>7. Awaited(p, f) \in DOMAIN p.kind
  BY <1>2, <1>6
<1> QED
  BY <1>2, <1>5, <1>6, <1>7 DEF i

(* A call that holds no value.                                             *)
LEMMA PlacedEmpty ==
  ASSUME NEW p, NEW f, f.node \in DOMAIN p.kind, ArgumentsOf(p, f.node) \in Nat,
         f.vals = <<>>, f.bound \in BOOLEAN, f.bound => FunctionNode(p, f.node)
  PROVE Placed(p, f)
<1>1. Listed(f.vals) /\ Len(f.vals) = 0
  BY NothingCalled, Zenon
<1> DEFINE l == Len(f.vals)
           a == ArgumentsOf(p, f.node)
<1>2. l = 0 /\ a \in Nat
  BY <1>1
<1> HIDE DEF l, a
<1>3. l <= 1 /\ l <= a
  BY <1>2
<1> QED
  BY <1>1, <1>3, Zenon DEF Placed, l, a

(* A call more.                                                            *)
LEMMA PathPush ==
  ASSUME NEW p, IsProgram(p), NEW fs, PathOf(p, fs), NEW i, Following(p, fs, i)
  PROVE /\ i \in DOMAIN p.kind
        /\ PathOf(p, Append(fs, [node |-> i, vals |-> <<>>, bound |-> FALSE]))
<1> DEFINE new == [node |-> i, vals |-> <<>>, bound |-> FALSE]
           gs == Append(fs, new)
           n == Len(fs)
<1>1. Listed(fs) /\ \A k \in DOMAIN fs : Placed(p, fs[k])
  BY DEF PathOf
<1>2. n \in Nat /\ DOMAIN fs = 1 .. n /\ (fs # <<>> <=> n > 0)
  BY <1>1, ListedProperties
<1>3. /\ Listed(gs) /\ Len(gs) = n + 1 /\ \A k \in DOMAIN fs : gs[k] = fs[k]
      /\ gs[n + 1] = new
  BY <1>1, AppendListed
<1>4. DOMAIN gs = 1 .. n + 1 /\ gs # <<>>
  BY <1>2, <1>3, ListedProperties
<1>5. i \in DOMAIN p.kind
  <2>1. CASE fs = <<>>
    <3>1. 1 \in DOMAIN p.kind
      BY ProgramOperands
    <3> QED
      BY <2>1, <3>1 DEF Following
  <2>2. CASE fs # <<>>
    <3>1. Placed(p, fs[n])
      BY <1>1, <1>2, <2>2
    <3> QED
      BY <2>2, <3>1, AwaitedOperand DEF Following
  <2> QED
    BY <2>1, <2>2
<1>6. Placed(p, new)
  <2>1. ArgumentsOf(p, i) \in Nat
    BY <1>5, ProgramOperands
  <2>2. new.node = i /\ new.vals = <<>> /\ new.bound = FALSE
    OBVIOUS
  <2> HIDE DEF new
  <2> QED
    BY <1>5, <2>1, <2>2, PlacedEmpty
<1>7. fs = <<>> => i = 1
  BY DEF Following
<1>8. fs # <<>> => Awaits(p, fs[n]) /\ i = Awaited(p, fs[n])
  BY DEF Following
<1>9. new.node = i
  OBVIOUS
<1> HIDE DEF gs, new, n
<1>10. \A k \in DOMAIN gs : Placed(p, gs[k])
  BY <1>1, <1>2, <1>3, <1>4, <1>6
<1>11. gs[1].node = 1
  <2>1. CASE fs = <<>>
    BY <1>2, <1>3, <1>7, <1>9, <2>1
  <2>2. CASE fs # <<>>
    <3>1. 1 \in DOMAIN fs /\ fs[1].node = 1
      BY <1>2, <2>2 DEF PathOf
    <3> QED
      BY <1>3, <3>1
  <2> QED
    BY <2>1, <2>2
<1>12. ASSUME NEW k \in DOMAIN gs, k # Len(gs)
       PROVE Awaits(p, gs[k]) /\ gs[k + 1].node = Awaited(p, gs[k])
  <2>1. k \in DOMAIN fs /\ gs[k] = fs[k] /\ fs # <<>>
    BY <1>2, <1>3, <1>4, <1>12
  <2>2. CASE k = n
    BY <1>3, <1>8, <1>9, <2>1, <2>2
  <2>3. CASE k # n
    <3>1. k + 1 \in DOMAIN fs
      BY <1>2, <2>1, <2>3
    <3> QED
      BY <1>3, <2>1, <2>3, <3>1 DEF PathOf, n
  <2> QED
    BY <2>2, <2>3
<1>13. PathOf(p, gs)
  BY <1>3, <1>4, <1>10, <1>11, <1>12 DEF PathOf
<1> QED
  BY <1>5, <1>13 DEF gs, new

(* The last call binds its arguments.                                      *)
LEMMA PathBind ==
  ASSUME NEW p, IsProgram(p), NEW fs, PathOf(p, fs), fs # <<>>,
         FunctionNode(p, fs[Len(fs)].node), NEW gs, Binds(fs, gs)
  PROVE PathOf(p, gs)
<1> DEFINE n == Len(fs)
<1>1. Listed(fs) /\ \A k \in DOMAIN fs : Placed(p, fs[k])
  BY DEF PathOf
<1>2. n \in Nat /\ DOMAIN fs = 1 .. n /\ n > 0
  BY <1>1, ListedProperties
<1>3. /\ Listed(gs) /\ Len(gs) = n
      /\ \A k \in 1 .. n - 1 : gs[k] = fs[k]
      /\ gs[n] = [node |-> fs[n].node, vals |-> <<>>, bound |-> TRUE]
  BY DEF Binds
<1>4. DOMAIN gs = 1 .. n /\ gs # <<>>
  BY <1>2, <1>3, ListedProperties
<1>5. FunctionNode(p, fs[n].node) /\ fs[n].node \in DOMAIN p.kind
  BY <1>1, <1>2 DEF Placed
<1> HIDE DEF n
<1>6. Placed(p, gs[n])
  <2>1. gs[n].node = fs[n].node /\ gs[n].vals = <<>> /\ gs[n].bound = TRUE
    BY <1>3
  <2>2. ArgumentsOf(p, fs[n].node) \in Nat
    BY <1>5, ProgramOperands
  <2> QED
    BY <1>5, <2>1, <2>2, PlacedEmpty
<1>7. \A k \in DOMAIN gs : gs[k].node = fs[k].node
  BY <1>2, <1>3, <1>4
<1>8. \A k \in DOMAIN gs : Placed(p, gs[k])
  BY <1>1, <1>2, <1>3, <1>4, <1>6
<1>9. gs[1].node = 1
  BY <1>2, <1>4, <1>7 DEF PathOf
<1>10. ASSUME NEW k \in DOMAIN gs, k # Len(gs)
       PROVE Awaits(p, gs[k]) /\ gs[k + 1].node = Awaited(p, gs[k])
  <2>1. k \in DOMAIN fs /\ k # Len(fs) /\ gs[k] = fs[k] /\ k + 1 \in DOMAIN gs
    BY <1>2, <1>3, <1>4, <1>10 DEF n
  <2> QED
    BY <1>7, <2>1 DEF PathOf
<1> QED
  BY <1>3, <1>8, <1>9, <1>10 DEF PathOf

(* The last call returns.                                                  *)
LEMMA PathAnswer ==
  ASSUME NEW p, IsProgram(p), NEW fs, PathOf(p, fs), fs # <<>>,
         NEW gs, NEW v, Answers(fs, gs, v)
  PROVE PathOf(p, gs)
<1> DEFINE n == Len(fs)
           m == n - 1
<1>1. Listed(fs) /\ \A k \in DOMAIN fs : Placed(p, fs[k])
  BY DEF PathOf
<1>2. n \in Nat /\ DOMAIN fs = 1 .. n /\ n > 0
  BY <1>1, ListedProperties
<1>3. n - 2 = m - 1 /\ m \in Nat /\ n = m + 1 /\ (n > 1 <=> m > 0)
  BY <1>2
<1>4. /\ Listed(gs) /\ Len(gs) = m
      /\ \A k \in 1 .. m - 1 : gs[k] = fs[k]
      /\ m > 0 => gs[m] = [node |-> fs[m].node, vals |-> Append(fs[m].vals, v),
                           bound |-> fs[m].bound]
  BY <1>3 DEF Answers
<1> HIDE DEF n, m
<1>5. DOMAIN gs = 1 .. m /\ (gs # <<>> <=> m > 0)
  BY <1>4, ListedProperties
<1>6. m > 0 => Placed(p, gs[m]) /\ gs[m].node = fs[m].node
  <2> SUFFICES ASSUME m > 0 PROVE Placed(p, gs[m]) /\ gs[m].node = fs[m].node
    OBVIOUS
  <2>1. m \in DOMAIN fs /\ m # n
    BY <1>2, <1>3
  <2>2. Placed(p, fs[m]) /\ Awaits(p, fs[m])
    BY <1>1, <2>1 DEF PathOf, n
  <2> DEFINE f == fs[m]
             g == gs[m]
  <2>3. g.node = f.node /\ g.vals = Append(f.vals, v) /\ g.bound = f.bound
    BY <1>4
  <2> HIDE DEF f, g
  <2>4. Placed(p, f) /\ Awaits(p, f)
    BY <2>2 DEF f
  <2>5. Listed(g.vals) /\ Len(g.vals) = Len(f.vals) + 1 /\ Len(f.vals) \in Nat
    <3>1. Listed(f.vals)
      BY <2>4 DEF Placed
    <3> QED
      BY <2>3, <3>1, AppendListed, ListedProperties
  <2>6. ArgumentsOf(p, f.node) \in Nat
    <3>1. f.node \in DOMAIN p.kind
      BY <2>4 DEF Placed
    <3> QED
      BY <3>1, ProgramOperands
  <2>7. Placed(p, g)
    BY <2>3, <2>4, <2>5, <2>6 DEF Placed, Awaits
  <2> QED
    BY <2>3, <2>7 DEF f, g
<1>7. \A k \in DOMAIN gs : gs[k].node = fs[k].node
  BY <1>3, <1>4, <1>5, <1>6
<1>8. \A k \in DOMAIN gs : Placed(p, gs[k])
  BY <1>1, <1>2, <1>3, <1>4, <1>5, <1>6
<1>9. gs # <<>> => gs[1].node = 1
  BY <1>2, <1>3, <1>5, <1>7 DEF PathOf
<1>10. ASSUME NEW k \in DOMAIN gs, k # Len(gs)
       PROVE Awaits(p, gs[k]) /\ gs[k + 1].node = Awaited(p, gs[k])
  <2>1. k \in DOMAIN fs /\ k # Len(fs) /\ gs[k] = fs[k] /\ k + 1 \in DOMAIN gs
    BY <1>2, <1>3, <1>4, <1>5, <1>10 DEF n
  <2> QED
    BY <1>7, <2>1 DEF PathOf
<1> QED
  BY <1>4, <1>8, <1>9, <1>10 DEF PathOf

(* The top call.                                                           *)
LEMMA TopPlaced ==
  ASSUME PathInv, frames # <<>>
  PROVE /\ IsProgram(program) /\ Placed(program, Top) /\ Called(Top)
        /\ Len(frames) \in DOMAIN frames /\ Node \in Nodes
<1>1. IsProgram(program)
  BY ProgramAssumption, Zenon DEF PathInv, program
<1>2. AllCalled(frames) /\ Listed(frames) /\ PathOf(program, frames)
  BY DEF PathInv, CallsInv, FramesInv, AllCalled
<1>3. Len(frames) \in DOMAIN frames
  BY <1>2, ListedProperties
<1>4. Placed(program, Top) /\ Called(Top)
  BY <1>2, <1>3 DEF PathOf, AllCalled, Top
<1> QED
  BY <1>1, <1>3, <1>4 DEF Placed, Node, Nodes

(* The operand that is evaluated next is the one the path awaits.          *)
LEMMA NextFollows ==
  ASSUME PathInv, frames # <<>>, NeedsOperand
  PROVE Following(program, frames, NextOperand)
<1> DEFINE f == Top
           n == Len(Operands)
           a == ArgumentsOf(program, Node)
           l == Len(Vals)
<1>1. IsProgram(program) /\ Placed(program, f) /\ Node \in Nodes
  BY TopPlaced
<1>2. /\ n \in Nat /\ a \in Nat
      /\ FunctionNode(program, Node) => n = a + 1
      /\ ~FunctionNode(program, Node) => n = a
  BY <1>1, ProgramOperands DEF Nodes, Operands
<1>3. l \in Nat
  BY <1>1, ListedProperties DEF Placed, Vals
<1>4. IsFunction <=> FunctionNode(program, Node)
  BY DEF IsFunction, Kind, FunctionNode
<1>5. /\ f.bound \in BOOLEAN
      /\ f.bound => FunctionNode(program, Node)
      /\ ~f.bound => l <= a
  BY <1>1 DEF Placed, Node, Vals
<1>6. /\ NeedsOperand => IF IsFunction THEN ~(~f.bound /\ l = n - 1) /\ (f.bound => Vals = <<>>)
                         ELSE l < n
      /\ NextOperand = Operands[IF f.bound THEN n ELSE l + 1]
  BY Zenon DEF NeedsOperand, NextOperand, Unbound
<1>7. Vals = <<>> => l = 0
  <2> DEFINE s == Vals
  <2> HIDE DEF s
  <2>1. s = <<>> => Len(s) = 0
    OBVIOUS
  <2> QED
    BY <2>1 DEF s
<1>8. /\ Awaits(program, f) <=> IF f.bound THEN l = 0 ELSE l < a
      /\ Awaited(program, f) = Operands[(IF f.bound THEN n ELSE 1) + l]
  BY Zenon DEF Awaits, Awaited, Position, Node, Vals, Operands
<1> HIDE DEF f, n, a, l
<1>9. CASE f.bound
  <2>1. l = 0
    BY <1>4, <1>5, <1>6, <1>7, <1>9
  <2>2. n + l = n
    BY <1>2, <2>1
  <2> QED
    BY <1>6, <1>8, <1>9, <2>1, <2>2 DEF Following, f, Top
<1>10. CASE ~f.bound
  <2>1. l < a
    <3>1. CASE IsFunction
      <4>1. n - 1 = a /\ l # n - 1
        BY <1>2, <1>4, <1>6, <1>10, <3>1
      <4> QED
        BY <1>2, <1>3, <1>5, <1>10, <4>1
    <3>2. CASE ~IsFunction
      BY <1>2, <1>4, <1>6, <3>2
    <3> QED
      BY <3>1, <3>2
  <2>2. 1 + l = l + 1
    BY <1>3
  <2> QED
    BY <1>6, <1>8, <1>10, <2>1, <2>2 DEF Following, f, Top
<1> QED
  BY <1>5, <1>9, <1>10

(* A step of an action that begins a call.                                 *)
LEMMA EnterFollows ==
  ASSUME PathInv, EnterRoot \/ EnterOperand
  PROVE \E i : Running /\ Enter(i) /\ Following(program, frames, i)
<1>1. CASE EnterRoot
  BY <1>1, Zenon DEF EnterRoot, Following
<1>2. CASE EnterOperand
  BY <1>2, NextFollows, Zenon DEF EnterOperand
<1> QED
  BY <1>1, <1>2

(* Nothing under way.                                                      *)
LEMMA PathEmpty ==
  ASSUME NEW p, NEW fs, fs = <<>>
  PROVE PathOf(p, fs)
<1>1. Listed(<<>>)
  BY NothingCalled
<1>2. DOMAIN fs = {}
  OBVIOUS
<1> QED
  BY <1>1, <1>2 DEF PathOf

(* A step follows the program.                                             *)
LEMMA PathStep ==
  ASSUME PathInv, [Next]_vars
  PROVE PathInv'
<1> DEFINE p == program
           fs == frames
           gs == frames'
<1>1. CallsInv'
  BY CallsStep DEF PathInv
<1>2. request' = request
  BY Zenon DEF Next, vars, Prepare, Analyze, Verify, EnterRoot, EnterOperand, Enter, Stop, Bind,
     LeaveFunction, ReturnLiteral, ReturnIdentifier, ReturnArray, ReturnMember, ReturnCall,
     ReturnOperator, ReturnLogical, Conclude, inputs
<1>3. PathOf(p, fs) /\ IsProgram(p) /\ AllCalled(fs)
  BY ProgramAssumption, Zenon DEF PathInv, program, CallsInv, FramesInv
<1>4. CASE Prepare \/ Analyze \/ Verify \/ UNCHANGED vars
  <2>1. gs = fs
    BY <1>4, Zenon DEF Prepare, Analyze, Verify, vars, idle
  <2> QED
    BY <1>1, <1>2, <1>3, <2>1 DEF PathInv, program
<1>5. ASSUME PathOf(p, gs) PROVE PathInv'
  BY <1>1, <1>2, <1>5 DEF PathInv, program
<1>6. ASSUME NEW reason, Stop(reason) PROVE PathInv'
  BY <1>5, <1>6, PathEmpty DEF Stop
<1>7. ASSUME NEW v, Return(v), fs # <<>> PROVE PathInv'
  <2>1. Answers(fs, gs, v)
    BY <1>3, <1>7, ReturnAnswers
  <2> HIDE DEF p, fs, gs
  <2>2. PathOf(p, gs)
    BY <1>3, <1>7, <2>1, PathAnswer
  <2> QED
    BY <1>5, <2>2
<1>8. CASE EnterRoot \/ EnterOperand
  <2>1. PICK i : Enter(i) /\ Following(p, fs, i)
    BY <1>8, EnterFollows
  <2>2. CASE gs = Append(fs, [node |-> i, vals |-> <<>>, bound |-> FALSE])
    BY <1>3, <1>5, <2>1, <2>2, PathPush
  <2> QED
    BY <1>6, <2>1, <2>2, Zenon DEF Enter
<1>9. CASE Bind
  <2>1. Binds(fs, gs) /\ fs # <<>> /\ FunctionNode(p, fs[Len(fs)].node)
    <3>1. fs # <<>> /\ FunctionNode(p, fs[Len(fs)].node)
      BY <1>9, Zenon DEF Bind, Unbound, IsFunction, Kind, Node, Top, FunctionNode
    <3> QED
      BY <1>3, <1>9, <3>1, BindBinds
  <2> HIDE DEF p, fs, gs
  <2>2. PathOf(p, gs)
    BY <1>3, <2>1, PathBind
  <2> QED
    BY <1>5, <2>2
<1>10. CASE LeaveFunction
  BY <1>7, <1>10, Zenon DEF LeaveFunction
<1>11. CASE Conclusion
  <2>1. PICK made : Ready /\ Conclude(made)
    BY <1>11, ConclusionConcludes
  <2>2. fs # <<>>
    BY <2>1 DEF Ready
  <2> QED
    BY <1>6, <1>7, <2>1, <2>2, ConcludeOutcome
<1> QED
  BY <1>4, <1>8, <1>9, <1>10, <1>11 DEF Next, Conclusion

(* There are no calls at first.                                            *)
LEMMA PathInit == Init => PathInv
<1> SUFFICES ASSUME Init PROVE PathInv
  OBVIOUS
<1>1. CallsInv
  BY NothingCalled DEF Init, CallsInv, FramesInv, EarlyInv, LocalsFollowCalls
<1> QED
  BY <1>1, PathEmpty DEF Init, PathInv

-----------------------------------------------------------------------------
\* How far an evaluation has come.

(* What a later node adds is still within them.                            *)
LEMMA WithinNext ==
  ASSUME NEW c \in Seq(Nat), NEW last \in 0 .. Len(c), NEW i \in 1 .. Len(c), last < i,
         NEW x, Within(c, x, last), NEW y \in Nat, y <= c[i]
  PROVE Within(c, x + y, i)
<1>1. x \in Nat /\ x + y \in Nat
  BY DEF Within
<1>2. ASSUME NEW f, Sums(f, c) PROVE x + y <= f[i]
  <2>1. f[last] + c[i] <= f[i] /\ f[last] \in Nat /\ f[i] \in Nat /\ c[i] \in Nat
    BY <1>2, SumsGrow
  <2>2. x <= f[last]
    BY <1>2 DEF Within
  <2> QED
    BY <1>1, <2>1, <2>2
<1> QED
  BY <1>1, <1>2 DEF Within

(* What is spent up to some node is within the sum over all.               *)
LEMMA WithinSum ==
  ASSUME NEW c \in Seq(Nat), NEW last \in 0 .. Len(c), NEW x, Within(c, x, last)
  PROVE x <= SumOf(c)
<1> DEFINE n == Len(c)
<1>1. PICK f : Sums(f, c)
  BY SumsExist
<1>2. x <= f[last] /\ x \in Nat
  BY <1>1 DEF Within
<1>3. SumOf(c) = f[n] /\ SumOf(c) \in Nat /\ n \in Nat
  BY <1>1, SumIs
<1>4. CASE last = n
  BY <1>2, <1>3, <1>4
<1>5. CASE last # n
  <2>1. n \in 1 .. Len(c) /\ last < n
    BY <1>3, <1>5
  <2>2. f[last] + c[n] <= f[n] /\ f[last] \in Nat /\ c[n] \in Nat
    BY <1>1, <2>1, SumsGrow
  <2> QED
    BY <1>2, <1>3, <2>2
<1> QED
  BY <1>4, <1>5

(* Operands come one after the other, with all that lies below them.       *)
LEMMA OperandOrder ==
  ASSUME NEW p, IsProgram(p), NEW i \in DOMAIN p.kind,
         NEW k \in DOMAIN p.kids[i], NEW l \in DOMAIN p.kids[i], k < l
  PROVE /\ p.kids[i][k] < p.kids[i][l]
        /\ \A j \in p.kids[i][k] .. p.kids[i][l] - 1 : \A q \in DOMAIN p.kids[j] :
             p.kids[j][q] < p.kids[i][l]
<1>1. l \in {m \in DOMAIN p.kids[i] : m > k}
  <2>1. DOMAIN p.kids[i] = 1 .. Len(p.kids[i]) /\ Len(p.kids[i]) \in Nat
    BY ProgramOperands
  <2> QED
    BY <2>1
<1>2. /\ p.kids[i][k] < p.kids[i][l]
      /\ \A j \in p.kids[i][k] .. p.kids[i][l] - 1 :
           \A m \in ToSet(p.kids[j]) : m < p.kids[i][l]
  BY <1>1, Zenon DEF IsProgram
<1>3. ASSUME NEW j, NEW q \in DOMAIN p.kids[j] PROVE p.kids[j][q] \in ToSet(p.kids[j])
  BY DEF ToSet
<1> QED
  BY <1>2, <1>3, Zenon

(* The next call is of a later node, and what is left comes after it.      *)
LEMMA AheadPush ==
  ASSUME NEW p, IsProgram(p), NEW fs, PathOf(p, fs), NEW i, Following(p, fs, i),
         NEW last \in Nat, Ahead(p, fs, last), fs = <<>> => last = 0
  PROVE /\ last < i /\ i \in DOMAIN p.kind
        /\ Ahead(p, Append(fs, [node |-> i, vals |-> <<>>, bound |-> FALSE]), i)
<1> DEFINE new == [node |-> i, vals |-> <<>>, bound |-> FALSE]
           gs == Append(fs, new)
           n == Len(fs)
           top == fs[n].node
<1>1. Listed(fs) /\ \A k \in DOMAIN fs : Placed(p, fs[k])
  BY DEF PathOf
<1>2. n \in Nat /\ DOMAIN fs = 1 .. n /\ (fs # <<>> <=> n > 0)
  BY <1>1, ListedProperties
<1>3. /\ Listed(gs) /\ Len(gs) = n + 1 /\ \A k \in DOMAIN fs : gs[k] = fs[k]
      /\ gs[n + 1] = new
  BY <1>1, AppendListed
<1>4. DOMAIN gs = 1 .. n + 1
  BY <1>3, ListedProperties
<1>5. i \in DOMAIN p.kind /\ i \in Nat
  BY PathPush, ProgramOperands
<1>6. \A k \in DOMAIN fs : fs[k].node \in DOMAIN p.kind /\ fs[k].node \in Nat
  BY <1>1, ProgramOperands DEF Placed
<1>7. new.node = i /\ new.vals = <<>> /\ new.bound = FALSE
  OBVIOUS
<1> HIDE DEF gs, new, n
<1>8. fs # <<>> => /\ n \in DOMAIN fs /\ top \in DOMAIN p.kind /\ Awaits(p, fs[n])
                   /\ Position(p, fs[n]) \in DOMAIN p.kids[top]
                   /\ i = p.kids[top][Position(p, fs[n])]
  <2> SUFFICES ASSUME fs # <<>>
               PROVE /\ n \in DOMAIN fs /\ top \in DOMAIN p.kind /\ Awaits(p, fs[n])
                     /\ Position(p, fs[n]) \in DOMAIN p.kids[top]
                     /\ i = p.kids[top][Position(p, fs[n])]
    OBVIOUS
  <2>1. n \in DOMAIN fs
    BY <1>2
  <2>2. Placed(p, fs[n]) /\ Awaits(p, fs[n]) /\ i = Awaited(p, fs[n])
    BY <1>1, <2>1 DEF Following, n
  <2>3. Position(p, fs[n]) \in DOMAIN p.kids[top]
    BY <2>2, AwaitedOperand
  <2> QED
    BY <1>6, <2>1, <2>2, <2>3 DEF Awaited
<1>9. \A k \in DOMAIN p.kind : \A q \in DOMAIN p.kids[k] :
        q \in Nat /\ p.kids[k][q] \in Nat /\ k < p.kids[k][q]
  <2> SUFFICES ASSUME NEW k \in DOMAIN p.kind, NEW q \in DOMAIN p.kids[k]
               PROVE q \in Nat /\ p.kids[k][q] \in Nat /\ k < p.kids[k][q]
    OBVIOUS
  <2>1. /\ k \in Nat /\ DOMAIN p.kids[k] = 1 .. Len(p.kids[k]) /\ Len(p.kids[k]) \in Nat
        /\ p.kids[k][q] \in k + 1 .. Len(p.kind) /\ Len(p.kind) \in Nat
    BY ProgramOperands
  <2> QED
    BY <2>1
<1>10. last < i
  <2>1. CASE fs = <<>>
    BY <2>1 DEF Following
  <2>2. CASE fs # <<>>
    <3>1. Position(p, fs[n]) <= Position(p, fs[n])
      BY <1>8, <1>9, <2>2
    <3>2. Left(p, fs, n, Position(p, fs[n]))
      BY <1>8, <2>2, <3>1 DEF Left, n
    <3> QED
      BY <1>8, <2>2, <3>2 DEF Ahead
  <2> QED
    BY <2>1, <2>2
<1>11. \A k \in DOMAIN fs : fs[k].node < i
  BY <1>5, <1>6, <1>10 DEF Ahead
<1>12. \A k \in DOMAIN gs : gs[k].node <= i
  <2> SUFFICES ASSUME NEW k \in DOMAIN gs PROVE gs[k].node <= i
    OBVIOUS
  <2>1. CASE k \in DOMAIN fs
    BY <1>3, <1>5, <1>6, <1>11, <2>1
  <2>2. CASE k = n + 1
    BY <1>3, <1>5, <1>7, <2>2
  <2> QED
    BY <1>2, <1>4, <2>1, <2>2
<1>13. \A k, l \in DOMAIN gs : k < l => gs[k].node < gs[l].node
  <2> SUFFICES ASSUME NEW k \in DOMAIN gs, NEW l \in DOMAIN gs, k < l
               PROVE gs[k].node < gs[l].node
    OBVIOUS
  <2>1. k \in DOMAIN fs /\ gs[k] = fs[k] /\ (l \in DOMAIN fs \/ l = n + 1)
    BY <1>2, <1>3, <1>4
  <2>2. CASE l \in DOMAIN fs
    BY <1>3, <2>1, <2>2 DEF Ahead
  <2>3. CASE l = n + 1
    BY <1>3, <1>7, <1>11, <2>1, <2>3
  <2> QED
    BY <2>1, <2>2, <2>3
<1>14. ASSUME NEW k \in DOMAIN gs, NEW q, Left(p, gs, k, q)
       PROVE i < p.kids[gs[k].node][q]
  <2>1. CASE k = n + 1
    <3>1. q \in DOMAIN p.kids[i]
      BY <1>3, <1>7, <1>14, <2>1 DEF Left
    <3> QED
      BY <1>3, <1>5, <1>7, <1>9, <2>1, <3>1
  <2>2. CASE k \in DOMAIN fs
    <3>1. gs[k] = fs[k] /\ k # Len(gs) /\ k <= n /\ fs # <<>>
      BY <1>2, <1>3, <2>2
    <3> DEFINE j == fs[k].node
               s == Position(p, fs[k])
    <3>2. q \in DOMAIN p.kids[j] /\ s < q
      BY <1>14, <3>1 DEF Left
    <3>3. s \in DOMAIN p.kids[j]
      <4>1. CASE k = n
        BY <1>8, <3>1, <4>1
      <4>2. CASE k # n
        <5>1. Placed(p, fs[k]) /\ Awaits(p, fs[k])
          BY <1>1, <2>2, <4>2 DEF PathOf, n
        <5> QED
          BY <5>1, AwaitedOperand
      <4> QED
        BY <4>1, <4>2
    <3>4. /\ j \in DOMAIN p.kind /\ p.kids[j][s] < p.kids[j][q]
          /\ \A h \in p.kids[j][s] .. p.kids[j][q] - 1 : \A r \in DOMAIN p.kids[h] :
               p.kids[h][r] < p.kids[j][q]
      <4>1. j \in DOMAIN p.kind
        BY <1>6, <2>2
      <4> HIDE DEF j, s
      <4> QED
        BY <3>2, <3>3, <4>1, OperandOrder
    <3>5. i < p.kids[j][q]
      <4>1. CASE k = n
        BY <1>8, <3>1, <3>4, <4>1
      <4>2. CASE k # n
        <5>1. k + 1 \in DOMAIN fs /\ n \in DOMAIN fs /\ k + 1 <= n
          BY <1>2, <2>2, <4>2
        <5>2. fs[k + 1].node = p.kids[j][s]
          BY <2>2, <4>2 DEF PathOf, Awaited, n
        <5>3. fs[k + 1].node <= top
          <6>1. CASE k + 1 = n
            BY <1>6, <5>1, <6>1
          <6>2. CASE k + 1 # n
            <7>1. k + 1 < n
              BY <1>2, <5>1, <6>2
            <7> QED
              BY <1>6, <5>1, <7>1 DEF Ahead
          <6> QED
            BY <6>1, <6>2
        <5>4. top < p.kids[j][q]
          <6>1. Left(p, fs, k, q)
            BY <3>2, <4>2 DEF Left, n
          <6>2. last < p.kids[j][q] /\ top <= last
            BY <2>2, <5>1, <6>1 DEF Ahead
          <6> QED
            BY <1>6, <1>9, <3>2, <3>4, <5>1, <6>2
        <5>5. top \in p.kids[j][s] .. p.kids[j][q] - 1
          BY <1>6, <1>9, <3>2, <3>3, <3>4, <5>1, <5>2, <5>3, <5>4
        <5> QED
          BY <1>8, <3>1, <3>4, <5>5
      <4> QED
        BY <4>1, <4>2
    <3> QED
      BY <3>1, <3>5
  <2> QED
    BY <1>2, <1>4, <2>1, <2>2
<1>15. Ahead(p, gs, i)
  BY <1>12, <1>13, <1>14 DEF Ahead
<1> QED
  BY <1>5, <1>10, <1>15 DEF gs, new

(* Binding the arguments leaves every call at its position ...             *)
LEMMA PositionsBind ==
  ASSUME NEW p, IsProgram(p), NEW fs, PathOf(p, fs), fs # <<>>, NEW gs, Binds(fs, gs),
         ~fs[Len(fs)].bound, Len(fs[Len(fs)].vals) = Len(p.kids[fs[Len(fs)].node]) - 1
  PROVE /\ DOMAIN gs = DOMAIN fs /\ Len(gs) = Len(fs)
        /\ \A k \in DOMAIN gs : gs[k].node = fs[k].node /\ Position(p, gs[k]) = Position(p, fs[k])
<1> DEFINE n == Len(fs)
           f == fs[n]
           g == gs[n]
<1>1. Listed(fs) /\ \A k \in DOMAIN fs : Placed(p, fs[k])
  BY DEF PathOf
<1>2. n \in Nat /\ DOMAIN fs = 1 .. n /\ n > 0
  BY <1>1, ListedProperties
<1>3. /\ Listed(gs) /\ Len(gs) = n
      /\ \A k \in 1 .. n - 1 : gs[k] = fs[k]
      /\ g = [node |-> f.node, vals |-> <<>>, bound |-> TRUE]
  BY DEF Binds
<1>4. DOMAIN gs = 1 .. n
  BY <1>3, ListedProperties
<1>5. Position(p, g) = Position(p, f) /\ g.node = f.node
  <2> DEFINE a == Len(p.kids[f.node])
  <2>1. g.node = f.node /\ g.vals = <<>> /\ g.bound = TRUE
    BY <1>3
  <2>2. a \in Nat
    <3>1. f.node \in DOMAIN p.kind
      BY <1>1, <1>2 DEF Placed
    <3> HIDE DEF f
    <3> QED
      BY <3>1, ProgramOperands
  <2>3. Len(g.vals) = 0
    BY <2>1
  <2>4. ~f.bound /\ Len(f.vals) = a - 1
    OBVIOUS
  <2> HIDE DEF f, g
  <2>5. Position(p, g) = a + 0 /\ Position(p, f) = 1 + (a - 1)
    BY <2>1, <2>3, <2>4, Zenon DEF Position
  <2> HIDE DEF a
  <2> QED
    BY <2>1, <2>2, <2>5
<1> HIDE DEF n
<1>6. \A k \in DOMAIN gs : gs[k].node = fs[k].node /\ Position(p, gs[k]) = Position(p, fs[k])
  <2> SUFFICES ASSUME NEW k \in DOMAIN gs
               PROVE gs[k].node = fs[k].node /\ Position(p, gs[k]) = Position(p, fs[k])
    OBVIOUS
  <2>1. CASE k = n
    BY <1>5, <2>1
  <2>2. CASE k # n
    <3>1. gs[k] = fs[k]
      BY <1>2, <1>3, <1>4, <2>2
    <3> QED
      BY <3>1
  <2> QED
    BY <2>1, <2>2
<1>7. DOMAIN gs = DOMAIN fs /\ Len(gs) = Len(fs)
  BY <1>2, <1>3, <1>4 DEF n
<1> QED
  BY <1>6, <1>7

(* ... and an awaited operand moves its call on by one.                    *)
LEMMA PositionsAnswer ==
  ASSUME NEW p, IsProgram(p), NEW fs, PathOf(p, fs), fs # <<>>,
         NEW gs, NEW v, Answers(fs, gs, v)
  PROVE /\ DOMAIN gs = 1 .. Len(fs) - 1 /\ Len(gs) = Len(fs) - 1
        /\ \A k \in DOMAIN gs :
             /\ k \in DOMAIN fs /\ k # Len(fs) /\ gs[k].node = fs[k].node
             /\ Position(p, fs[k]) \in Nat
             /\ k # Len(fs) - 1 => gs[k] = fs[k]
             /\ k = Len(fs) - 1 => Position(p, gs[k]) = Position(p, fs[k]) + 1
<1> DEFINE n == Len(fs)
           m == n - 1
<1>1. Listed(fs) /\ \A k \in DOMAIN fs : Placed(p, fs[k])
  BY DEF PathOf
<1>2. n \in Nat /\ DOMAIN fs = 1 .. n /\ n > 0
  BY <1>1, ListedProperties
<1>3. n - 2 = m - 1 /\ m \in Nat /\ n = m + 1 /\ (n > 1 <=> m > 0)
  BY <1>2
<1>4. /\ Listed(gs) /\ Len(gs) = m
      /\ \A k \in 1 .. m - 1 : gs[k] = fs[k]
      /\ m > 0 => gs[m] = [node |-> fs[m].node, vals |-> Append(fs[m].vals, v),
                           bound |-> fs[m].bound]
  BY <1>3 DEF Answers
<1> HIDE DEF n, m
<1>5. DOMAIN gs = 1 .. m
  BY <1>4, ListedProperties
<1>6. \A k \in DOMAIN gs :
        /\ k \in DOMAIN fs /\ k # n /\ gs[k].node = fs[k].node
        /\ Position(p, fs[k]) \in Nat
        /\ k # m => gs[k] = fs[k]
        /\ k = m => Position(p, gs[k]) = Position(p, fs[k]) + 1
  <2> SUFFICES ASSUME NEW k \in DOMAIN gs
               PROVE /\ k \in DOMAIN fs /\ k # n /\ gs[k].node = fs[k].node
                     /\ Position(p, fs[k]) \in Nat
                     /\ k # m => gs[k] = fs[k]
                     /\ k = m => Position(p, gs[k]) = Position(p, fs[k]) + 1
    OBVIOUS
  <2>1. k \in DOMAIN fs /\ k # n /\ (k # m => gs[k] = fs[k]) /\ (k = m => m > 0)
    BY <1>2, <1>3, <1>4, <1>5
  <2> DEFINE f == fs[k]
             g == gs[k]
             a == Len(p.kids[f.node])
             l == Len(f.vals)
  <2>2. f.node \in DOMAIN p.kind /\ Listed(f.vals) /\ f.bound \in BOOLEAN
    BY <1>1, <2>1 DEF Placed
  <2>3. a \in Nat /\ l \in Nat
    BY <2>2, ProgramOperands, ListedProperties
  <2>4. Position(p, f) = (IF f.bound THEN a ELSE 1) + l
    BY Zenon DEF Position
  <2>5. Position(p, f) \in Nat
    <3> HIDE DEF f, a, l
    <3> QED
      BY <2>2, <2>3, <2>4
  <2>6. k = m => g.node = f.node /\ g.vals = Append(f.vals, v) /\ g.bound = f.bound
    BY <1>4, <2>1
  <2>7. k = m => Position(p, g) = Position(p, f) + 1
    <3> SUFFICES ASSUME k = m PROVE Position(p, g) = Position(p, f) + 1
      OBVIOUS
    <3>1. g.node = f.node /\ g.vals = Append(f.vals, v) /\ g.bound = f.bound
      BY <2>6
    <3> HIDE DEF f, g
    <3>2. Len(g.vals) = l + 1
      BY <2>2, <3>1, AppendListed
    <3>3. Position(p, g) = (IF f.bound THEN a ELSE 1) + (l + 1)
      BY <3>1, <3>2, Zenon DEF Position
    <3> HIDE DEF a, l
    <3> QED
      BY <2>2, <2>3, <2>4, <3>3
  <2>8. g.node = f.node
    <3>1. CASE k = m
      BY <2>6, <3>1
    <3>2. CASE k # m
      BY <2>1, <3>2
    <3> QED
      BY <3>1, <3>2
  <2> QED
    BY <2>1, <2>5, <2>7, <2>8
<1> QED
  BY <1>4, <1>5, <1>6 DEF n, m

(* What is left does not change when arguments are bound ...               *)
LEMMA AheadBind ==
  ASSUME NEW p, IsProgram(p), NEW fs, PathOf(p, fs), fs # <<>>, NEW gs, Binds(fs, gs),
         ~fs[Len(fs)].bound, Len(fs[Len(fs)].vals) = Len(p.kids[fs[Len(fs)].node]) - 1,
         NEW last, Ahead(p, fs, last)
  PROVE Ahead(p, gs, last)
<1>1. /\ DOMAIN gs = DOMAIN fs /\ Len(gs) = Len(fs)
      /\ \A k \in DOMAIN gs : gs[k].node = fs[k].node /\ Position(p, gs[k]) = Position(p, fs[k])
  BY PositionsBind
<1>2. ASSUME NEW k \in DOMAIN gs, NEW q, Left(p, gs, k, q)
      PROVE last < p.kids[gs[k].node][q]
  <2>1. Left(p, fs, k, q)
    BY <1>1, <1>2 DEF Left
  <2> QED
    BY <1>1, <2>1 DEF Ahead
<1> QED
  BY <1>1, <1>2 DEF Ahead

(* ... nor when an awaited operand is there.                               *)
LEMMA AheadAnswer ==
  ASSUME NEW p, IsProgram(p), NEW fs, PathOf(p, fs), fs # <<>>,
         NEW gs, NEW v, Answers(fs, gs, v), NEW last, Ahead(p, fs, last)
  PROVE Ahead(p, gs, last)
<1>1. /\ DOMAIN gs = 1 .. Len(fs) - 1 /\ Len(gs) = Len(fs) - 1
      /\ \A k \in DOMAIN gs :
           /\ k \in DOMAIN fs /\ k # Len(fs) /\ gs[k].node = fs[k].node
           /\ Position(p, fs[k]) \in Nat
           /\ k # Len(fs) - 1 => gs[k] = fs[k]
           /\ k = Len(fs) - 1 => Position(p, gs[k]) = Position(p, fs[k]) + 1
  BY PositionsAnswer
<1>2. ASSUME NEW k \in DOMAIN gs, NEW q, Left(p, gs, k, q)
      PROVE last < p.kids[gs[k].node][q]
  <2>1. gs[k].node = fs[k].node /\ k \in DOMAIN fs /\ k # Len(fs) /\ Position(p, fs[k]) \in Nat
    BY <1>1
  <2>2. q \in DOMAIN p.kids[fs[k].node] /\ q \in Nat
    <3>1. fs[k].node \in DOMAIN p.kind
      BY <2>1 DEF PathOf, Placed
    <3>2. q \in DOMAIN p.kids[fs[k].node]
      BY <1>2, <2>1 DEF Left
    <3>3. DOMAIN p.kids[fs[k].node] = 1 .. Len(p.kids[fs[k].node])
      BY <3>1, ProgramOperands
    <3> QED
      BY <3>2, <3>3
  <2>3. Position(p, fs[k]) < q
    <3>1. CASE k = Len(fs) - 1
      <4>1. Position(p, gs[k]) <= q /\ Position(p, gs[k]) = Position(p, fs[k]) + 1
        BY <1>1, <1>2, <3>1 DEF Left
      <4> QED
        BY <2>1, <2>2, <4>1
    <3>2. CASE k # Len(fs) - 1
      BY <1>1, <1>2, <3>2 DEF Left
    <3> QED
      BY <3>1, <3>2
  <2>4. Left(p, fs, k, q)
    BY <2>1, <2>2, <2>3 DEF Left
  <2> QED
    BY <2>1, <2>4 DEF Ahead
<1> QED
  BY <1>1, <1>2 DEF Ahead

-----------------------------------------------------------------------------
\* Depths: an operand lies deeper than its node, and none below max.

(* No more calls are under way than the program is deep.                   *)
LEMMA PathDepth ==
  ASSUME NEW p, IsProgram(p), NEW fs, PathOf(p, fs), NEW d, NEW max \in Int, max >= -1,
         Depths(p, d, max)
  PROVE Len(fs) <= max + 1
<1> DEFINE n == Len(fs)
           S == {0} \cup {k \in 1 .. n : k - 1 <= d[fs[k].node]}
<1>1. Listed(fs) /\ \A k \in DOMAIN fs : Placed(p, fs[k])
  BY DEF PathOf
<1>2. n \in Nat /\ DOMAIN fs = 1 .. n /\ (n > 0 => fs # <<>>)
  BY <1>1, ListedProperties
<1> HIDE DEF n
<1>3. \A k \in 1 .. n : fs[k].node \in DOMAIN p.kind /\ d[fs[k].node] \in Nat
                        /\ d[fs[k].node] <= max
  BY <1>1, <1>2 DEF Placed, Depths
<1>4. ASSUME NEW k \in 1 .. n, k - 1 \in S PROVE k \in S
  <2>1. CASE k = 1
    <3>1. d[fs[k].node] \in Nat
      BY <1>3
    <3> QED
      BY <2>1, <3>1
  <2>2. CASE k # 1
    <3>1. k - 1 \in DOMAIN fs /\ k - 1 # n /\ (k - 1) + 1 = k /\ k - 1 \in 1 .. n
      BY <1>2, <2>2
    <3> DEFINE f == fs[k - 1]
    <3>2. Placed(p, f) /\ Awaits(p, f) /\ fs[k].node = Awaited(p, f)
      BY <1>1, <3>1 DEF PathOf, n
    <3>3. Position(p, f) \in DOMAIN p.kids[f.node] /\ f.node \in DOMAIN p.kind
      BY <3>2, AwaitedOperand DEF Placed
    <3>4. d[f.node] < d[fs[k].node]
      BY <3>2, <3>3 DEF Depths, Awaited
    <3>5. d[f.node] \in Nat /\ d[fs[k].node] \in Nat /\ (k - 1) - 1 <= d[f.node]
      BY <1>2, <1>3, <1>4, <2>2, <3>1
    <3> HIDE DEF f
    <3>6. k - 1 <= d[fs[k].node]
      BY <1>2, <3>4, <3>5
    <3> QED
      BY <3>6
  <2> QED
    BY <2>1, <2>2
<1>5. n \in S
  <2> DEFINE T == S
  <2> HIDE DEF T
  <2>1. 0 \in T /\ \A k \in 1 .. n : k - 1 \in T => k \in T
    BY <1>4 DEF T
  <2>2. \A k \in 0 .. n : k \in T
    BY <1>2, <2>1, UpTo
  <2> QED
    BY <1>2, <2>2 DEF T
<1>6. CASE n = 0
  BY <1>6 DEF n
<1>7. CASE n # 0
  <2>1. n - 1 <= d[fs[n].node]
    BY <1>2, <1>5, <1>7
  <2>2. d[fs[n].node] \in Nat /\ d[fs[n].node] <= max
    BY <1>2, <1>3, <1>7
  <2>3. n <= max + 1
    BY <1>2, <2>1, <2>2
  <2> QED
    BY <2>3 DEF n
<1> QED
  BY <1>6, <1>7

(* A tree whose nodes come after their parents has depths.                 *)
LEMMA DepthsExist ==
  ASSUME NEW n \in Nat, NEW e \in [1 .. n -> Nat], NEW up, \A i \in 2 .. n : up[i] \in 1 .. i - 1
  PROVE \E f : AddsUp(f, n, e, up)
<1> DEFINE Solved(m) == \E f : AddsUp(f, m, e, up)
           S == {m \in 0 .. n : Solved(m)}
<1>1. 0 \in S
  <2> DEFINE g == [i \in 1 .. 0 |-> 0]
  <2>1. g \in [1 .. 0 -> Nat]
    OBVIOUS
  <2> HIDE DEF g
  <2>2. AddsUp(g, 0, e, up)
    BY <2>1 DEF AddsUp
  <2>3. Solved(0)
    BY <2>2
  <2> HIDE DEF Solved
  <2> QED
    BY <2>3
<1>2. ASSUME NEW m \in 1 .. n, m - 1 \in S PROVE m \in S
  <2>1. PICK f : AddsUp(f, m - 1, e, up)
    BY <1>2
  <2>9. /\ f \in [1 .. m - 1 -> Nat]
        /\ \A i \in 1 .. m - 1 : f[i] = e[i] + (IF i = 1 THEN 0 ELSE f[up[i]] + 1)
    BY <2>1 DEF AddsUp
  <2> DEFINE x == e[m] + (IF m = 1 THEN 0 ELSE f[up[m]] + 1)
             g == [i \in 1 .. m |-> IF i = m THEN x ELSE f[i]]
  <2>2. x \in Nat
    <3>1. e[m] \in Nat
      OBVIOUS
    <3>2. CASE m = 1
      BY <3>1, <3>2
    <3>3. CASE m # 1
      <4>1. m \in 2 .. n
        BY <3>3
      <4>2. up[m] \in 1 .. m - 1
        BY <4>1
      <4> DEFINE a == f[up[m]]
                 b == e[m]
      <4>3. a \in Nat
        BY <2>9, <4>2
      <4>4. x = b + (a + 1)
        BY <3>3
      <4> HIDE DEF a, x
      <4> QED
        BY <3>1, <4>3, <4>4
    <3> QED
      BY <3>2, <3>3
  <2> HIDE DEF x
  <2>3. g \in [1 .. m -> Nat] /\ g[m] = x /\ \A i \in 1 .. m - 1 : g[i] = f[i]
    BY <2>9, <2>2
  <2> HIDE DEF g
  <2>4. AddsUp(g, m, e, up)
    <3> SUFFICES ASSUME NEW i \in 1 .. m
                 PROVE g[i] = e[i] + (IF i = 1 THEN 0 ELSE g[up[i]] + 1)
      BY <2>3 DEF AddsUp
    <3>1. i # 1 => up[i] \in 1 .. m - 1 /\ g[up[i]] = f[up[i]]
      <4> SUFFICES ASSUME i # 1 PROVE up[i] \in 1 .. m - 1 /\ g[up[i]] = f[up[i]]
        OBVIOUS
      <4>1. i \in 2 .. n
        OBVIOUS
      <4>2. up[i] \in 1 .. i - 1
        BY <4>1
      <4>3. up[i] \in 1 .. m - 1
        BY <4>2
      <4> QED
        BY <2>3, <4>3
    <3>2. CASE i = m
      BY <2>3, <3>1, <3>2 DEF x
    <3>3. CASE i # m
      <4>1. i \in 1 .. m - 1
        BY <3>3
      <4> QED
        BY <2>9, <2>3, <3>1, <4>1
    <3> QED
      BY <3>2, <3>3
  <2>5. Solved(m)
    BY <2>4
  <2> HIDE DEF Solved
  <2> QED
    BY <2>5
<1> HIDE DEF S
<1>3. \A m \in 0 .. n : m \in S
  BY <1>1, <1>2, UpTo
<1>4. n \in S
  BY <1>3
<1> QED
  BY <1>4 DEF S

(* The parent of an operand is its node, which comes before it.            *)
LEMMA ParentOfOperand ==
  ASSUME IsProgram(program), NEW i \in Nodes, NEW k \in DOMAIN program.kids[i]
  PROVE LET j == program.kids[i][k]
        IN  j \in Nodes \ {1} /\ Parent(j) = i
<1> DEFINE j == program.kids[i][k]
           n == Len(program.kind)
<1>1. Nodes = 1 .. n /\ n \in Nat /\ i \in Nat /\ j \in i + 1 .. n
  BY ProgramOperands DEF Nodes
<1>2. j \in Nodes \ {1}
  BY <1>1
<1>3. j \in ToSet(program.kids[i])
  BY DEF ToSet
<1>4. \A h \in Nodes : j \in ToSet(program.kids[h]) => h = i
  <2>1. PICK g \in Nodes : \A h \in Nodes : j \in ToSet(program.kids[h]) => h = g
    BY <1>2, Zenon DEF IsProgram, Nodes
  <2> QED
    BY <1>3, <2>1
<1> HIDE DEF j
<1>5. Parent(j) = i
  BY <1>3, <1>4 DEF Parent
<1> QED
  BY <1>2, <1>5 DEF j

(* A node comes after the node it is an operand of.                        *)
LEMMA ParentBefore ==
  ASSUME IsProgram(program), NEW j \in Nodes \ {1}
  PROVE Parent(j) \in 1 .. j - 1
<1>1. PICK i \in Nodes : j \in ToSet(program.kids[i])
  BY Zenon DEF IsProgram, Nodes
<1>2. PICK k \in DOMAIN program.kids[i] : j = program.kids[i][k]
  BY <1>1 DEF ToSet
<1>3. Parent(j) = i
  BY <1>2, ParentOfOperand
<1>4. i \in Nat /\ i >= 1 /\ j \in i + 1 .. Len(program.kind) /\ Len(program.kind) \in Nat
  BY <1>2, ProgramOperands DEF Nodes
<1> QED
  BY <1>3, <1>4

(* The depths of the analysis are depths.                                  *)
LEMMA DepthIs ==
  ASSUME IsProgram(program)
  PROVE \A i \in Nodes : /\ Depth[i] \in Nat
                         /\ \A k \in DOMAIN program.kids[i] :
                              Depth[i] < Depth[program.kids[i][k]]
<1> DEFINE n == Len(program.kind)
           Solves(g) ==
             g = [i \in Nodes |->
                    program.expanded[i] + (IF i = 1 THEN 0 ELSE g[Parent(i)] + 1)]
           d == CHOOSE g : Solves(g)
<1>1. Nodes = 1 .. n /\ n \in Nat
  BY ProgramOperands DEF Nodes
<1>2. program.expanded \in [Nodes -> Nat]
  BY Zenon DEF IsProgram, Nodes
<1>3. \E g : Solves(g)
  <2> DEFINE up == [i \in 2 .. n |-> Parent(i)]
             e == program.expanded
  <2>1. \A i \in 2 .. n : up[i] = Parent(i) /\ up[i] \in 1 .. i - 1
    <3> SUFFICES ASSUME NEW i \in 2 .. n PROVE Parent(i) \in 1 .. i - 1
      OBVIOUS
    <3>1. i \in Nodes \ {1}
      BY <1>1
    <3> QED
      BY <3>1, ParentBefore
  <2>2. e \in [1 .. n -> Nat]
    BY <1>1, <1>2
  <2> HIDE DEF up, e, n
  <2>3. PICK f : AddsUp(f, n, e, up)
    BY <1>1, <2>1, <2>2, DepthsExist
  <2>4. /\ f \in [1 .. n -> Nat]
        /\ \A i \in 1 .. n : f[i] = e[i] + (IF i = 1 THEN 0 ELSE f[up[i]] + 1)
    BY <2>3 DEF AddsUp
  <2>5. \A i \in Nodes : f[i] = e[i] + (IF i = 1 THEN 0 ELSE f[Parent(i)] + 1)
    <3> SUFFICES ASSUME NEW i \in Nodes
                 PROVE f[i] = e[i] + (IF i = 1 THEN 0 ELSE f[Parent(i)] + 1)
      OBVIOUS
    <3>1. i # 1 => i \in 2 .. n
      BY <1>1
    <3> QED
      BY <1>1, <2>1, <2>4, <3>1
  <2>6. Solves(f)
    BY <1>1, <2>4, <2>5 DEF e
  <2> HIDE DEF Solves
  <2> QED
    BY <2>6
<1>4. Solves(d)
  <2> HIDE DEF Solves
  <2> QED
    BY <1>3
<1>5. Depth = d
  BY DEF Depth
<1> HIDE DEF d
<1>6. \A i \in Nodes :
        d[i] = program.expanded[i] + (IF i = 1 THEN 0 ELSE d[Parent(i)] + 1)
  BY <1>4
<1> HIDE DEF Solves, n
<1> DEFINE S == {m \in 0 .. n : \A i \in 1 .. m : d[i] \in Nat}
<1>7. 0 \in S
  BY <1>1
<1>8. ASSUME NEW m \in 1 .. n, m - 1 \in S PROVE m \in S
  <2>1. m \in Nodes /\ program.expanded[m] \in Nat
    BY <1>1, <1>2
  <2>2. d[m] \in Nat
    <3>1. CASE m = 1
      BY <1>6, <2>1, <3>1
    <3>2. CASE m # 1
      <4>1. Parent(m) \in 1 .. m - 1
        BY <2>1, <3>2, ParentBefore
      <4>2. d[Parent(m)] \in Nat
        BY <1>8, <4>1
      <4>3. d[m] = program.expanded[m] + (d[Parent(m)] + 1)
        BY <1>6, <2>1, <3>2
      <4> QED
        BY <2>1, <4>2, <4>3
    <3> QED
      BY <3>1, <3>2
  <2>3. \A i \in 1 .. m : i = m \/ i \in 1 .. m - 1
    BY <1>1
  <2> QED
    BY <1>1, <1>8, <2>2, <2>3
<1>9. \A i \in Nodes : d[i] \in Nat
  <2> HIDE DEF S
  <2>1. \A m \in 0 .. n : m \in S
    BY <1>1, <1>7, <1>8, UpTo
  <2>2. n \in S
    BY <1>1, <2>1
  <2> QED
    BY <1>1, <2>2 DEF S
<1>10. ASSUME NEW i \in Nodes, NEW k \in DOMAIN program.kids[i]
       PROVE d[i] < d[program.kids[i][k]]
  <2> DEFINE j == program.kids[i][k]
  <2>1. j \in Nodes \ {1} /\ Parent(j) = i
    BY ParentOfOperand
  <2> HIDE DEF j
  <2>2. d[j] = program.expanded[j] + (d[i] + 1) /\ program.expanded[j] \in Nat
    BY <1>2, <1>6, <2>1
  <2>3. d[i] < d[j]
    BY <1>9, <2>1, <2>2
  <2> QED
    BY <2>3 DEF j
<1> QED
  BY <1>5, <1>9, <1>10

-----------------------------------------------------------------------------
\* What the analysis announces.

(* The least of two numbers.                                               *)
LEMMA DepthLimitIs ==
  ASSUME PathInv
  PROVE DepthLimit \in Nat
<1> DEFINE a == profile.depth
           b == MaxSemanticDepth
           S == {a, b}
<1>1. a \in Nat /\ b \in Nat
  BY AnalysisAssumption DEF PathInv, profile, MaxSemanticDepth
<1>2. DepthLimit = CHOOSE x \in S : \A y \in S : x <= y
  BY DEF DepthLimit, Min
<1> HIDE DEF a, b
<1>3. \E x \in S : \A y \in S : x <= y
  BY <1>1
<1>4. DepthLimit \in S
  BY <1>2, <1>3
<1> QED
  BY <1>1, <1>4

(* An accepted program announces what it takes.                            *)
LEMMA AcceptedAnnounces ==
  ASSUME PathInv, Accepted
  PROVE \E c, e : Announces(VerifiedProgram, c, e)
<1> DEFINE V == VerifiedProgram
           n == Len(program.kind)
           c == [i \in Nodes |-> Cost(i) + program.expanded[i]]
           e == [i \in Nodes |-> 1 + program.expanded[i]]
<1>1. IsProgram(program)
  BY ProgramAssumption, Zenon DEF PathInv, program
<1>2. Nodes = 1 .. n /\ n \in Nat /\ \A i \in Nodes : program.expanded[i] \in Nat
  <2>1. program.expanded \in [Nodes -> Nat]
    BY <1>1, Zenon DEF IsProgram, Nodes
  <2> QED
    BY <1>1, <2>1, ProgramOperands DEF Nodes
<1>3. /\ V.tickets = Resolved
      /\ V.required = [t \in {Ticket(i) : i \in Resolved} |->
                         MetaOf(CHOOSE i \in Resolved : Ticket(i) = t)]
      /\ V.nodes = LoweredNodes /\ V.cost = StaticCost
  BY DEF VerifiedProgram
<1>4. \A i : MetaOf(i).cost \in Nat
  <2>1. DefaultMeta.cost \in Nat
    BY DEF DefaultMeta
  <2>2. \A t \in DOMAIN schema.capabilities : schema.capabilities[t].cost \in Nat
    BY AnalysisAssumption, Zenon DEF PathInv, schema
  <2> QED
    BY <2>1, <2>2, Zenon DEF MetaOf, Known
<1>5. \A i : Cost(i) \in Nat
  BY <1>4 DEF Cost
<1>6. \A i : CostIn(V, i) = Cost(i)
  <2> SUFFICES ASSUME NEW i, i \in Resolved PROVE V.required[Ticket(i)] = MetaOf(i)
    BY <1>3, Zenon DEF CostIn, Cost
  <2> DEFINE t == Ticket(i)
             j == CHOOSE k \in Resolved : Ticket(k) = t
  <2>1. j \in Resolved /\ Ticket(j) = t
    OBVIOUS
  <2>2. V.required[t] = MetaOf(j)
    BY <1>3
  <2> HIDE DEF j
  <2>3. MetaOf(j) = MetaOf(i)
    BY <2>1 DEF MetaOf, Known
  <2> QED
    BY <2>2, <2>3
<1>7. /\ c \in [1 .. n -> Nat] /\ \A i \in Nodes : c[i] = Cost(i) + program.expanded[i]
      /\ e \in [1 .. n -> Nat] /\ \A i \in Nodes : e[i] = 1 + program.expanded[i]
  BY <1>2, <1>5
<1>8. StaticCost = SumOf(c) /\ LoweredNodes = SumOf(e)
  BY DEF StaticCost, LoweredNodes
<1> HIDE DEF c, e, V
<1>9. c \in Seq(Nat) /\ Len(c) = n /\ e \in Seq(Nat) /\ Len(e) = n
  <2> HIDE DEF n
  <2>1. \A s \in [1 .. n -> Nat] : s \in Seq(Nat) /\ Len(s) = n
    BY <1>2
  <2> QED
    BY <1>7, <2>1
<1>10. \A i \in Nodes : CostIn(V, i) \in Nat /\ CostIn(V, i) <= c[i] /\ 1 <= e[i]
  BY <1>2, <1>5, <1>6, <1>7
<1>11. /\ {profile.nodes, profile.cost} \subseteq Nat
       /\ SumOf(c) \in Nat /\ SumOf(e) \in Nat
  <2>1. {profile.nodes, profile.cost} \subseteq Nat
    BY AnalysisAssumption DEF PathInv, profile
  <2>2. \A s \in Seq(Nat) : SumOf(s) \in Nat
    BY SumsExist, SumIs
  <2> QED
    BY <1>9, <2>1, <2>2
<1>12. ~BoundsProblem
  BY DEF Accepted
<1>13. V.nodes <= profile.nodes /\ V.cost <= profile.cost
  BY <1>3, <1>8, <1>11, <1>12 DEF BoundsProblem
<1>14. Depths(program, Depth, DepthLimit)
  <2>1. \A i \in Nodes : ~(Depth[i] > DepthLimit)
    BY <1>12, Zenon DEF BoundsProblem
  <2>2. DepthLimit \in Nat
    BY DepthLimitIs
  <2> DEFINE d == Depth
             max == DepthLimit
  <2>3. \A i \in Nodes : d[i] \in Nat /\ \A k \in DOMAIN program.kids[i] : d[i] < d[program.kids[i][k]]
    BY <1>1, DepthIs
  <2> HIDE DEF d, max
  <2>4. \A i \in Nodes : d[i] <= max
    BY <2>1, <2>2, <2>3 DEF d, max
  <2>5. Depths(program, d, max)
    BY <2>3, <2>4 DEF Depths, Nodes
  <2> QED
    BY <2>5 DEF d, max
<1>15. Announces(V, c, e)
  BY <1>3, <1>8, <1>9, <1>10, <1>13, <1>14, Zenon DEF Announces
<1> QED
  BY <1>15 DEF V

(* A node's dispatch costs what the analysis announced for it.             *)
LEMMA CostAnnounced ==
  ASSUME DispatchInv, Running, NEW i
  PROVE CostAtRuntime(i) = CostIn(verified, i)
<1>1. Verified /\ Sound(verified)
  BY DEF DispatchInv
<1>2. i \in verified.tickets => MetadataOf(Ticket(i)) = verified.required[Ticket(i)]
  BY <1>1 DEF Verified, Sound
<1> QED
  BY <1>2 DEF CostAtRuntime, CostIn

(* Nothing is walked yet.                                                  *)
LEMMA WalkedNot ==
  ASSUME NEW p, IsProgram(p), NEW fs, fs = <<>>, NEW st, NEW c \in Seq(Nat), NEW e \in Seq(Nat)
  PROVE WalkedTo(p, fs, st, 0, 0, c, e)
<1>1. \A s \in Seq(Nat) : Within(s, 0, 0)
  <2> SUFFICES ASSUME NEW s \in Seq(Nat), NEW f, Sums(f, s) PROVE 0 <= f[0]
    BY DEF Within
  <2>1. f[0] = 0
    BY DEF Sums, SumsUpTo
  <2> QED
    BY <2>1
<1>2. DOMAIN fs = {}
  OBVIOUS
<1>3. Ahead(p, fs, 0)
  BY <1>2 DEF Ahead
<1>4. 0 \in 0 .. Len(p.kind)
  BY ProgramOperands
<1> QED
  BY <1>1, <1>3, <1>4 DEF WalkedTo

(* A node more, whether it is entered or refused.                          *)
LEMMA WalkedEnter ==
  ASSUME NEW p, IsProgram(p), NEW fs, PathOf(p, fs), NEW i, Following(p, fs, i),
         NEW n, NEW spent, NEW c \in Seq(Nat), NEW e \in Seq(Nat),
         Len(c) = Len(p.kind), Len(e) = Len(p.kind),
         WalkedTo(p, fs, "running", n, spent, c, e),
         1 <= e[i], NEW y \in Nat, y <= c[i]
  PROVE /\ WalkedTo(p, Append(fs, [node |-> i, vals |-> <<>>, bound |-> FALSE]), "running",
                    n + 1, spent + y, c, e)
        /\ WalkedTo(p, <<>>, "ended", n + 1, spent, c, e)
<1> DEFINE gs == Append(fs, [node |-> i, vals |-> <<>>, bound |-> FALSE])
<1>1. PICK last \in 0 .. Len(p.kind) :
        /\ Within(e, n, last) /\ Within(c, spent, last)
        /\ Ahead(p, fs, last)
        /\ "running" # "ended" /\ fs = <<>> => last = 0
  BY DEF WalkedTo
<1>2. last \in Nat /\ (fs = <<>> => last = 0)
  BY <1>1, ProgramOperands
<1>3. last < i /\ i \in DOMAIN p.kind /\ Ahead(p, gs, i)
  <2> HIDE DEF gs
  <2> QED
    BY <1>1, <1>2, AheadPush DEF gs
<1>4. Len(p.kind) \in Nat /\ i \in 1 .. Len(p.kind)
  BY <1>3, ProgramOperands
<1>5. gs # <<>>
  <2>1. Listed(fs)
    BY DEF PathOf
  <2>2. Len(gs) = Len(fs) + 1 /\ Len(fs) \in Nat /\ Listed(gs)
    BY <2>1, AppendListed, ListedProperties
  <2> HIDE DEF gs
  <2> QED
    BY <2>2, ListedProperties
<1> HIDE DEF gs
<1>6. Within(e, n + 1, i) /\ Within(c, spent + y, i) /\ Within(c, spent + 0, i)
  <2>1. last \in 0 .. Len(e) /\ i \in 1 .. Len(e) /\ last \in 0 .. Len(c) /\ i \in 1 .. Len(c)
    BY <1>4
  <2>2. Within(e, n + 1, i)
    BY <1>1, <1>3, <2>1, WithinNext
  <2>3. Within(c, spent + y, i)
    BY <1>1, <1>3, <2>1, WithinNext
  <2>4. 0 \in Nat /\ 0 <= c[i]
    <3>1. c[i] \in Nat
      BY <2>1
    <3> QED
      BY <3>1
  <2>5. Within(c, spent + 0, i)
    BY <1>1, <1>3, <2>1, <2>4, WithinNext
  <2> QED
    BY <2>2, <2>3, <2>5
<1>7. Within(c, spent, i)
  <2>1. spent + 0 = spent
    BY <1>1 DEF Within
  <2> QED
    BY <1>6, <2>1
<1>8. i \in 0 .. Len(p.kind)
  BY <1>4
<1>9. WalkedTo(p, gs, "running", n + 1, spent + y, c, e)
  BY <1>3, <1>5, <1>6, <1>8 DEF WalkedTo
<1>10. WalkedTo(p, <<>>, "ended", n + 1, spent, c, e)
  <2> DEFINE es == <<>>
  <2>1. DOMAIN es = {}
    OBVIOUS
  <2> HIDE DEF es
  <2>2. Ahead(p, es, i)
    BY <2>1 DEF Ahead
  <2> QED
    BY <1>6, <1>7, <1>8, <2>2 DEF WalkedTo, es
<1> QED
  BY <1>9, <1>10 DEF gs

(* No node more.                                                           *)
LEMMA WalkedSame ==
  ASSUME NEW p, NEW fs, fs # <<>>, NEW gs, NEW st, NEW n, NEW spent, NEW c, NEW e,
         WalkedTo(p, fs, st, n, spent, c, e), NEW tt,
         \A last : Ahead(p, fs, last) => Ahead(p, gs, last),
         tt = "ended" \/ gs # <<>>
  PROVE WalkedTo(p, gs, tt, n, spent, c, e)
BY DEF WalkedTo

(* Steps of a program that has been verified.                              *)
LEMMA StaticKept ==
  ASSUME DispatchInv', PathInv', UNCHANGED <<request, verified>>,
         Early' => steps' = 0 /\ history'.spent = 0,
         NEW c, NEW e, Announces(verified, c, e),
         WalkedTo(program, frames', stage', steps', history'.spent, c, e)
  PROVE StaticInv'
<1>1. Announces(verified, c, e)'
  BY DEF Announces, CostIn, Ticket, Receivers, Nodes, DepthLimit, program, profile
<1>2. Walked(c, e)'
  BY DEF Walked, program
<1> QED
  BY <1>1, <1>2, Zenon DEF StaticInv

(* Without calls, no node is ahead.                                        *)
LEMMA AheadNone == \A p, last : Ahead(p, <<>>, last)
<1> DEFINE es == <<>>
<1>1. DOMAIN es = {}
  OBVIOUS
<1> HIDE DEF es
<1>2. \A p, last : Ahead(p, es, last)
  BY <1>1 DEF Ahead
<1> QED
  BY <1>2 DEF es

(* A step stays within what the analysis announced.                        *)
LEMMA StaticStep ==
  ASSUME StaticInv, [Next]_vars
  PROVE StaticInv'
<1> DEFINE p == program
           fs == frames
           gs == frames'
<1>1. DispatchInv' /\ PathInv'
  BY DispatchStep, PathStep DEF StaticInv
<1>2. /\ IsProgram(p) /\ PathOf(p, fs) /\ AllCalled(fs) /\ History(history)
      /\ Early => fs = <<>>
  BY ProgramAssumption, Zenon DEF StaticInv, PathInv, DispatchInv, CallsInv, FramesInv, EarlyInv,
     program, Early
<1>3. CASE Prepare \/ Verify \/ UNCHANGED vars
  <2>1. /\ UNCHANGED <<request, verified, steps, history, frames>>
        /\ stage' \in {"analyzing", "running", "ended"} \/ UNCHANGED stage
        /\ stage = "ended" => UNCHANGED stage
        /\ stage' = "running" => stage \in {"verifying", "running"}
        /\ stage' # "verifying" \/ UNCHANGED stage
        /\ Early' => Early
    BY <1>3 DEF Prepare, Verify, vars, inputs, idle, End, Early
  <2>2. Early' => steps' = 0 /\ history'.spent = 0
    BY <2>1 DEF StaticInv
  <2>3. CASE verified = NoProgram /\ stage \notin {"verifying", "running"}
    <3>1. verified' = NoProgram /\ stage' \notin {"verifying", "running"}
      BY <2>1, <2>3
    <3> QED
      BY <1>1, <2>2, <3>1, Zenon DEF StaticInv
  <2>4. ASSUME NEW c, NEW e, Announces(verified, c, e), Walked(c, e) PROVE StaticInv'
    <3>1. WalkedTo(p, gs, stage', steps', history'.spent, c, e)
      <4>1. WalkedTo(p, fs, stage, steps, history.spent, c, e)
        BY <2>4 DEF Walked
      <4>2. WalkedTo(p, fs, stage', steps, history.spent, c, e)
        BY <2>1, <4>1 DEF WalkedTo
      <4> QED
        BY <2>1, <4>2
    <3> QED
      BY <1>1, <2>1, <2>2, <2>4, <3>1, StaticKept
  <2> QED
    BY <2>3, <2>4 DEF StaticInv
<1>4. CASE Analyze
  <2>1. /\ stage = "analyzing" /\ UNCHANGED <<request, steps, history, frames>>
        /\ steps = 0 /\ history.spent = 0 /\ fs = <<>>
    BY <1>2, <1>4 DEF Analyze, idle, StaticInv, Early
  <2>2. CASE ~Accepted
    <3>1. stage' = "ended" /\ verified' = verified
      BY <1>4, <2>2 DEF Analyze, End
    <3>2. CASE verified = NoProgram
      BY <1>1, <2>1, <3>1, <3>2 DEF StaticInv
    <3>3. ASSUME NEW c, NEW e, Announces(verified, c, e), Walked(c, e) PROVE StaticInv'
      <4>1. WalkedTo(p, gs, stage', steps', history'.spent, c, e)
        <5>1. WalkedTo(p, fs, stage, steps, history.spent, c, e)
          BY <3>3 DEF Walked
        <5>2. WalkedTo(p, fs, stage', steps, history.spent, c, e)
          BY <3>1, <5>1 DEF WalkedTo
        <5> QED
          BY <2>1, <5>2
      <4> QED
        BY <1>1, <2>1, <3>1, <3>3, <4>1, StaticKept DEF Early
    <3> QED
      BY <3>2, <3>3 DEF StaticInv
  <2>3. CASE Accepted
    <3>1. verified' = VerifiedProgram
      BY <1>4, <2>3 DEF Analyze
    <3>2. PICK c, e : Announces(VerifiedProgram, c, e)
      BY <2>3, AcceptedAnnounces DEF StaticInv
    <3>3. Announces(verified, c, e)'
      BY <2>1, <3>1, <3>2 DEF Announces, CostIn, Ticket, Receivers, Nodes, DepthLimit, program,
         profile
    <3>4. c \in Seq(Nat) /\ e \in Seq(Nat)
      BY <3>2 DEF Announces
    <3>5. WalkedTo(p, fs, stage', 0, 0, c, e)
      BY <1>2, <2>1, <3>4, WalkedNot
    <3>6. Walked(c, e)'
      BY <2>1, <3>5 DEF Walked, program
    <3> QED
      BY <1>1, <2>1, <3>3, <3>6, Zenon DEF StaticInv
  <2> QED
    BY <2>2, <2>3
<1>5. ASSUME Running PROVE \E c, e : Announces(verified, c, e) /\ Walked(c, e)
  BY <1>5 DEF StaticInv, Running
<1>6. CASE EnterRoot \/ EnterOperand
  <2>1. PICK i : Running /\ Enter(i) /\ Following(p, fs, i)
    BY <1>6, EnterFollows DEF StaticInv
  <2>2. PICK c, e : Announces(verified, c, e) /\ Walked(c, e)
    BY <1>5, <2>1
  <2>3. UNCHANGED <<request, verified>> /\ steps' = steps + 1 /\ stage' \in {"running", "ended"}
    BY <2>1 DEF Enter, Stop, End, inputs, Running
  <2> DEFINE y == CostAtRuntime(i)
             n == steps
             spent == history.spent
             new == [node |-> i, vals |-> <<>>, bound |-> FALSE]
  <2>4. y \in Nat /\ y <= c[i] /\ 1 <= e[i] /\ c \in Seq(Nat) /\ e \in Seq(Nat)
        /\ Len(c) = Len(p.kind) /\ Len(e) = Len(p.kind)
    <3>1. i \in Nodes
      BY <1>2, <2>1, PathPush DEF Nodes
    <3>2. y = CostIn(verified, i)
      BY <2>1, CostAnnounced DEF StaticInv
    <3> QED
      BY <2>2, <3>1, <3>2 DEF Announces
  <2>5. WalkedTo(p, fs, "running", n, spent, c, e)
    BY <2>1, <2>2 DEF Walked, Running
  <2>6. /\ WalkedTo(p, Append(fs, new), "running", n + 1, spent + y, c, e)
        /\ WalkedTo(p, <<>>, "ended", n + 1, spent, c, e)
    <3> HIDE DEF p, fs, y, n, spent
    <3> QED
      BY <1>2, <2>1, <2>4, <2>5, WalkedEnter
  <2>7. CASE AllHold(EntryChecks(i))
    <3>1. gs = Append(fs, new) /\ stage' = stage /\ history' = [history EXCEPT !.spent = @ + y]
      BY <2>1, <2>7, Zenon DEF Enter
    <3>2. history'.spent = spent + y
      BY <1>2, <3>1 DEF History
    <3>3. WalkedTo(p, gs, stage', steps', history'.spent, c, e)
      BY <2>1, <2>3, <2>6, <3>1, <3>2, Zenon DEF Running
    <3> QED
      BY <1>1, <2>1, <2>2, <2>3, <3>1, <3>3, StaticKept DEF Early, Running
  <2>8. CASE ~AllHold(EntryChecks(i))
    <3>1. gs = <<>> /\ stage' = "ended" /\ history' = history
      BY <2>1, <2>8, Zenon DEF Enter, Stop, End
    <3>2. WalkedTo(p, gs, stage', steps', history'.spent, c, e)
      BY <2>3, <2>6, <3>1, Zenon
    <3> QED
      BY <1>1, <2>2, <2>3, <3>1, <3>2, StaticKept DEF Early
  <2> QED
    BY <2>7, <2>8
<1>7. ASSUME fs # <<>>, Running, UNCHANGED <<request, verified, steps>>,
             history'.spent = history.spent,
             \A last : Ahead(p, fs, last) => Ahead(p, gs, last),
             stage' = "ended" \/ (stage' = "running" /\ gs # <<>>)
      PROVE StaticInv'
  <2>1. PICK c, e : Announces(verified, c, e) /\ Walked(c, e)
    BY <1>5, <1>7
  <2>2. WalkedTo(p, fs, stage, steps, history.spent, c, e)
    BY <2>1 DEF Walked
  <2>3. WalkedTo(p, gs, stage', steps, history.spent, c, e)
    <3> HIDE DEF p, fs, gs
    <3> QED
      BY <1>7, <2>2, WalkedSame
  <2>4. WalkedTo(p, gs, stage', steps', history'.spent, c, e)
    BY <1>7, <2>3
  <2> QED
    BY <1>1, <1>7, <2>1, <2>4, StaticKept DEF Early
<1>8. CASE Bind
  <2>1. /\ fs # <<>> /\ Running /\ UNCHANGED <<request, verified, steps, history, stage>>
        /\ Binds(fs, gs) /\ ~fs[Len(fs)].bound
        /\ Len(fs[Len(fs)].vals) = Len(p.kids[fs[Len(fs)].node]) - 1
    <3>1. fs # <<>> /\ Running /\ Unbound /\ UNCHANGED <<request, verified, steps, history, stage>>
      BY <1>8, Zenon DEF Bind, inputs
    <3>2. Binds(fs, gs)
      BY <1>2, <1>8, BindBinds
    <3> QED
      BY <3>1, <3>2, Zenon DEF Unbound, Operands, Vals, Node, Top
  <2>2. gs # <<>>
    <3>1. Listed(gs) /\ Len(gs) = Len(fs) /\ Listed(fs)
      BY <1>2, <2>1 DEF Binds, PathOf
    <3> QED
      BY <2>1, <3>1, ListedProperties
  <2>3. \A last : Ahead(p, fs, last) => Ahead(p, gs, last)
    <3> HIDE DEF p, fs, gs
    <3> QED
      BY <1>2, <2>1, AheadBind
  <2> QED
    BY <1>7, <2>1, <2>2, <2>3 DEF Running
<1>9. ASSUME NEW v, fs # <<>>, Running, Return(v), UNCHANGED <<request, verified, steps>>,
             history'.spent = history.spent
      PROVE StaticInv'
  <2>1. /\ Answers(fs, gs, v)
        /\ Len(fs) = 1 => stage' = "ended"
        /\ Len(fs) > 1 => UNCHANGED stage
    BY <1>2, <1>9, ReturnAnswers
  <2>2. \A last : Ahead(p, fs, last) => Ahead(p, gs, last)
    <3> HIDE DEF p, fs, gs
    <3> QED
      BY <1>2, <1>9, <2>1, AheadAnswer
  <2>3. stage' = "ended" \/ (stage' = "running" /\ gs # <<>>)
    <3>1. Listed(gs) /\ Len(gs) = Len(fs) - 1 /\ Listed(fs)
      BY <1>2, <2>1 DEF Answers, PathOf
    <3>2. Len(fs) \in Nat /\ Len(fs) > 0
      BY <1>9, <3>1, ListedProperties
    <3>3. CASE Len(fs) = 1
      BY <2>1, <3>3
    <3>4. CASE Len(fs) # 1
      <4>1. Len(fs) > 1 /\ Len(gs) > 0
        BY <3>1, <3>2, <3>4
      <4> QED
        BY <1>9, <2>1, <3>1, <4>1, ListedProperties DEF Running
    <3> QED
      BY <3>3, <3>4
  <2> QED
    BY <1>7, <1>9, <2>2, <2>3
<1>10. ASSUME NEW reason, fs # <<>>, Running, Stop(reason), UNCHANGED steps,
              history'.spent = history.spent
       PROVE StaticInv'
  <2>1. gs = <<>> /\ stage' = "ended" /\ UNCHANGED <<request, verified>>
    BY <1>10 DEF Stop, End, inputs
  <2>2. \A last : Ahead(p, fs, last) => Ahead(p, gs, last)
    BY <2>1, AheadNone
  <2> QED
    BY <1>7, <1>10, <2>1, <2>2
<1>11. CASE LeaveFunction
  <2>1. /\ fs # <<>> /\ Running /\ Return(Vals[1])
        /\ UNCHANGED <<request, verified, steps>>
    BY <1>11, Zenon DEF LeaveFunction, inputs
  <2>2. history'.spent = history.spent
    <3>1. PICK r : history' = [history EXCEPT !.read = r]
      BY <1>11, Zenon DEF LeaveFunction
    <3> QED
      BY <1>2, <3>1 DEF History
  <2> QED
    BY <1>9, <2>1, <2>2
<1>12. CASE Conclusion
  <2>1. PICK made : Ready /\ Conclude(made)
    BY <1>12, ConclusionConcludes
  <2>2. fs # <<>> /\ Running /\ UNCHANGED steps
    BY <2>1, Zenon DEF Ready, Conclude
  <2>3. history'.spent = history.spent
    <3>1. \E w, r, l, d : history' = [spent |-> history.spent, worked |-> w, read |-> r,
                                      looked |-> l, dispatched |-> d]
      BY <2>1, Zenon DEF Conclude
    <3> QED
      BY <3>1
  <2>4. \/ (\E v : Return(v)) /\ UNCHANGED <<request, verified>>
        \/ \E reason : Stop(reason)
    BY <2>1, ConcludeOutcome DEF inputs
  <2> QED
    BY <1>9, <1>10, <2>2, <2>3, <2>4
<1> QED
  BY <1>3, <1>4, <1>6, <1>8, <1>11, <1>12 DEF Next, Conclusion

(* The invariant bounds what the analysis promises to bound.               *)
LEMMA StaticBounded ==
  ASSUME StaticInv
  PROVE StaticBounds
<1> SUFFICES ASSUME NEW c, NEW e, Announces(verified, c, e), Walked(c, e)
             PROVE StaticBounds
  BY DEF StaticInv, StaticBounds
<1>1. PICK last \in 0 .. Len(program.kind) :
        Within(e, steps, last) /\ Within(c, history.spent, last)
  BY DEF Walked, WalkedTo
<1>2. /\ c \in Seq(Nat) /\ Len(c) = Len(program.kind) /\ SumOf(c) = verified.cost
      /\ e \in Seq(Nat) /\ Len(e) = Len(program.kind) /\ SumOf(e) = verified.nodes
      /\ verified.nodes <= profile.nodes /\ verified.cost <= profile.cost
  BY DEF Announces
<1>3. steps <= SumOf(e) /\ history.spent <= SumOf(c)
  BY <1>1, <1>2, WithinSum
<1>4. Len(frames) <= DepthLimit + 1
  <2> DEFINE max == DepthLimit
             p == program
  <2>1. PICK d : Depths(p, d, max)
    BY DEF Announces
  <2>2. max \in Nat /\ IsProgram(p) /\ PathOf(p, frames)
    BY DepthLimitIs, ProgramAssumption, Zenon DEF StaticInv, PathInv, program
  <2> HIDE DEF max, p
  <2>3. max \in Int /\ max >= -1
    BY <2>2
  <2>4. Len(frames) <= max + 1
    BY <2>1, <2>2, <2>3, PathDepth
  <2> QED
    BY <2>4 DEF max
<1> QED
  BY <1>2, <1>3, <1>4 DEF StaticBounds

(* What the analysis promises of an accepted program bounds its evaluation *)
(* (validate_program_bounds; EvalState.steps and the depth of eval): the   *)
(* steps are within the nodes it counted, the cost of what is dispatched   *)
(* within the static bound, the calls of eval within the call depth.       *)
THEOREM StaticBoundsTheorem == Spec => []StaticBounds
<1>1. Init => StaticInv
  <2> SUFFICES ASSUME Init PROVE StaticInv
    OBVIOUS
  <2>1. DispatchInv /\ PathInv
    BY DispatchInit, PathInit
  <2>2. /\ steps = 0 /\ history.spent = 0 /\ verified = NoProgram
        /\ stage \notin {"verifying", "running"}
    BY DEF Init
  <2> QED
    BY <2>1, <2>2, Zenon DEF StaticInv
<1>2. StaticInv /\ [Next]_vars => StaticInv'
  BY StaticStep
<1>3. StaticInv => StaticBounds
  BY StaticBounded
<1> QED
  BY <1>1, <1>2, <1>3, PTL DEF Spec

-----------------------------------------------------------------------------
\* What calls hold.

(* The last number is what the sum has beyond the ones before it.          *)
LEMMA SumLast ==
  ASSUME NEW s \in Seq(Nat), NEW t \in Seq(Nat), Len(t) = Len(s) + 1,
         \A k \in 1 .. Len(s) : t[k] = s[k]
  PROVE SumOf(t) = SumOf(s) + t[Len(t)] /\ SumOf(s) \in Nat /\ SumOf(t) \in Nat
<1> DEFINE n == Len(s)
<1>1. n \in Nat /\ Len(t) = n + 1
  OBVIOUS
<1>2. PICK f : Sums(f, s)
  BY SumsExist
<1>3. PICK g : Sums(g, t)
  BY SumsExist
<1>4. SumsUpTo(f, s, n) /\ SumsUpTo(g, t, n) /\ g[n + 1] = g[n] + t[n + 1]
  <2>1. SumsUpTo(f, s, n) /\ SumsUpTo(g, t, n + 1)
    BY <1>1, <1>2, <1>3 DEF Sums
  <2> HIDE DEF n
  <2>2. /\ g[0] = 0 /\ \A k \in 1 .. n + 1 : g[k] = g[k - 1] + t[k]
    BY <2>1 DEF SumsUpTo
  <2>3. SumsUpTo(g, t, n)
    BY <1>1, <2>2 DEF SumsUpTo
  <2>4. n + 1 \in 1 .. n + 1 /\ (n + 1) - 1 = n
    BY <1>1
  <2>5. g[n + 1] = g[(n + 1) - 1] + t[n + 1]
    BY <2>2, <2>4
  <2> QED
    BY <2>1, <2>3, <2>4, <2>5
<1>5. f[n] = g[n]
  <2>1. \A k \in 1 .. n : s[k] = t[k]
    OBVIOUS
  <2> HIDE DEF n
  <2>2. \A k \in 0 .. n : f[k] = g[k]
    BY <1>1, <1>4, <2>1, SumsAgree
  <2> QED
    BY <1>1, <2>2
<1>6. SumOf(s) = f[n] /\ SumOf(s) \in Nat
  BY <1>2, SumIs
<1>7. SumOf(t) = g[n + 1] /\ SumOf(t) \in Nat
  BY <1>1, <1>3, SumIs
<1> QED
  BY <1>1, <1>4, <1>5, <1>6, <1>7

(* The values of a set that holds their parts have bytes.                  *)
LEMMA BytesSummed ==
  ASSUME NEW S, HoldsParts(S), NEW vals \in Seq(S)
  PROVE LET b == [k \in DOMAIN vals |-> vals[k].bytes]
        IN  b \in Seq(Nat) /\ Len(b) = Len(vals) /\ Bytes(vals) = SumOf(b) /\ Bytes(vals) \in Nat
<1> DEFINE b == [k \in DOMAIN vals |-> vals[k].bytes]
           n == Len(vals)
<1>1. n \in Nat /\ DOMAIN vals = 1 .. n /\ \A k \in 1 .. n : vals[k] \in S
  OBVIOUS
<1>2. \A v \in S : v.bytes \in Nat
  BY DEF HoldsParts
<1>3. b \in [1 .. n -> Nat]
  BY <1>1, <1>2
<1>4. Bytes(vals) = SumOf(b)
  BY DEF Bytes
<1> HIDE DEF b, n
<1>5. b \in Seq(Nat) /\ Len(b) = n
  BY <1>1, <1>3
<1>6. SumOf(b) \in Nat
  BY <1>5, SumsExist, SumIs
<1> QED
  BY <1>4, <1>5, <1>6 DEF b, n

(* No values have no bytes.                                                *)
LEMMA BytesEmpty == Bytes(<<>>) = 0
<1>1. [k \in DOMAIN <<>> |-> <<>>[k].bytes] = <<>>
  OBVIOUS
<1>2. Bytes(<<>>) = SumOf(<<>>)
  BY <1>1 DEF Bytes
<1> QED
  BY <1>2, SumEmpty

(* A value more adds its bytes.                                            *)
LEMMA BytesAppend ==
  ASSUME NEW S, HoldsParts(S), NEW vals \in Seq(S), NEW v \in S
  PROVE /\ Append(vals, v) \in Seq(S)
        /\ Bytes(Append(vals, v)) = Bytes(vals) + v.bytes
        /\ v.bytes \in Nat /\ Bytes(vals) \in Nat
<1> DEFINE new == Append(vals, v)
           n == Len(vals)
           b == [k \in DOMAIN vals |-> vals[k].bytes]
           c == [k \in DOMAIN new |-> new[k].bytes]
<1>1. /\ new \in Seq(S) /\ Len(new) = n + 1 /\ n \in Nat /\ new[n + 1] = v
      /\ \A k \in 1 .. n : new[k] = vals[k]
      /\ DOMAIN new = 1 .. n + 1 /\ DOMAIN vals = 1 .. n
  OBVIOUS
<1>2. b \in Seq(Nat) /\ Len(b) = n /\ Bytes(vals) = SumOf(b) /\ Bytes(vals) \in Nat
  BY BytesSummed
<1> HIDE DEF new
<1>3. c \in Seq(Nat) /\ Len(c) = n + 1 /\ Bytes(new) = SumOf(c)
  BY <1>1, BytesSummed
<1>4. (\A k \in 1 .. n : c[k] = b[k]) /\ c[n + 1] = v.bytes
  BY <1>1
<1> HIDE DEF n, b, c
<1>5. SumOf(c) = SumOf(b) + c[Len(c)]
  BY <1>2, <1>3, <1>4, SumLast
<1>6. v.bytes \in Nat
  BY DEF HoldsParts
<1> QED
  BY <1>1, <1>2, <1>3, <1>4, <1>5, <1>6 DEF new

(* The first value has at most the bytes of all.                           *)
LEMMA BytesFirst ==
  ASSUME NEW S, HoldsParts(S), NEW vals \in Seq(S), vals # <<>>
  PROVE vals[1] \in S /\ vals[1].bytes \in Nat /\ vals[1].bytes <= Bytes(vals)
<1> DEFINE n == Len(vals)
           b == [k \in DOMAIN vals |-> vals[k].bytes]
<1>1. n \in Nat /\ n > 0 /\ DOMAIN vals = 1 .. n /\ vals[1] \in S /\ b[1] = vals[1].bytes
  OBVIOUS
<1>2. b \in Seq(Nat) /\ Len(b) = n /\ Bytes(vals) = SumOf(b) /\ Bytes(vals) \in Nat
  BY BytesSummed
<1> HIDE DEF b, n
<1>3. PICK f : Sums(f, b)
  BY <1>2, SumsExist
<1>4. 0 \in 0 .. Len(b) /\ 1 \in 1 .. Len(b) /\ 0 < 1
  BY <1>1, <1>2
<1>5. f[0] + b[1] <= f[1] /\ f[0] \in Nat /\ f[1] \in Nat /\ b[1] \in Nat /\ f[1] <= SumOf(b)
  BY <1>2, <1>3, <1>4, SumsGrow
<1> QED
  BY <1>1, <1>2, <1>5

-----------------------------------------------------------------------------
\* The calls hold values of S.

(* What calls hold is a sum, call by call.                                 *)
LEMMA HeldSummed ==
  ASSUME NEW S, HoldsParts(S), NEW calls, Holding(calls, S)
  PROVE LET b == [k \in DOMAIN calls |-> Bytes(calls[k].vals)]
        IN  b \in Seq(Nat) /\ Len(b) = Len(calls) /\ HeldBy(calls) = SumOf(b) /\ HeldBy(calls) \in Nat
<1> DEFINE b == [k \in DOMAIN calls |-> Bytes(calls[k].vals)]
           n == Len(calls)
<1>1. n \in Nat /\ DOMAIN calls = 1 .. n
  BY ListedProperties DEF Holding
<1>2. \A k \in DOMAIN calls : Bytes(calls[k].vals) \in Nat
  BY BytesSummed DEF Holding
<1>3. b \in [1 .. n -> Nat]
  BY <1>1, <1>2
<1>4. HeldBy(calls) = SumOf(b)
  BY DEF HeldBy
<1> HIDE DEF b, n
<1>5. b \in Seq(Nat) /\ Len(b) = n
  BY <1>1, <1>3
<1>6. SumOf(b) \in Nat
  BY <1>5, SumsExist, SumIs
<1> QED
  BY <1>4, <1>5, <1>6 DEF b, n

(* The last call holds what all of them hold beyond the ones before it.    *)
LEMMA HeldLast ==
  ASSUME NEW S, HoldsParts(S), NEW cs, Holding(cs, S), NEW ds, Holding(ds, S),
         Len(ds) = Len(cs) + 1, \A k \in 1 .. Len(cs) : ds[k] = cs[k]
  PROVE /\ HeldBy(ds) = HeldBy(cs) + Bytes(ds[Len(ds)].vals)
        /\ HeldBy(cs) \in Nat /\ HeldBy(ds) \in Nat /\ Bytes(ds[Len(ds)].vals) \in Nat
<1> DEFINE n == Len(cs)
           b == [k \in DOMAIN cs |-> Bytes(cs[k].vals)]
           c == [k \in DOMAIN ds |-> Bytes(ds[k].vals)]
<1>1. n \in Nat /\ DOMAIN cs = 1 .. n /\ DOMAIN ds = 1 .. n + 1 /\ Len(ds) = n + 1
  BY ListedProperties DEF Holding
<1>2. b \in Seq(Nat) /\ Len(b) = n /\ HeldBy(cs) = SumOf(b)
  BY HeldSummed
<1>3. c \in Seq(Nat) /\ Len(c) = n + 1 /\ HeldBy(ds) = SumOf(c)
  BY <1>1, HeldSummed
<1>4. (\A k \in 1 .. n : c[k] = b[k]) /\ c[n + 1] = Bytes(ds[n + 1].vals)
  BY <1>1
<1>5. n + 1 \in DOMAIN ds
  BY <1>1
<1>6. Bytes(ds[n + 1].vals) \in Nat
  BY <1>5, BytesSummed DEF Holding
<1> HIDE DEF n, b, c
<1>7. SumOf(c) = SumOf(b) + c[Len(c)] /\ SumOf(b) \in Nat /\ SumOf(c) \in Nat
  BY <1>2, <1>3, <1>4, SumLast
<1> QED
  BY <1>1, <1>2, <1>3, <1>4, <1>6, <1>7

(* No calls hold nothing.                                                  *)
LEMMA HeldEmpty ==
  ASSUME NEW calls, calls = <<>>
  PROVE HeldBy(calls) = 0 /\ \A S : Holding(calls, S)
<1>1. DOMAIN calls = {} /\ Listed(<<>>)
  BY NothingCalled
<1>2. [k \in DOMAIN calls |-> Bytes(calls[k].vals)] = <<>>
  BY <1>1
<1>3. HeldBy(calls) = SumOf(<<>>)
  BY <1>2 DEF HeldBy
<1> QED
  BY <1>1, <1>3, SumEmpty DEF Holding

(* Values of a set are values of any larger one.                           *)
LEMMA HoldingMore ==
  ASSUME NEW S, NEW T, S \subseteq T, NEW calls, Holding(calls, S)
  PROVE Holding(calls, T)
<1>1. Seq(S) \subseteq Seq(T)
  <2> SUFFICES ASSUME NEW s \in Seq(S) PROVE s \in Seq(T)
    OBVIOUS
  <2>1. Len(s) \in Nat /\ s \in [1 .. Len(s) -> S]
    OBVIOUS
  <2>2. s \in [1 .. Len(s) -> T]
    BY <2>1
  <2> QED
    BY <2>1, <2>2, SeqDef
<1> QED
  BY <1>1 DEF Holding

(* A call more.                                                            *)
LEMMA HeldPush ==
  ASSUME NEW S, HoldsParts(S), NEW cs, Holding(cs, S), NEW e, e.vals \in Seq(S)
  PROVE /\ Holding(Append(cs, e), S)
        /\ HeldBy(Append(cs, e)) = HeldBy(cs) + Bytes(e.vals)
        /\ HeldBy(cs) \in Nat /\ Bytes(e.vals) \in Nat
<1> DEFINE ds == Append(cs, e)
           n == Len(cs)
<1>1. Listed(cs) /\ n \in Nat /\ DOMAIN cs = 1 .. n
  BY ListedProperties DEF Holding
<1>2. /\ Listed(ds) /\ Len(ds) = n + 1 /\ \A k \in DOMAIN cs : ds[k] = cs[k]
      /\ ds[n + 1] = e
  BY <1>1, AppendListed
<1> HIDE DEF ds
<1>3. DOMAIN ds = 1 .. n + 1
  BY <1>2, ListedProperties
<1> HIDE DEF n
<1>4. Holding(ds, S)
  BY <1>1, <1>2, <1>3 DEF Holding
<1>5. Len(ds) = Len(cs) + 1 /\ (\A k \in 1 .. Len(cs) : ds[k] = cs[k]) /\ ds[Len(ds)] = e
  BY <1>1, <1>2 DEF n
<1>6. /\ HeldBy(ds) = HeldBy(cs) + Bytes(ds[Len(ds)].vals)
      /\ HeldBy(cs) \in Nat /\ Bytes(ds[Len(ds)].vals) \in Nat
  BY <1>4, <1>5, HeldLast
<1> QED
  BY <1>4, <1>5, <1>6 DEF ds

(* All but the last call.                                                  *)
LEMMA HeldFront ==
  ASSUME NEW S, HoldsParts(S), NEW cs, Holding(cs, S), cs # <<>>
  PROVE LET t == SubSeq(cs, 1, Len(cs) - 1)
        IN  /\ Holding(t, S) /\ Len(t) = Len(cs) - 1
            /\ \A k \in 1 .. Len(cs) - 1 : t[k] = cs[k]
            /\ HeldBy(cs) = HeldBy(t) + Bytes(cs[Len(cs)].vals)
            /\ HeldBy(t) \in Nat /\ Bytes(cs[Len(cs)].vals) \in Nat
            /\ cs[Len(cs)].vals \in Seq(S)
<1> DEFINE n == Len(cs)
           t == SubSeq(cs, 1, n - 1)
<1>1. Listed(cs) /\ n \in Nat /\ DOMAIN cs = 1 .. n /\ n > 0
  BY ListedProperties DEF Holding
<1>2. Listed(t) /\ Len(t) = n - 1 /\ \A k \in 1 .. n - 1 : t[k] = cs[k]
  BY <1>1, FrontListed
<1> HIDE DEF t
<1>3. DOMAIN t = 1 .. n - 1
  BY <1>2, ListedProperties
<1> HIDE DEF n
<1>4. Holding(t, S) /\ cs[n].vals \in Seq(S)
  BY <1>1, <1>2, <1>3 DEF Holding
<1>5. Len(cs) = Len(t) + 1 /\ \A k \in 1 .. Len(t) : cs[k] = t[k]
  BY <1>1, <1>2 DEF n
<1>6. /\ HeldBy(cs) = HeldBy(t) + Bytes(cs[Len(cs)].vals)
      /\ HeldBy(t) \in Nat /\ Bytes(cs[Len(cs)].vals) \in Nat
  BY <1>4, <1>5, HeldLast
<1> QED
  BY <1>2, <1>4, <1>6 DEF t, n

(* The last call lets go of its arguments.                                 *)
LEMMA HeldBind ==
  ASSUME NEW S, HoldsParts(S), NEW fs, Holding(fs, S), fs # <<>>, NEW gs, Binds(fs, gs)
  PROVE /\ Holding(gs, S)
        /\ HeldBy(fs) = HeldBy(gs) + Bytes(fs[Len(fs)].vals)
        /\ HeldBy(gs) \in Nat
<1> DEFINE n == Len(fs)
           t == SubSeq(fs, 1, n - 1)
<1>1. /\ Holding(t, S) /\ Len(t) = n - 1 /\ \A k \in 1 .. n - 1 : t[k] = fs[k]
      /\ HeldBy(fs) = HeldBy(t) + Bytes(fs[n].vals)
      /\ HeldBy(t) \in Nat
  BY HeldFront
<1>2. Listed(fs) /\ n \in Nat /\ DOMAIN fs = 1 .. n /\ n > 0
  BY ListedProperties DEF Holding
<1>3. /\ Listed(gs) /\ Len(gs) = n
      /\ \A k \in 1 .. n - 1 : gs[k] = fs[k]
      /\ gs[n].vals = <<>>
  BY DEF Binds
<1>4. DOMAIN gs = 1 .. n /\ <<>> \in Seq(S)
  BY <1>3, ListedProperties
<1> HIDE DEF n, t
<1>5. Holding(gs, S)
  <2> SUFFICES ASSUME NEW k \in 1 .. n PROVE gs[k].vals \in Seq(S)
    BY <1>3, <1>4 DEF Holding
  <2>1. CASE k = n
    BY <1>3, <1>4, <2>1
  <2>2. CASE k # n
    <3>1. k \in 1 .. n - 1 /\ k \in DOMAIN fs
      BY <1>2, <2>2
    <3> QED
      BY <1>3, <3>1 DEF Holding
  <2> QED
    BY <2>1, <2>2
<1>6. Len(gs) = Len(t) + 1 /\ \A k \in 1 .. Len(t) : gs[k] = t[k]
  BY <1>1, <1>2, <1>3
<1>7. HeldBy(gs) = HeldBy(t) + Bytes(gs[Len(gs)].vals)
  BY <1>1, <1>5, <1>6, HeldLast
<1>8. Bytes(gs[Len(gs)].vals) = 0
  BY <1>3, BytesEmpty, Zenon
<1>9. HeldBy(gs) = HeldBy(t)
  BY <1>1, <1>7, <1>8
<1> QED
  BY <1>1, <1>5, <1>9 DEF n

(* The last call lets go of its operands, and the one below holds v.       *)
LEMMA HeldAnswer ==
  ASSUME NEW S, HoldsParts(S), NEW fs, Holding(fs, S), fs # <<>>,
         NEW v \in S, NEW gs, Answers(fs, gs, v)
  PROVE /\ Holding(gs, S) /\ HeldBy(gs) \in Nat /\ HeldBy(fs) \in Nat
        /\ Bytes(fs[Len(fs)].vals) \in Nat /\ v.bytes \in Nat
        /\ IF Len(fs) = 1 THEN HeldBy(gs) = 0 /\ HeldBy(fs) = Bytes(fs[Len(fs)].vals)
           ELSE HeldBy(gs) + Bytes(fs[Len(fs)].vals) = HeldBy(fs) + v.bytes
<1> DEFINE n == Len(fs)
           m == n - 1
           t == SubSeq(fs, 1, n - 1)
           x == Bytes(fs[n].vals)
<1>1. /\ Holding(t, S) /\ Len(t) = m /\ \A k \in 1 .. m : t[k] = fs[k]
      /\ HeldBy(fs) = HeldBy(t) + x
      /\ HeldBy(t) \in Nat /\ x \in Nat
  BY HeldFront
<1>2. Listed(fs) /\ n \in Nat /\ DOMAIN fs = 1 .. n /\ n > 0
  BY ListedProperties DEF Holding
<1>3. m \in Nat /\ n = m + 1 /\ n - 2 = m - 1
  BY <1>2
<1>4. /\ Listed(gs) /\ Len(gs) = m
      /\ \A k \in 1 .. m - 1 : gs[k] = fs[k]
      /\ n > 1 => gs[m].vals = Append(fs[m].vals, v)
  BY <1>3 DEF Answers
<1>5. v.bytes \in Nat
  BY DEF HoldsParts
<1>6. HeldBy(fs) \in Nat
  <2> HIDE DEF x
  <2> QED
    BY <1>1
<1>7. CASE n = 1
  <2>1. m = 0
    BY <1>7
  <2>2. gs = <<>> /\ t = <<>>
    <3>1. Listed(t)
      BY <1>1 DEF Holding
    <3> HIDE DEF t, m
    <3> QED
      BY <1>1, <1>4, <2>1, <3>1, ListedProperties
  <2>3. HeldBy(gs) = 0 /\ Holding(gs, S) /\ HeldBy(t) = 0
    BY <2>2, HeldEmpty
  <2>4. HeldBy(fs) = x
    <3> HIDE DEF x, t
    <3> QED
      BY <1>1, <2>3
  <2> QED
    BY <1>1, <1>5, <1>6, <1>7, <2>3, <2>4
<1>8. CASE n # 1
  <2> HIDE DEF n
  <2>1. n > 1 /\ m > 0
    BY <1>2, <1>8
  <2> HIDE DEF m, t
  <2>2. t # <<>> /\ Listed(t) /\ DOMAIN t = 1 .. m
    BY <1>1, <2>1, ListedProperties DEF Holding
  <2> DEFINE r == SubSeq(t, 1, Len(t) - 1)
             y == Bytes(t[Len(t)].vals)
  <2>3. /\ Holding(r, S) /\ Len(r) = Len(t) - 1 /\ \A k \in 1 .. Len(t) - 1 : r[k] = t[k]
        /\ HeldBy(t) = HeldBy(r) + y
        /\ HeldBy(r) \in Nat /\ y \in Nat /\ t[Len(t)].vals \in Seq(S)
    BY <1>1, <2>2, HeldFront
  <2>4. t[Len(t)] = fs[m]
    BY <1>1, <1>3, <2>1
  <2> HIDE DEF r, y
  <2>5. /\ gs[m].vals = Append(fs[m].vals, v) /\ gs[m].vals \in Seq(S)
        /\ Bytes(gs[m].vals) = y + v.bytes
    <3>1. fs[m].vals \in Seq(S) /\ y = Bytes(fs[m].vals)
      BY <2>3, <2>4 DEF y
    <3>2. gs[m].vals = Append(fs[m].vals, v)
      BY <1>4, <2>1
    <3>3. /\ Append(fs[m].vals, v) \in Seq(S)
          /\ Bytes(Append(fs[m].vals, v)) = Bytes(fs[m].vals) + v.bytes
      BY <3>1, BytesAppend
    <3> QED
      BY <3>1, <3>2, <3>3
  <2>6. DOMAIN gs = 1 .. m
    BY <1>4, ListedProperties
  <2>7. Holding(gs, S)
    <3> SUFFICES ASSUME NEW k \in 1 .. m PROVE gs[k].vals \in Seq(S)
      BY <1>4, <2>6 DEF Holding
    <3>1. CASE k = m
      BY <2>5, <3>1
    <3>2. CASE k # m
      <4>1. k \in 1 .. m - 1 /\ k \in DOMAIN fs
        BY <1>2, <1>3, <3>2
      <4> QED
        BY <1>4, <4>1 DEF Holding
    <3> QED
      BY <3>1, <3>2
  <2>8. Len(gs) = Len(r) + 1 /\ \A k \in 1 .. Len(r) : gs[k] = r[k]
    <3>1. Len(r) = m - 1 /\ Len(gs) = m
      BY <1>1, <1>4, <2>3
    <3>2. \A k \in 1 .. m - 1 : k \in 1 .. m /\ r[k] = t[k] /\ t[k] = fs[k] /\ gs[k] = fs[k]
      BY <1>1, <1>3, <1>4, <2>3
    <3> QED
      BY <1>3, <3>1, <3>2
  <2>9. HeldBy(gs) = HeldBy(r) + Bytes(gs[Len(gs)].vals) /\ HeldBy(gs) \in Nat
    BY <2>3, <2>7, <2>8, HeldLast
  <2>10. HeldBy(gs) = HeldBy(r) + (y + v.bytes)
    BY <1>4, <2>5, <2>9
  <2> HIDE DEF x
  <2>11. HeldBy(gs) + x = HeldBy(fs) + v.bytes
    BY <1>1, <1>5, <2>3, <2>10
  <2> QED
    BY <1>1, <1>5, <1>6, <1>8, <2>7, <2>9, <2>11 DEF n, x
<1> QED
  BY <1>7, <1>8

-----------------------------------------------------------------------------
\* What calls pay for.

(* A value that is held is itself an extension.                            *)
LEMMA ElementsExtend ==
  ASSUME NEW S, HoldsParts(S), NEW v \in S
  PROVE Extends(S, v)
BY DEF Extends

(* A value with or without parts of S.                                     *)
LEMMA PartsExtend ==
  ASSUME NEW S, HoldsParts(S), NEW v, Listed(v.payload), v.parts \in Seq(S),
         v.ty = "object" => Len(v.parts) = Len(v.payload), v.bytes \in Nat \ {0}
  PROVE Extends(S, v)
<1> DEFINE T == S \cup {v}
<1>1. \A s \in Seq(S) : s \in Seq(T)
  <2> SUFFICES ASSUME NEW s \in Seq(S) PROVE s \in Seq(T)
    OBVIOUS
  <2>1. Len(s) \in Nat /\ s \in [1 .. Len(s) -> S]
    OBVIOUS
  <2>2. s \in [1 .. Len(s) -> T]
    BY <2>1
  <2> HIDE DEF T
  <2> QED
    BY <2>1, <2>2, SeqDef
<1>2. v.payload \in Seq(ToSet(v.payload))
  BY DEF Listed, Elements, ToSet
<1>3. ASSUME NEW w \in T
      PROVE /\ w.payload \in Seq(ToSet(w.payload))
            /\ w.parts \in Seq(T)
            /\ w.ty = "object" => Len(w.parts) = Len(w.payload)
            /\ w.bytes \in Nat \ {0}
  <2>1. CASE w \in S
    BY <1>1, <2>1, Zenon DEF HoldsParts
  <2>2. CASE w = v
    BY <1>1, <1>2, <2>2, Zenon
  <2> QED
    BY <2>1, <2>2
<1>4. S \subseteq T /\ v \in T
  OBVIOUS
<1> HIDE DEF T
<1>5. HoldsParts(T)
  BY <1>3, Zenon DEF HoldsParts
<1> QED
  BY <1>4, <1>5 DEF Extends

(* The values without parts.                                               *)
LEMMA ScalarExtends ==
  ASSUME NEW S, HoldsParts(S), NEW ty, NEW payload, Listed(payload),
         ty = "object" => payload = <<>>, NEW number
  PROVE Extends(S, Scalar(ty, payload, number))
<1> DEFINE v == Scalar(ty, payload, number)
<1>1. /\ v.ty = ty /\ v.payload = payload /\ v.parts = <<>>
      /\ v.bytes = 1 + Len(payload)
  BY DEF Scalar
<1>2. Len(payload) \in Nat
  BY ListedProperties
<1> HIDE DEF v
<1>3. Listed(v.payload) /\ v.bytes \in Nat \ {0}
  BY <1>1, <1>2
<1>4. v.parts \in Seq(S)
  <2>1. <<>> \in Seq(S)
    OBVIOUS
  <2> QED
    BY <1>1, <2>1
<1>5. v.ty = "object" => Len(v.parts) = Len(v.payload)
  <2>1. v.ty = "object" => v.parts = <<>> /\ v.payload = <<>>
    BY <1>1
  <2> QED
    BY <2>1, Zenon
<1> QED
  BY <1>3, <1>4, <1>5, PartsExtend DEF v

(* Values without parts.                                                   *)
LEMMA PlainExtends ==
  ASSUME NEW S, HoldsParts(S)
  PROVE /\ \A b : Extends(S, Bool(b))
        /\ \A n : Extends(S, Integer(n)) /\ Extends(S, Float(n))
        /\ \A c : Listed(c) => Extends(S, Text(c))
        /\ \A ty, n : Extends(S, Scalar(ty, <<>>, n))
<1>1. Listed(<<>>)
  BY NothingCalled
<1>2. \A ty, n : Extends(S, Scalar(ty, <<>>, n))
  BY <1>1, ScalarExtends
<1>3. \A c : Listed(c) => Extends(S, Text(c))
  <2> SUFFICES ASSUME NEW c, Listed(c) PROVE Extends(S, Scalar("string", c, 0))
    BY DEF Text
  <2> QED
    BY ScalarExtends
<1>4. /\ \A b : Extends(S, Bool(b))
      /\ \A n : Extends(S, Integer(n)) /\ Extends(S, Float(n))
  BY <1>2 DEF Bool, Integer, Float
<1> QED
  BY <1>2, <1>3, <1>4

(* An array of values that are held.                                       *)
LEMMA ListExtends ==
  ASSUME NEW S, HoldsParts(S), NEW args \in Seq(S)
  PROVE Extends(S, List(args))
<1> DEFINE v == List(args)
<1>1. v.payload = <<>> /\ v.parts = args /\ v.ty = "array" /\ v.bytes = 1 + Bytes(args)
  BY DEF List
<1>2. Bytes(args) \in Nat /\ Listed(<<>>)
  BY BytesSummed, NothingCalled
<1> HIDE DEF v
<1>3. Listed(v.payload) /\ v.parts \in Seq(S) /\ v.bytes \in Nat \ {0} /\ v.ty # "object"
  BY <1>1, <1>2
<1>4. Extends(S, v)
  BY <1>3, PartsExtend
<1> QED
  BY <1>4 DEF v

(* Checks.                                                                 *)
LEMMA ListedTuples ==
  /\ Listed(<<>>)
  /\ \A a : Listed(<<a>>)
  /\ \A a, b : Listed(<<a, b>>)
  /\ \A a, b, c : Listed(<<a, b, c>>)
<1>1. Listed(<<>>)
  BY NothingCalled
<1>2. \A a : Listed(<<a>>)
  <2> SUFFICES ASSUME NEW a PROVE Listed(<<a>>)
    OBVIOUS
  <2>1. <<a>> \in Seq({a})
    OBVIOUS
  <2> QED
    BY <2>1, SequenceListed
<1>3. \A a, b : Listed(<<a, b>>)
  <2> SUFFICES ASSUME NEW a, NEW b PROVE Listed(<<a, b>>)
    OBVIOUS
  <2>1. <<a, b>> \in Seq({a, b})
    OBVIOUS
  <2> QED
    BY <2>1, SequenceListed
<1>4. \A a, b, c : Listed(<<a, b, c>>)
  <2> SUFFICES ASSUME NEW a, NEW b, NEW c PROVE Listed(<<a, b, c>>)
    OBVIOUS
  <2>1. <<a, b, c>> \in Seq({a, b, c})
    OBVIOUS
  <2> QED
    BY <2>1, SequenceListed
<1> QED
  BY <1>1, <1>2, <1>3, <1>4

(* A single check.                                                         *)
LEMMA OneCheck == \A holds, reason : AllHold(<<<<holds, reason>>>>) <=> holds
<1> SUFFICES ASSUME NEW holds, NEW reason PROVE AllHold(<<<<holds, reason>>>>) <=> holds
  OBVIOUS
<1> DEFINE pair == <<holds, reason>>
           s == <<pair>>
<1>1. DOMAIN s = {1} /\ s[1] = pair
  OBVIOUS
<1>2. pair[1] = holds
  OBVIOUS
<1> HIDE DEF s, pair
<1>3. AllHold(s) <=> pair[1]
  BY <1>1 DEF AllHold
<1> QED
  BY <1>2, <1>3 DEF s, pair

(* Three checks.                                                           *)
LEMMA ChecksTriple ==
  \A a, b, c, x, y, z : AllHold(<<<<a, x>>, <<b, y>>, <<c, z>>>>) <=> a /\ b /\ c
<1> SUFFICES ASSUME NEW a, NEW b, NEW c, NEW x, NEW y, NEW z
             PROVE AllHold(<<<<a, x>>, <<b, y>>, <<c, z>>>>) <=> a /\ b /\ c
  OBVIOUS
<1> DEFINE A == <<a, x>>
           B == <<b, y>>
           C == <<c, z>>
           s == <<A, B, C>>
<1>1. DOMAIN s = {1, 2, 3} /\ s[1] = A /\ s[2] = B /\ s[3] = C
  OBVIOUS
<1>2. A[1] = a /\ B[1] = b /\ C[1] = c
  OBVIOUS
<1> HIDE DEF s, A, B, C
<1>3. AllHold(s) <=> A[1] /\ B[1] /\ C[1]
  BY <1>1, Zenon DEF AllHold
<1> QED
  BY <1>2, <1>3 DEF s, A, B, C

(* A call whose value is only made after its checks.                       *)
LEMMA CallPaid ==
  ASSUME NEW S, NEW before, NEW after, Listed(before), Listed(after),
         NEW work \in Nat, NEW done \in Nat, done <= work,
         NEW value, AllHold(before) /\ AllHold(after) => Extends(S, value)
  PROVE Paid(Call(before, work, after, value, done), S)
<1> DEFINE call == Call(before, work, after, value, done)
<1>1. /\ call.before = before /\ call.work = work /\ call.after = after
      /\ call.value = value /\ call.done = done
  BY DEF Call
<1> HIDE DEF call
<1>2. Paid(call, S)
  BY <1>1 DEF Paid
<1> QED
  BY <1>2 DEF call

(* A call that does no work.                                               *)
LEMMA GivenPaid ==
  ASSUME NEW S, NEW holds, NEW reason, NEW value, holds => Extends(S, value)
  PROVE Paid(Given(holds, reason, value), S)
<1> DEFINE before == <<<<holds, reason>>>>
           given == IF holds THEN value ELSE Failure
<1>1. Given(holds, reason, value) = Call(before, 0, <<>>, given, 0)
  BY DEF Given
<1>2. Listed(before) /\ Listed(<<>>) /\ (AllHold(before) <=> holds)
  BY ListedTuples, OneCheck
<1>3. holds => given = value
  OBVIOUS
<1> HIDE DEF before, given
<1>4. AllHold(before) => Extends(S, given)
  BY <1>2, <1>3
<1>5. 0 \in Nat /\ 0 <= 0
  OBVIOUS
<1>6. Paid(Call(before, 0, <<>>, given, 0), S)
  BY <1>2, <1>4, <1>5, CallPaid
<1> QED
  BY <1>1, <1>6

-----------------------------------------------------------------------------
\* What handlers charge.

(* There are so many places in texts.                                      *)
LEMMA PlacesFinite ==
  ASSUME NEW t, Texts(t)
  PROVE IsFiniteSet(Places(t)) /\ Cardinality(Places(t)) \in Nat
<1> DEFINE At(k) == {k} \X (0 .. Len(t[k]))
           f == [k \in DOMAIN t |-> At(k)]
           P == {At(k) : k \in DOMAIN t}
<1>1. Listed(t) /\ Len(t) \in Nat /\ DOMAIN t = 1 .. Len(t)
  BY ListedProperties DEF Texts
<1>2. IsFiniteSet(DOMAIN t)
  BY <1>1, FS_Interval
<1>3. ASSUME NEW k \in DOMAIN t PROVE IsFiniteSet(At(k))
  <2>1. Len(t[k]) \in Nat
    BY ListedProperties DEF Texts
  <2>2. \A m \in Nat : IsFiniteSet(0 .. m)
    BY FS_Interval
  <2>3. IsFiniteSet(0 .. Len(t[k])) /\ IsFiniteSet({k})
    BY <2>1, <2>2, FS_Singleton, Zenon
  <2> QED
    BY <2>3, FS_Product
<1>4. IsFiniteSet(P)
  <2> HIDE DEF At
  <2>1. f \in Surjection(DOMAIN t, P)
    BY DEF Surjection
  <2> QED
    BY <1>2, <2>1, FS_Surjection
<1>5. \A A \in P : IsFiniteSet(A)
  BY <1>3
<1> HIDE DEF P
<1>6. IsFiniteSet(UNION P)
  BY <1>4, <1>5, FS_UNION
<1>7. Places(t) = UNION P
  BY DEF Places, P
<1> QED
  BY <1>6, <1>7, FS_CardinalityType

(* A pattern set is searched for no more than what was charged.            *)
LEMMA PatternSetPaid ==
  ASSUME NEW S, HoldsParts(S), NEW ps, \A name \in DOMAIN ps : Texts(ps[name]),
         NEW r \in S, NEW name \in S
  PROVE Paid(PatternSetCall(ps, r, name), S)
<1> DEFINE texts == IF r.ty = "string" THEN <<r>> ELSE r.parts
           candidates == [k \in DOMAIN texts |-> texts[k].payload]
           patterns == ps[name.payload]
           known == name.ty = "string" /\ name.payload \in DOMAIN ps
           scannable == /\ r.ty \in {"string", "array"}
                        /\ \A k \in DOMAIN texts : texts[k].ty = "string"
           call == PatternSetCall(ps, r, name)
           C == Places(candidates)
           Q == Places(patterns)
<1>1. CASE ~known \/ ~scannable
  <2> DEFINE text == name.ty = "string"
             before == <<<<text, "type">>, <<known, "unknown set">>, <<scannable, "type">>>>
  <2>1. call = Call(before, 0, <<>>, Failure, 0)
    BY <1>1, Zenon DEF PatternSetCall
  <2>2. Listed(before) /\ Listed(<<>>) /\ (AllHold(before) <=> text /\ known /\ scannable)
    <3> HIDE DEF text, known, scannable
    <3> QED
      BY ListedTuples, ChecksTriple
  <2> HIDE DEF before
  <2>3. ~AllHold(before) /\ 0 \in Nat /\ 0 <= 0
    BY <1>1, <2>2
  <2>4. Paid(Call(before, 0, <<>>, Failure, 0), S)
    BY <2>2, <2>3, CallPaid
  <2> QED
    BY <2>1, <2>4
<1>2. CASE known /\ scannable
  <2>1. \E b, D : D \subseteq C \X Q /\
                  call = Call(<<>>, Cardinality(C) * Cardinality(Q), <<>>, Bool(b), Cardinality(D))
    BY <1>2, Zenon DEF PatternSetCall
  <2>2. PICK b, D : D \subseteq C \X Q /\
                  call = Call(<<>>, Cardinality(C) * Cardinality(Q), <<>>, Bool(b), Cardinality(D))
    BY <2>1
  <2>3. texts \in Seq(S)
    <3>1. r.parts \in Seq(S)
      BY DEF HoldsParts
    <3>2. <<r>> \in Seq(S)
      OBVIOUS
    <3> QED
      BY <3>1, <3>2
  <2>4. Texts(candidates)
    <3> HIDE DEF texts
    <3> DEFINE n == Len(texts)
               E == {candidates[k] : k \in 1 .. n}
    <3>1. n \in Nat /\ DOMAIN texts = 1 .. n /\ \A k \in 1 .. n : texts[k] \in S
      BY <2>3
    <3>2. \A v \in S : Listed(v.payload)
      BY Zenon DEF HoldsParts, Listed, Elements, ToSet
    <3>3. DOMAIN candidates = 1 .. n /\ \A k \in 1 .. n : Listed(candidates[k])
      BY <3>1, <3>2
    <3>4. candidates \in [1 .. n -> E]
      BY <3>1
    <3> HIDE DEF candidates, E, n
    <3>5. candidates \in Seq(E)
      BY <3>1, <3>4, SeqDef
    <3>6. Listed(candidates)
      BY <3>5, SequenceListed
    <3> QED
      BY <3>3, <3>6 DEF Texts
  <2>5. Texts(patterns)
    BY <1>2
  <2> HIDE DEF candidates, patterns
  <2>6. /\ IsFiniteSet(C) /\ Cardinality(C) \in Nat
        /\ IsFiniteSet(Q) /\ Cardinality(Q) \in Nat
    BY <2>4, <2>5, PlacesFinite
  <2> HIDE DEF C, Q
  <2>7. IsFiniteSet(C \X Q) /\ Cardinality(C \X Q) = Cardinality(C) * Cardinality(Q)
    BY <2>6, FS_Product
  <2>8. IsFiniteSet(D) /\ Cardinality(D) <= Cardinality(C \X Q)
    BY <2>2, <2>7, FS_Subset
  <2>9. Cardinality(D) \in Nat /\ Cardinality(C \X Q) \in Nat
    BY <2>7, <2>8, FS_CardinalityType
  <2> DEFINE work == Cardinality(C) * Cardinality(Q)
             done == Cardinality(D)
  <2>10. work \in Nat /\ done \in Nat /\ done <= work
    BY <2>7, <2>8, <2>9
  <2>11. Listed(<<>>) /\ Extends(S, Bool(b))
    BY ListedTuples, PlainExtends
  <2>12. call = Call(<<>>, work, <<>>, Bool(b), done)
    BY <2>2
  <2> HIDE DEF work, done
  <2>13. Paid(Call(<<>>, work, <<>>, Bool(b), done), S)
    BY <2>10, <2>11, CallPaid
  <2> QED
    BY <2>12, <2>13
<1> QED
  BY <1>1, <1>2

(* What holds of the values of S.                                          *)
LEMMA ValueParts ==
  ASSUME NEW S, HoldsParts(S), NEW v \in S
  PROVE /\ Listed(v.payload) /\ Len(v.payload) \in Nat /\ DOMAIN v.payload = 1 .. Len(v.payload)
        /\ v.parts \in Seq(S) /\ v.bytes \in Nat
        /\ v.ty = "object" => Len(v.parts) = Len(v.payload)
<1>1. v.payload \in Seq(ToSet(v.payload)) /\ v.parts \in Seq(S) /\ v.bytes \in Nat
      /\ (v.ty = "object" => Len(v.parts) = Len(v.payload))
  BY Zenon DEF HoldsParts
<1>2. Listed(v.payload)
  BY <1>1 DEF Listed, Elements, ToSet
<1> QED
  BY <1>1, <1>2, ListedProperties

(* A regex is charged for what it may compare.                             *)
LEMMA RegexPaid ==
  ASSUME NEW S, HoldsParts(S), NEW cache, NEW flavor, NEW r \in S, NEW q \in S
  PROVE Paid(RegexCall(cache, flavor, r, q), S)
<1> DEFINE work == (Len(r.payload) + 1) * (Len(q.payload) + 1)
           found == <<flavor, q.payload>> \in cache
           before == <<<<BothTexts(r, q), "type">>>>
           after == <<<<found, "regex missing">>>>
           b == Occurs(q.payload, r.payload)
           done == IF found THEN work ELSE 0
<1>1. RegexCall(cache, flavor, r, q) = Call(before, work, after, Bool(b), done)
  BY DEF RegexCall
<1>2. work \in Nat
  <2>1. Len(r.payload) \in Nat /\ Len(q.payload) \in Nat
    BY ValueParts
  <2>2. \A x, y \in Nat : x * y \in Nat
    OBVIOUS
  <2>3. \A x \in Nat : x + 1 \in Nat
    OBVIOUS
  <2> QED
    BY <2>1, <2>2, <2>3, Zenon
<1>3. Listed(before) /\ Listed(after) /\ Extends(S, Bool(b))
  BY ListedTuples, PlainExtends
<1> HIDE DEF before, after, b, work, found
<1>4. done \in Nat /\ done <= work
  BY <1>2
<1> HIDE DEF done
<1>5. Paid(Call(before, work, after, Bool(b), done), S)
  BY <1>2, <1>3, <1>4, CallPaid
<1> QED
  BY <1>1, <1>5

(* A text in one case.                                                     *)
LEMMA TextPaid ==
  ASSUME NEW S, HoldsParts(S), NEW r \in S, NEW f, NEW limit,
         f = [k \in 1 .. Len(r.payload) |-> f[k]]
  PROVE Paid(Call(<<<<r.ty = "string", "type">>, <<Len(r.payload) <= limit, "string">>>>,
                  Len(r.payload), <<>>, Text(f), Len(r.payload)), S)
<1> DEFINE before == <<<<r.ty = "string", "type">>, <<Len(r.payload) <= limit, "string">>>>
           n == Len(r.payload)
           E == {f[k] : k \in 1 .. n}
<1>1. n \in Nat
  BY ValueParts
<1>2. Listed(before) /\ Listed(<<>>)
  BY ListedTuples
<1>3. f \in [1 .. n -> E]
  OBVIOUS
<1> HIDE DEF n, E, before
<1>4. f \in Seq(E)
  BY <1>1, <1>3, SeqDef
<1>5. Listed(f)
  BY <1>4, SequenceListed
<1>6. Extends(S, Text(f))
  BY <1>5, PlainExtends
<1>7. n <= n
  BY <1>1
<1>8. Paid(Call(before, n, <<>>, Text(f), n), S)
  BY <1>1, <1>2, <1>6, <1>7, CallPaid
<1> QED
  BY <1>8 DEF n, before

(* A change of case is charged for the text it makes.                      *)
LEMMA CasePaid ==
  ASSUME NEW S, HoldsParts(S), NEW r \in S, NEW limit
  PROVE Paid(CaseCall(Lower, r, limit), S) /\ Paid(CaseCall(Upper, r, limit), S)
<1> DEFINE n == Len(r.payload)
           lower == [k \in 1 .. n |-> Lower(r.payload[k])]
           upper == [k \in 1 .. n |-> Upper(r.payload[k])]
           call(f) == Call(<<<<r.ty = "string", "type">>, <<n <= limit, "string">>>>,
                           n, <<>>, Text(f), n)
<1>1. CaseCall(Lower, r, limit) = call(lower) /\ CaseCall(Upper, r, limit) = call(upper)
  BY Zenon DEF CaseCall
<1>2. lower = [k \in 1 .. n |-> lower[k]] /\ upper = [k \in 1 .. n |-> upper[k]]
  OBVIOUS
<1> HIDE DEF lower, upper
<1>3. Paid(call(lower), S) /\ Paid(call(upper), S)
  BY <1>2, TextPaid
<1> QED
  BY <1>1, <1>3

(* A handler that charges nothing makes a plain value.                     *)
LEMMA SimplePaid ==
  ASSUME NEW S, HoldsParts(S), NEW holds, NEW value, Extends(S, value)
  PROVE Paid(Simple(holds, value), S)
BY GivenPaid DEF Simple

(* The arguments are values of S.                                          *)
LEMMA GivenArguments ==
  ASSUME NEW S, NEW args \in Seq(S)
  PROVE /\ Len(args) \in Nat
        /\ Len(args) >= 1 => args[1] \in S
        /\ Len(args) >= 2 => args[2] \in S
OBVIOUS

(* So is every handler that a registration allows.                         *)
LEMMA HandlerPaid ==
  ASSUME NEW S, HoldsParts(S), NEW h, NEW args \in Seq(S), Callable(h, Len(args)),
         NEW ps, \A name \in DOMAIN ps : Texts(ps[name]), NEW cache, NEW limit
  PROVE Paid(HandlerCall(h, args, ps, cache, limit), S)
<1> DEFINE call == HandlerCall(h, args, ps, cache, limit)
<1>1. /\ Len(args) \in Nat
      /\ Len(args) >= 1 => args[1] \in S
      /\ Len(args) >= 2 => args[2] \in S
  BY GivenArguments
<1>2. h.work \in Nat /\ h.work <= h.work /\ h.does \in HandlerNames
  BY DEF Callable
<1>3. \A holds, b : Paid(Simple(holds, Bool(b)), S)
  BY SimplePaid, PlainExtends
<1>4. \A holds, n : Paid(Simple(holds, Integer(n)), S)
  BY SimplePaid, PlainExtends
<1>5. CASE h.does = "list"
  <2>1. call = Call(<<>>, h.work, <<>>, List(args), h.work)
    BY <1>5 DEF HandlerCall
  <2>2. Listed(<<>>) /\ Extends(S, List(args))
    BY ListedTuples, ListExtends
  <2>3. Paid(Call(<<>>, h.work, <<>>, List(args), h.work), S)
    BY <1>2, <2>2, CallPaid
  <2> QED
    BY <2>1, <2>3
<1>6. CASE h.does = "fail"
  <2> DEFINE after == <<<<FALSE, "handler">>>>
  <2>1. call = Call(<<>>, h.work, after, Failure, h.work)
    BY <1>6 DEF HandlerCall
  <2>2. Listed(<<>>) /\ Listed(after) /\ ~AllHold(after)
    BY ListedTuples, OneCheck
  <2> HIDE DEF after
  <2>3. Paid(Call(<<>>, h.work, after, Failure, h.work), S)
    BY <1>2, <2>2, CallPaid
  <2> QED
    BY <2>1, <2>3
<1>7. CASE h.does \in {"len", "contains", "contains_key", "starts_with", "ends_with"}
  <2>1. \/ \E holds, n : call = Simple(holds, Integer(n))
        \/ \E holds, b : call = Simple(holds, Bool(b))
    <3>1. CASE h.does = "len"
      BY <3>1 DEF HandlerCall
    <3>2. CASE h.does = "contains"
      BY <3>2 DEF HandlerCall, ContainsCall
    <3>3. CASE h.does = "contains_key"
      BY <3>3 DEF HandlerCall
    <3>4. CASE h.does = "starts_with"
      BY <3>4 DEF HandlerCall
    <3>5. CASE h.does = "ends_with"
      BY <3>5 DEF HandlerCall
    <3> QED
      BY <1>7, <3>1, <3>2, <3>3, <3>4, <3>5
  <2> QED
    BY <1>3, <1>4, <2>1
<1>8. CASE h.does \in {"lower_ascii", "upper_ascii"}
  <2>1. call \in {CaseCall(Lower, args[1], limit), CaseCall(Upper, args[1], limit)}
    <3>1. CASE h.does = "lower_ascii"
      BY <3>1 DEF HandlerCall, CaseCall
    <3>2. CASE h.does = "upper_ascii"
      BY <3>2 DEF HandlerCall, CaseCall
    <3> QED
      BY <1>8, <3>1, <3>2
  <2>2. args[1] \in S
    BY <1>1, <1>8 DEF Callable, Reads
  <2> QED
    BY <2>1, <2>2, CasePaid
<1>9. CASE h.does = "containsAny"
  <2>1. call = PatternSetCall(ps, args[1], args[2])
    BY <1>9 DEF HandlerCall
  <2>2. args[1] \in S /\ args[2] \in S
    BY <1>1, <1>9 DEF Callable, Reads
  <2> QED
    BY <2>1, <2>2, PatternSetPaid
<1>10. CASE h.does = "matches"
  <2>1. call = RegexCall(cache, h.flavor, args[1], args[2])
    BY <1>10 DEF HandlerCall
  <2>2. args[1] \in S /\ args[2] \in S
    BY <1>1, <1>10 DEF Callable, Reads
  <2> QED
    BY <2>1, <2>2, RegexPaid
<1> QED
  BY <1>2, <1>5, <1>6, <1>7, <1>8, <1>9, <1>10 DEF HandlerNames

(* Two sequences, one after the other.                                     *)
LEMMA ConcatListed ==
  ASSUME NEW s, Listed(s), NEW t, Listed(t)
  PROVE /\ Listed(s \o t)
        /\ DOMAIN s = 1 .. Len(s) /\ DOMAIN t = 1 .. Len(t) /\ DOMAIN (s \o t) = 1 .. Len(s) + Len(t)
        /\ Len(s) \in Nat /\ Len(t) \in Nat
        /\ \A i \in 1 .. Len(s) + Len(t) :
             (s \o t)[i] = IF i <= Len(s) THEN s[i] ELSE t[i - Len(s)]
<1> DEFINE E == Elements(s) \cup Elements(t)
<1>1. s \in Seq(E) /\ t \in Seq(E)
  <2>1. Elements(s) \subseteq E /\ Elements(t) \subseteq E
    OBVIOUS
  <2>2. s \in Seq(Elements(s)) /\ t \in Seq(Elements(t))
    BY DEF Listed
  <2> DEFINE A == Elements(s)
             B == Elements(t)
  <2> HIDE DEF E, A, B
  <2> QED
    BY <2>1, <2>2 DEF A, B
<1> HIDE DEF E
<1>2. /\ s \o t \in Seq(E)
      /\ Len(s \o t) = Len(s) + Len(t)
      /\ \A i \in 1 .. Len(s) + Len(t) :
           (s \o t)[i] = IF i <= Len(s) THEN s[i] ELSE t[i - Len(s)]
  BY <1>1, ConcatProperties
<1>3. Listed(s \o t)
  BY <1>2, SequenceListed
<1> QED
  BY <1>2, <1>3, ListedProperties

(* All checks hold when those of both parts do.                            *)
LEMMA AllHoldConcat ==
  ASSUME NEW s, Listed(s), NEW t, Listed(t)
  PROVE Listed(s \o t) /\ (AllHold(s \o t) <=> AllHold(s) /\ AllHold(t))
<1> DEFINE st == s \o t
           m == Len(s)
           n == Len(t)
<1>1. /\ Listed(st) /\ DOMAIN s = 1 .. m /\ DOMAIN t = 1 .. n /\ DOMAIN st = 1 .. m + n
      /\ m \in Nat /\ n \in Nat
      /\ \A i \in 1 .. m + n : st[i] = IF i <= m THEN s[i] ELSE t[i - m]
  BY ConcatListed
<1> HIDE DEF st, m, n
<1>2. ASSUME AllHold(st) PROVE AllHold(s) /\ AllHold(t)
  <2>1. ASSUME NEW i \in 1 .. m PROVE s[i][1]
    <3>1. i \in DOMAIN st /\ st[i] = s[i]
      BY <1>1
    <3>2. st[i][1]
      BY <1>2, <3>1 DEF AllHold
    <3> QED
      BY <3>1, <3>2
  <2>2. ASSUME NEW i \in 1 .. n PROVE t[i][1]
    <3>1. i + m \in DOMAIN st /\ st[i + m] = t[i]
      BY <1>1
    <3>2. st[i + m][1]
      BY <1>2, <3>1 DEF AllHold
    <3> QED
      BY <3>1, <3>2
  <2> QED
    BY <1>1, <2>1, <2>2 DEF AllHold
<1>3. ASSUME AllHold(s), AllHold(t) PROVE AllHold(st)
  <2> SUFFICES ASSUME NEW i \in 1 .. m + n PROVE st[i][1]
    BY <1>1 DEF AllHold
  <2>1. CASE i <= m
    <3>1. i \in DOMAIN s /\ st[i] = s[i]
      BY <1>1, <2>1
    <3>2. s[i][1]
      BY <1>3, <3>1 DEF AllHold
    <3> QED
      BY <3>1, <3>2
  <2>2. CASE ~(i <= m)
    <3>1. i - m \in DOMAIN t /\ st[i] = t[i - m]
      BY <1>1, <2>2
    <3>2. t[i - m][1]
      BY <1>3, <3>1 DEF AllHold
    <3> QED
      BY <3>1, <3>2
  <2> QED
    BY <2>1, <2>2
<1> QED
  BY <1>1, <1>2, <1>3 DEF st

-----------------------------------------------------------------------------
\* The operators built in.

(* The built-in operators.                                                 *)
LEMMA BuiltinPaid ==
  ASSUME NEW S, HoldsParts(S), NEW op, NEW args \in Seq(S), NEW limit,
         \/ Len(args) = 1 /\ op \in {"!", "-"}
         \/ Len(args) = 2 /\ op \in BuiltinNames
  PROVE Paid(BuiltinCall(op, args, limit), S)
<1> DEFINE checks == BuiltinChecks(op, args, limit)
           value == IF AllHold(checks) THEN Builtin(op, args) ELSE Failure
<1>1. Listed(checks)
  <2>1. \A v : Listed(UnaryChecks(op, v))
    BY ListedTuples, Zenon DEF UnaryChecks
  <2>2. \A a, b : Listed(ArithmeticChecks(op, a, b, limit))
    <3> SUFFICES ASSUME NEW a, NEW b PROVE Listed(ArithmeticChecks(op, a, b, limit))
      OBVIOUS
    <3>1. \E c, d : ArithmeticChecks(op, a, b, limit) = <<c, d>>
      BY Zenon DEF ArithmeticChecks
    <3> QED
      BY <3>1, ListedTuples
  <2>3. \A a, b : Listed(BinaryChecks(op, a, b, limit))
    BY <2>2, ListedTuples, Zenon DEF BinaryChecks
  <2> QED
    BY <2>1, <2>3, Zenon DEF BuiltinChecks
<1>2. Extends(S, Builtin(op, args))
  <2>1. CASE Len(args) = 1 /\ op \in {"!", "-"}
    <3>1. Builtin(op, args) = UnaryResult(op, args[1])
      BY <2>1 DEF Builtin
    <3>2. (\E b : UnaryResult(op, args[1]) = Bool(b)) \/ \E ty, n : UnaryResult(op, args[1]) = Scalar(ty, <<>>, n)
      BY <2>1, Zenon DEF UnaryResult
    <3> QED
      BY <3>1, <3>2, PlainExtends
  <2>2. CASE Len(args) = 2 /\ op \in BuiltinNames
    <3> DEFINE a == args[1]
               b == args[2]
    <3>1. Builtin(op, args) = BinaryResult(op, a, b)
      BY <2>2 DEF Builtin
    <3>2. a \in S /\ b \in S
      BY <2>2, GivenArguments
    <3> HIDE DEF a, b
    <3>3. Listed(a.payload \o b.payload)
      BY <3>2, ValueParts, ConcatListed
    <3>4. \/ \E x : BinaryResult(op, a, b) = Bool(x)
          \/ BinaryResult(op, a, b) = Text(a.payload \o b.payload)
          \/ \E n : BinaryResult(op, a, b) \in {Integer(n), Float(n)}
      <4>1. CASE op = "=="
        BY <4>1, Zenon DEF BinaryResult, Comparison, Arithmetic
      <4>2. CASE op = "!="
        BY <4>2, Zenon DEF BinaryResult, Comparison, Arithmetic
      <4>3. CASE op \in Comparison
        BY <4>3, Zenon DEF BinaryResult, Comparison, Arithmetic
      <4>4. CASE op \in Arithmetic
        <5>1. BinaryResult(op, a, b) = ArithmeticResult(op, a, b)
          BY <4>4, Zenon DEF BinaryResult, Comparison, Arithmetic
        <5>2. \/ ArithmeticResult(op, a, b) = Text(a.payload \o b.payload)
              \/ \E n : ArithmeticResult(op, a, b) \in {Integer(n), Float(n)}
          BY Zenon DEF ArithmeticResult
        <5> QED
          BY <5>1, <5>2
      <4> QED
        BY <2>2, <4>1, <4>2, <4>3, <4>4, Zenon DEF BuiltinNames
    <3> QED
      BY <3>1, <3>3, <3>4, PlainExtends
  <2> QED
    BY <2>1, <2>2
<1>3. Listed(<<>>) /\ (AllHold(checks) => Extends(S, value))
  BY <1>2, ListedTuples
<1>4. BuiltinCall(op, args, limit) = Call(checks, 0, <<>>, value, 0)
  BY Zenon DEF BuiltinCall
<1> HIDE DEF checks, value
<1>5. Paid(Call(checks, 0, <<>>, value, 0), S)
  BY <1>1, <1>3, CallPaid
<1> QED
  BY <1>4, <1>5

(* A member of an object is one of its parts.                              *)
LEMMA MemberPaid ==
  ASSUME NEW S, HoldsParts(S), NEW object \in S, NEW name
  PROVE Paid(MemberCall(object, name), S)
<1> DEFINE holds == object.ty = "object" /\ name \in ToSet(object.payload)
           at == IndexIn(object.payload, name)
<1>1. ASSUME holds PROVE Extends(S, object.parts[at])
  <2>1. \E k \in DOMAIN object.payload : object.payload[k] = name
    BY <1>1 DEF ToSet
  <2>2. at \in DOMAIN object.payload
    BY <2>1, Zenon DEF IndexIn
  <2>3. at \in 1 .. Len(object.parts) /\ object.parts \in Seq(S)
    BY <1>1, <2>2, ValueParts
  <2> HIDE DEF at
  <2>4. object.parts[at] \in S
    BY <2>3
  <2> QED
    BY <2>4, ElementsExtend
<1> HIDE DEF holds, at
<1>2. Paid(Given(holds, "no member", object.parts[at]), S)
  BY <1>1, GivenPaid
<1> QED
  BY <1>2 DEF MemberCall, holds, at

(* A paid call that is concluded is charged within the total.              *)
LEMMA ConcludeCharges ==
  ASSUME NEW made, NEW S, Paid(made, S), Conclude(made)
  PROVE Charges(made)
<1> DEFINE value == made.value
           one == <<<<processed + made.work <= limits.total, "work">>>>
           charging == made.before \o one
           c == Charged(value, made.work) <= limits.total
           last == <<<<value.longest <= limits.string, "string">>,
                     <<value.bytes <= limits.value, "value">>,
                     <<c, "total">>>>
           checks == charging \o made.after \o last
           good == AllHold(checks)
           paid == AllHold(charging)
<1>1. /\ IF good THEN Return(value) /\ UNCHANGED <<inputs, locals>>
         ELSE Stop(FirstFailure(checks))
      /\ processed' = IF good THEN Charged(value, made.work)
                      ELSE IF paid THEN processed + made.work ELSE processed
      /\ history'.worked = history.worked + (IF paid THEN made.done ELSE 0)
  <2>1. \E r, l, d : history' = [spent |-> history.spent,
              worked |-> history.worked + (IF paid THEN made.done ELSE 0),
              read |-> r, looked |-> l, dispatched |-> d]
    BY Zenon DEF Conclude
  <2>2. history'.worked = history.worked + (IF paid THEN made.done ELSE 0)
    <3> HIDE DEF paid
    <3> QED
      BY <2>1
  <2>3. IF good THEN Return(value) /\ UNCHANGED <<inputs, locals>>
        ELSE Stop(FirstFailure(checks))
    BY Zenon DEF Conclude
  <2>4. processed' = IF good THEN Charged(value, made.work)
                      ELSE IF paid THEN processed + made.work ELSE processed
    BY Zenon DEF Conclude
  <2> QED
    BY <2>2, <2>3, <2>4
<1>2. Listed(made.before) /\ Listed(made.after)
  BY DEF Paid
<1>3. Listed(one) /\ Listed(last) /\ (AllHold(one) <=> processed + made.work <= limits.total)
      /\ (AllHold(last) => c)
  <2>1. Listed(one) /\ Listed(last)
    BY ListedTuples
  <2>2. AllHold(one) <=> processed + made.work <= limits.total
    <3> DEFINE o == processed + made.work <= limits.total
    <3> HIDE DEF o
    <3>1. AllHold(<<<<o, "work">>>>) <=> o
      BY OneCheck
    <3> QED
      BY <3>1 DEF o
  <2> DEFINE a == value.longest <= limits.string
             b == value.bytes <= limits.value
  <2> HIDE DEF a, b, c
  <2>3. AllHold(last) <=> a /\ b /\ c
    <3>1. AllHold(<<<<a, "string">>, <<b, "value">>, <<c, "total">>>>) <=> a /\ b /\ c
      BY ChecksTriple
    <3> QED
      BY <3>1 DEF a, b, c
  <2> QED
    BY <2>1, <2>2, <2>3
<1> HIDE DEF one, last, c
<1>4. Listed(charging) /\ (paid <=> AllHold(made.before) /\ processed + made.work <= limits.total)
  BY <1>2, <1>3, AllHoldConcat
<1> HIDE DEF charging
<1>5. Listed(charging \o made.after)
      /\ (AllHold(charging \o made.after) <=> paid /\ AllHold(made.after))
  BY <1>2, <1>4, AllHoldConcat
<1>6. good => paid /\ AllHold(made.after) /\ c
  <2> DEFINE most == charging \o made.after
  <2>1. Listed(most) /\ (AllHold(most) => paid /\ AllHold(made.after))
    BY <1>5
  <2> HIDE DEF most
  <2>2. AllHold(most \o last) <=> AllHold(most) /\ AllHold(last)
    BY <1>3, <2>1, AllHoldConcat
  <2> QED
    BY <1>3, <2>1, <2>2 DEF most
<1> HIDE DEF good, paid
<1>7. CASE good
  <2>1. Return(value) /\ UNCHANGED <<inputs, locals>> /\ processed' = Charged(value, made.work)
        /\ AllHold(made.before) /\ AllHold(made.after)
    BY <1>1, <1>4, <1>6, <1>7
  <2>2. processed' = processed + made.work + value.bytes /\ processed' <= limits.total
    BY <1>6, <1>7, <2>1 DEF Charged, c
  <2>3. history'.worked = history.worked + made.done
    BY <1>1, <1>6, <1>7
  <2> QED
    BY <2>1, <2>2, <2>3, Zenon DEF Charges
<1>8. CASE ~good
  <2>1. Stop(FirstFailure(checks))
    BY <1>1, <1>8
  <2>2. CASE paid
    <3>1. processed' = processed + made.work /\ processed' <= limits.total
          /\ history'.worked = history.worked + made.done
      BY <1>1, <1>4, <1>8, <2>2
    <3> QED
      BY <2>1, <3>1, Zenon DEF Charges
  <2>3. CASE ~paid
    <3>1. processed' = processed /\ history'.worked = history.worked + 0
      BY <1>1, <1>8, <2>3
    <3> QED
      BY <2>1, <3>1, Zenon DEF Charges
  <2> QED
    BY <2>2, <2>3
<1> QED
  BY <1>7, <1>8

-----------------------------------------------------------------------------
\* What locals are found by.

(* The parameters of a node.                                               *)
LEMMA ProgramParams ==
  ASSUME NEW p, IsProgram(p), NEW i \in DOMAIN p.kind
  PROVE Len(p.params[i]) \in Nat /\ DOMAIN p.params[i] = 1 .. Len(p.params[i])
<1>1. p.params[i] \in Seq(STRING)
  BY Zenon DEF IsProgram
<1> DEFINE s == p.params[i]
<1> HIDE DEF s
<1>2. s \in Seq(STRING)
  BY <1>1 DEF s
<1>3. Len(s) \in Nat /\ DOMAIN s = 1 .. Len(s)
  BY <1>2
<1> QED
  BY <1>3 DEF s

(* Calls of the same nodes have the same arities.                          *)
LEMMA AritiesKept ==
  ASSUME NEW p, NEW fs, NEW gs, Arities(p, fs),
         \A k \in DOMAIN gs : k \in DOMAIN fs /\ gs[k].node = fs[k].node
  PROVE Arities(p, gs)
BY Zenon DEF Arities

(* The calls that are left are calls of the same nodes.                    *)
LEMMA AnswerNodes ==
  ASSUME NEW fs, Listed(fs), fs # <<>>, NEW gs, NEW v, Answers(fs, gs, v)
  PROVE \A k \in DOMAIN gs : k \in DOMAIN fs /\ gs[k].node = fs[k].node
<1> DEFINE n == Len(fs)
<1>1. n \in Nat /\ n > 0 /\ DOMAIN fs = 1 .. n
  BY ListedProperties
<1>2. DOMAIN gs = 1 .. n - 1
  BY ListedProperties DEF Answers
<1>3. /\ \A k \in 1 .. n - 2 : gs[k] = fs[k]
      /\ n > 1 => gs[n - 1] = [node |-> fs[n - 1].node,
                               vals |-> Append(fs[n - 1].vals, v),
                               bound |-> fs[n - 1].bound]
  BY DEF Answers
<1>4. n > 1 => gs[n - 1].node = fs[n - 1].node
  BY <1>3
<1> HIDE DEF n
<1> SUFFICES ASSUME NEW k \in 1 .. n - 1 PROVE k \in 1 .. n /\ gs[k].node = fs[k].node
  BY <1>1, <1>2
<1>5. CASE k = n - 1
  BY <1>1, <1>4, <1>5
<1>6. CASE k # n - 1
  <2>1. k \in 1 .. n - 2 /\ k \in 1 .. n
    BY <1>1, <1>6
  <2> QED
    BY <1>3, <2>1
<1> QED
  BY <1>5, <1>6

(* Binding leaves the nodes of the calls as they are.                      *)
LEMMA BindNodes ==
  ASSUME NEW fs, Listed(fs), fs # <<>>, NEW gs, Binds(fs, gs)
  PROVE \A k \in DOMAIN gs : k \in DOMAIN fs /\ gs[k].node = fs[k].node
<1> DEFINE n == Len(fs)
<1>1. n \in Nat /\ n > 0 /\ DOMAIN fs = 1 .. n
  BY ListedProperties
<1>2. DOMAIN gs = 1 .. n
  BY ListedProperties DEF Binds
<1>3. /\ \A k \in 1 .. n - 1 : gs[k] = fs[k]
      /\ gs[n].node = fs[n].node
  BY DEF Binds
<1> HIDE DEF n
<1> QED
  BY <1>1, <1>2, <1>3

(* New locals have a value for each parameter.                             *)
LEMMA ScopedAppend ==
  ASSUME NEW p, NEW ls, Listed(ls), Scoped(p, ls), NEW e,
         e.node \in DOMAIN p.kind, Len(e.vals) = Len(p.params[e.node])
  PROVE Scoped(p, Append(ls, e))
<1> DEFINE ms == Append(ls, e)
           n == Len(ls)
<1>1. n \in Nat /\ DOMAIN ls = 1 .. n
  BY ListedProperties
<1>2. /\ Listed(ms) /\ Len(ms) = n + 1 /\ \A k \in DOMAIN ls : ms[k] = ls[k]
      /\ ms[n + 1] = e
  BY AppendListed
<1> HIDE DEF ms
<1>3. DOMAIN ms = 1 .. n + 1
  BY <1>2, ListedProperties
<1> HIDE DEF n
<1> SUFFICES ASSUME NEW k \in 1 .. n + 1
             PROVE ms[k].node \in DOMAIN p.kind /\ Len(ms[k].vals) = Len(p.params[ms[k].node])
  BY <1>3 DEF Scoped, ms
<1>4. CASE k = n + 1
  BY <1>2, <1>4
<1>5. CASE k # n + 1
  <2>1. k \in DOMAIN ls
    BY <1>1, <1>5
  <2> QED
    BY <1>2, <2>1 DEF Scoped
<1> QED
  BY <1>4, <1>5

(* The locals that are left are in scope still.                            *)
LEMMA ScopedFront ==
  ASSUME NEW p, NEW ls, Listed(ls), ls # <<>>, Scoped(p, ls)
  PROVE Scoped(p, SubSeq(ls, 1, Len(ls) - 1))
<1> DEFINE t == SubSeq(ls, 1, Len(ls) - 1)
           n == Len(ls)
<1>1. n \in Nat /\ DOMAIN ls = 1 .. n
  BY ListedProperties
<1>2. Listed(t) /\ Len(t) = n - 1 /\ \A k \in 1 .. n - 1 : t[k] = ls[k]
  BY FrontListed
<1> HIDE DEF t
<1>3. DOMAIN t = 1 .. n - 1
  BY <1>2, ListedProperties
<1> HIDE DEF n
<1>4. \A k \in 1 .. n - 1 : k \in DOMAIN ls
  BY <1>1
<1> QED
  BY <1>2, <1>3, <1>4, Zenon DEF Scoped, t

(* No calls and no locals.                                                 *)
LEMMA ScopeEmpty ==
  ASSUME NEW p, NEW fs, NEW ls
  PROVE (fs = <<>> => Arities(p, fs)) /\ (ls = <<>> => Scoped(p, ls))
<1>1. DOMAIN <<>> = {}
  OBVIOUS
<1> QED
  BY <1>1 DEF Arities, Scoped

(* A function with a bound frame has locals.                               *)
LEMMA LocalsThere ==
  ASSUME CallsInv, frames # <<>>, Top.bound
  PROVE locals # <<>>
<1>1. Listed(frames) /\ Listed(locals) /\ Follow(locals, frames)
  BY DEF CallsInv, FramesInv, LocalsFollowCalls, AllCalled
<1>2. Len(frames) \in DOMAIN frames
  BY <1>1, ListedProperties
<1>3. Len(frames) \in Bound(frames)
  BY <1>2 DEF Bound, Top
<1> QED
  BY <1>1, <1>3 DEF Follow

(* A call of an expression function that begins has its arguments.         *)
LEMMA EnterArity ==
  ASSUME NEW i, AllHold(EntryChecks(i))
  PROVE FunctionNode(program, i) => Len(program.params[i]) + 1 = Len(program.kids[i])
<1> DEFINE kind == program.kind[i]
           arity == Len(program.params[i])
           c == <<kind = "expression function" => arity + 1 = Len(program.kids[i]), "arity">>
<1>1. \E a, b, d, e : EntryChecks(i) = <<a, b, d, e, c>>
  BY Zenon DEF EntryChecks
<1>2. PICK a, b, d, e : EntryChecks(i) = <<a, b, d, e, c>>
  BY <1>1
<1>3. c[1] => (kind = "expression function" => arity + 1 = Len(program.kids[i]))
  OBVIOUS
<1> HIDE DEF c
<1>4. 5 \in DOMAIN <<a, b, d, e, c>> /\ <<a, b, d, e, c>>[5] = c
  OBVIOUS
<1>5. c[1]
  BY <1>2, <1>4 DEF AllHold
<1> QED
  BY <1>3, <1>5 DEF FunctionNode

(* A step finds locals where it looks for them.                            *)
LEMMA ScopeStep ==
  ASSUME ScopeInv, [Next]_vars
  PROVE ScopeInv'
<1> DEFINE p == program
           fs == frames
           gs == frames'
<1>1. PathInv'
  BY PathStep DEF ScopeInv
<1>2. program' = p
  <2>1. request' = request
    BY Zenon DEF Next, vars, Prepare, Analyze, Verify, EnterRoot, EnterOperand, Enter, Stop, Bind,
       LeaveFunction, ReturnLiteral, ReturnIdentifier, ReturnArray, ReturnMember, ReturnCall,
       ReturnOperator, ReturnLogical, Conclude, inputs
  <2> QED
    BY <2>1 DEF program
<1>3. /\ PathOf(p, fs) /\ IsProgram(p) /\ AllCalled(fs) /\ CallsInv
      /\ Listed(fs) /\ Listed(locals) /\ Arities(p, fs) /\ Scoped(p, locals)
  BY ProgramAssumption, Zenon DEF ScopeInv, PathInv, program, CallsInv, FramesInv, AllCalled
<1> SUFFICES Arities(p, gs) /\ Scoped(p, locals')
  BY <1>1, <1>2 DEF ScopeInv
<1> HIDE DEF p
<1>4. CASE Prepare \/ Analyze \/ Verify \/ UNCHANGED vars
  <2>1. gs = fs /\ locals' = locals
    BY <1>4, Zenon DEF Prepare, Analyze, Verify, vars, idle
  <2> QED
    BY <1>3, <2>1
<1>5. ASSUME NEW reason, Stop(reason) PROVE Arities(p, gs) /\ Scoped(p, locals')
  BY <1>5, ScopeEmpty DEF Stop
<1>6. ASSUME NEW v, Return(v), fs # <<>> PROVE Arities(p, gs)
  <2>1. Answers(fs, gs, v)
    BY <1>3, <1>6, ReturnAnswers
  <2> HIDE DEF fs, gs
  <2>2. \A k \in DOMAIN gs : k \in DOMAIN fs /\ gs[k].node = fs[k].node
    BY <1>3, <1>6, <2>1, AnswerNodes
  <2> QED
    BY <1>3, <2>2, AritiesKept
<1>7. CASE EnterRoot \/ EnterOperand
  <2>1. PICK i : Enter(i)
    BY <1>7, Zenon DEF EnterRoot, EnterOperand
  <2>2. CASE AllHold(EntryChecks(i))
    <3> DEFINE new == [node |-> i, vals |-> <<>>, bound |-> FALSE]
               n == Len(fs)
    <3>1. gs = Append(fs, new) /\ locals' = locals
      BY <2>1, <2>2, Zenon DEF Enter
    <3>2. /\ Listed(gs) /\ Len(gs) = n + 1 /\ \A k \in DOMAIN fs : gs[k] = fs[k]
          /\ gs[n + 1] = new
      BY <1>3, <3>1, AppendListed
    <3>3. new.node = i
      OBVIOUS
    <3>4. DOMAIN fs = 1 .. n /\ n \in Nat /\ DOMAIN gs = 1 .. n + 1
      BY <1>3, <3>2, ListedProperties
    <3>5. FunctionNode(p, i) => Len(p.params[i]) + 1 = Len(p.kids[i])
      BY <2>2, EnterArity DEF p
    <3> HIDE DEF new, gs, fs, n
    <3>6. Arities(p, gs)
      <4> SUFFICES ASSUME NEW k \in 1 .. n + 1, FunctionNode(p, gs[k].node)
                   PROVE Len(p.params[gs[k].node]) + 1 = Len(p.kids[gs[k].node])
        BY <3>4 DEF Arities
      <4>1. CASE k = n + 1
        BY <3>2, <3>3, <3>5, <4>1
      <4>2. CASE k # n + 1
        <5>1. k \in DOMAIN fs
          BY <3>4, <4>2
        <5> QED
          BY <1>3, <3>2, <5>1 DEF Arities
      <4> QED
        BY <4>1, <4>2
    <3> QED
      BY <1>3, <3>1, <3>6
  <2>3. CASE ~AllHold(EntryChecks(i))
    BY <1>5, <2>1, <2>3, Zenon DEF Enter
  <2> QED
    BY <2>2, <2>3
<1>8. CASE Bind
  <2> DEFINE new == [node |-> Node, vals |-> Vals]
  <2>1. fs # <<>> /\ Unbound /\ locals' = Append(locals, new) /\ Binds(fs, gs)
    <3>1. fs # <<>> /\ Unbound /\ locals' = Append(locals, new)
      BY <1>8, Zenon DEF Bind
    <3> QED
      BY <1>3, <1>8, <3>1, BindBinds
  <2>2. new.node = Node /\ new.vals = Vals
    OBVIOUS
  <2>3. Node \in DOMAIN p.kind /\ Len(fs) \in DOMAIN fs
    BY <2>1, TopPlaced DEF ScopeInv, Nodes, p
  <2>4. FunctionNode(p, Node) /\ Len(Vals) = Len(p.kids[Node]) - 1
    BY <2>1, Zenon DEF Unbound, IsFunction, Kind, FunctionNode, Operands, p
  <2>5. Len(p.params[Node]) + 1 = Len(p.kids[Node])
    BY <1>3, <2>3, <2>4 DEF Arities, Node, Top
  <2>6. Len(p.params[Node]) \in Nat
    BY <1>3, <2>3, ProgramParams
  <2>7. Len(Vals) = Len(p.params[Node])
    BY <2>4, <2>5, <2>6
  <2> HIDE DEF new, fs, gs
  <2>8. Scoped(p, Append(locals, new))
    BY <1>3, <2>2, <2>3, <2>7, ScopedAppend
  <2>9. \A k \in DOMAIN gs : k \in DOMAIN fs /\ gs[k].node = fs[k].node
    BY <1>3, <2>1, BindNodes
  <2> QED
    BY <1>3, <2>1, <2>8, <2>9, AritiesKept
<1>9. CASE LeaveFunction
  <2>1. /\ fs # <<>> /\ Top.bound /\ Return(Vals[1])
        /\ locals' = SubSeq(locals, 1, Len(locals) - 1)
    BY <1>9, Zenon DEF LeaveFunction
  <2>2. locals # <<>>
    BY <1>3, <2>1, LocalsThere
  <2> QED
    BY <1>3, <1>6, <2>1, <2>2, ScopedFront
<1>10. CASE Conclusion
  <2>1. PICK made : Ready /\ Conclude(made)
    BY <1>10, ConclusionConcludes
  <2>2. fs # <<>>
    BY <2>1 DEF Ready
  <2> QED
    BY <1>3, <1>5, <1>6, <2>1, <2>2, ConcludeOutcome
<1> QED
  BY <1>4, <1>7, <1>8, <1>9, <1>10 DEF Next, Conclusion

(* There are no locals at first.                                           *)
LEMMA ScopeInit == Init => ScopeInv
BY PathInit, ScopeEmpty DEF Init, ScopeInv

-----------------------------------------------------------------------------
\* Every conclusion is paid for.

(* A set of numbers up to n has a least and a greatest one.                *)
LEMMA ExtremeNumbers ==
  ASSUME NEW n \in Nat, NEW A \in SUBSET (1 .. n), A # {}
  PROVE Max(A) \in A /\ Min(A) \in A /\ \A x \in A : x <= Max(A)
<1>1. \E x \in A : \A y \in A : x <= y
  <2>1. A \in SUBSET Nat
    OBVIOUS
  <2> QED
    BY <2>1, LeastNatural
<1>2. \E x \in A : \A y \in A : x >= y
  <2> DEFINE B == {z \in 0 .. n : n - z \in A}
  <2>1. B \in SUBSET Nat /\ B # {}
    <3>1. PICK x \in A : TRUE
      OBVIOUS
    <3>2. n - x \in 0 .. n /\ n - (n - x) = x
      OBVIOUS
    <3>3. n - x \in B
      BY <3>2
    <3>4. B \subseteq Nat
      OBVIOUS
    <3> HIDE DEF B
    <3> QED
      BY <3>3, <3>4
  <2> HIDE DEF B
  <2>2. PICK b \in B : \A c \in B : b <= c
    BY <2>1, LeastNatural
  <2>3. b \in 0 .. n /\ n - b \in A
    BY <2>2 DEF B
  <2>4. ASSUME NEW y \in A PROVE n - b >= y
    <3>1. n - y \in 0 .. n /\ n - (n - y) = y
      OBVIOUS
    <3>2. n - y \in B
      BY <3>1 DEF B
    <3>3. b <= n - y
      BY <2>2, <3>2
    <3> QED
      BY <2>3, <3>1, <3>3
  <2> QED
    BY <2>3, <2>4
<1> QED
  BY <1>1, <1>2 DEF Max, Min

(* The handler that a ticket finds is registered for it.                   *)
LEMMA EntryFound ==
  ASSUME request \in Requests, NEW t, Registered(t) # {}
  PROVE Entry(t) \in ToSet(context.registry) /\ Entry(t).ticket = t
<1> DEFINE reg == context.registry
           R == Registered(t)
           k == IF IsOperator(t) THEN Max(R) ELSE Min(R)
<1>1. reg \in Seq(ToSet(reg))
  BY ContextAssumption, Zenon DEF context
<1>2. R = {j \in DOMAIN reg : reg[j].ticket = t}
  BY DEF Registered
<1> HIDE DEF R
<1>3. k \in R
  <2>1. Len(reg) \in Nat /\ DOMAIN reg = 1 .. Len(reg)
    <3> DEFINE E == ToSet(reg)
    <3>1. reg \in Seq(E)
      BY <1>1
    <3> HIDE DEF E, reg
    <3> QED
      BY <3>1
  <2>2. R \in SUBSET (1 .. Len(reg)) /\ R # {}
    BY <1>2, <2>1 DEF R
  <2> HIDE DEF reg
  <2> QED
    BY <2>1, <2>2, ExtremeNumbers
<1>4. Entry(t) = reg[k]
  BY Zenon DEF Entry, R
<1> HIDE DEF k, reg
<1> QED
  BY <1>2, <1>3, <1>4 DEF ToSet, reg

(* The operands of a node that is ready.                                   *)
LEMMA ReadyOperands ==
  ASSUME PathInv, NEW S, Owned(S), Ready
  PROVE /\ Node \in Nodes /\ IsProgram(program) /\ Called(Top)
        /\ Vals \in Seq(S) /\ Len(Vals) \in Nat
        /\ Len(Operands) \in OperandsOf(Kind)
        /\ ~IsLogical => Len(Vals) = Len(Operands)
        /\ IsLogical => Len(Vals) >= 1
<1> DEFINE n == Len(Operands)
           l == Len(Vals)
<1>1. Running /\ frames # <<>> /\ ~NeedsOperand /\ ~IsFunction
  BY DEF Ready
<1>2. /\ IsProgram(program) /\ Placed(program, Top) /\ Called(Top)
      /\ Len(frames) \in DOMAIN frames /\ Node \in Nodes
  BY <1>1, TopPlaced
<1>3. Vals \in Seq(S)
  BY <1>2 DEF Owned, Holding, Vals, Top
<1>4. ~FunctionNode(program, Node)
  BY <1>1 DEF IsFunction, Kind, FunctionNode
<1>5. /\ n \in Nat /\ n \in OperandsOf(Kind) /\ ArgumentsOf(program, Node) = n
  BY <1>2, <1>4, ProgramOperands DEF Nodes, Operands, Kind
<1>6. l <= n
  BY <1>2, <1>4, <1>5 DEF Placed, Node, Vals
<1>7. ~(l < n) \/ LeftDecides
  BY <1>1, Zenon DEF NeedsOperand
<1>8. LeftDecides => IsLogical /\ l = 1
  BY Zenon DEF LeftDecides
<1>9. IsLogical => n = 2
  BY <1>5 DEF IsLogical, OperandsOf
<1>10. l \in Nat
  BY <1>3
<1> HIDE DEF n, l
<1>11. (~IsLogical => l = n) /\ (IsLogical => l >= 1)
  BY <1>5, <1>6, <1>7, <1>8, <1>9, <1>10
<1> QED
  BY <1>2, <1>3, <1>5, <1>10, <1>11 DEF n, l

(* The ticket of a call or an operator tells its kind and its arity.       *)
LEMMA TicketParts ==
  ASSUME Node \in Nodes
  PROVE /\ Kind \in {"function", "method", "unary", "binary"} => Ticket(Node)[1] = Kind
        /\ Ticket(Node)[2] = program.name[Node]
        /\ Kind = "method" => Ticket(Node)[3] = Len(Operands) - 1
<1> DEFINE a == IF Kind \in {"and", "or"} THEN "binary" ELSE Kind
           b == program.name[Node]
           c == Len(Operands) - (IF Kind = "method" THEN 1 ELSE 0)
<1>1. Ticket(Node) = <<a, b, c>>
  BY Zenon DEF Ticket, Receivers, Kind, Operands
<1>2. Kind \in {"function", "method", "unary", "binary"} => a = Kind
  OBVIOUS
<1>3. Kind = "method" => c = Len(Operands) - 1
  OBVIOUS
<1> HIDE DEF a, b, c
<1>4. Ticket(Node)[1] = a /\ Ticket(Node)[2] = b /\ Ticket(Node)[3] = c
  BY <1>1
<1> QED
  BY <1>2, <1>3, <1>4 DEF b

(* The handler a node finds can be called with its operands.               *)
LEMMA HandledPaid ==
  ASSUME PathInv, NEW S, Owned(S), SetsFit(sets), Ready,
         Kind \in {"function", "method", "unary", "binary"}, Registered(Ticket(Node)) # {}
  PROVE Paid(Handled(Ticket(Node), Vals), S)
<1> DEFINE t == Ticket(Node)
           e == Entry(t)
           h == e.handler
<1>1. request \in Requests
  BY DEF PathInv
<1>2. e \in ToSet(context.registry) /\ e.ticket = t
  BY <1>1, EntryFound
<1>3. /\ Node \in Nodes /\ Vals \in Seq(S) /\ Len(Vals) \in Nat
      /\ Len(Operands) \in OperandsOf(Kind)
      /\ ~IsLogical => Len(Vals) = Len(Operands)
  BY ReadyOperands
<1>4. ~IsLogical
  BY DEF IsLogical
<1>5. /\ t[1] = Kind
      /\ Kind = "method" => t[3] = Len(Operands) - 1
  BY <1>3, TicketParts
<1> HIDE DEF t
<1>6. /\ h.does \in HandlerNames /\ h.work \in Nat
      /\ Reads(h.does) => e.ticket[1] = "method"
      /\ h.does \in {"containsAny", "matches"} => e.ticket[3] = 1
  <2> HIDE DEF e
  <2> QED
    BY <1>1, <1>2, ContextAssumption, Zenon DEF context
<1> HIDE DEF h, e
<1>7. Callable(h, Len(Vals))
  <2> DEFINE l == Len(Vals)
             n == Len(Operands)
  <2>1. Reads(h.does) => Kind = "method"
    BY <1>2, <1>5, <1>6
  <2>2. Kind = "method" => n # 0
    BY <1>3 DEF OperandsOf
  <2>3. h.does \in {"containsAny", "matches"} => Kind = "method" /\ n - 1 = 1
    <3>1. h.does \in {"containsAny", "matches"} => Reads(h.does)
      BY DEF Reads
    <3> QED
      BY <1>2, <1>5, <1>6, <2>1, <3>1
  <2>4. l \in Nat /\ l = n
    BY <1>3, <1>4
  <2> HIDE DEF l, n
  <2>5. /\ Reads(h.does) => l >= 1
        /\ h.does \in {"containsAny", "matches"} => l >= 2
    BY <2>1, <2>2, <2>3, <2>4
  <2> QED
    BY <1>6, <2>5 DEF Callable, l
<1>8. Paid(HandlerCall(h, Vals, sets, verified.cache, limits.string), S)
  BY <1>3, <1>7, HandlerPaid DEF Owned, SetsFit
<1> QED
  BY <1>8, Zenon DEF Handled, h, e, t

(* A call finds its handler.                                               *)
LEMMA CallFound ==
  ASSUME DispatchInv, Running, Called(Top), Node \in Nodes, Kind \in {"function", "method"}
  PROVE Registered(Ticket(Node)) # {}
<1> DEFINE t == Ticket(Node)
<1>1. Node \in verified.tickets
  BY DEF Called, Dispatches, Dispatching, Kind, Node
<1>2. t \in DOMAIN verified.required
  BY <1>1 DEF DispatchInv, Sound
<1>3. t[1] = Kind
  BY TicketParts
<1> HIDE DEF t
<1>4. ~IsOperator(t)
  BY <1>3 DEF IsOperator
<1>5. IsOperator(t) \/ Registered(t) # {}
  BY <1>2 DEF DispatchInv, Verified
<1> QED
  BY <1>4, <1>5 DEF t

(* An operator, built in or registered.                                    *)
LEMMA OperatorPaid ==
  ASSUME PathInv, NEW S, Owned(S), SetsFit(sets), Ready, Kind \in {"unary", "binary"}
  PROVE Paid(OperatorCall(Ticket(Node), Vals), S)
<1> DEFINE t == Ticket(Node)
<1>1. CASE Registered(t) # {}
  <2>1. OperatorCall(t, Vals) = Handled(t, Vals)
    BY <1>1, Zenon DEF OperatorCall
  <2>2. Paid(Handled(t, Vals), S)
    BY <1>1, HandledPaid
  <2> QED
    BY <2>1, <2>2
<1>2. CASE ~(Registered(t) # {})
  <2> DEFINE op == t[2]
  <2>1. OperatorCall(t, Vals) = BuiltinCall(op, Vals, limits.string)
    BY <1>2, Zenon DEF OperatorCall
  <2>2. /\ Node \in Nodes /\ Vals \in Seq(S) /\ Len(Vals) \in Nat /\ IsProgram(program)
        /\ Len(Operands) \in OperandsOf(Kind)
        /\ ~IsLogical => Len(Vals) = Len(Operands)
    BY ReadyOperands
  <2>3. ~IsLogical
    BY DEF IsLogical
  <2>4. op = program.name[Node]
    BY <2>2, TicketParts
  <2>5. /\ Kind = "unary" => program.name[Node] \in {"!", "-"}
        /\ Kind = "binary" => program.name[Node] \in BuiltinNames
    BY <2>2, Zenon DEF IsProgram, Nodes, Kind, BuiltinNames
  <2>6. /\ Kind = "unary" => Len(Vals) = 1
        /\ Kind = "binary" => Len(Vals) = 2
    BY <2>2, <2>3 DEF OperandsOf
  <2> HIDE DEF op
  <2>7. \/ Len(Vals) = 1 /\ op \in {"!", "-"}
        \/ Len(Vals) = 2 /\ op \in BuiltinNames
    BY <2>4, <2>5, <2>6, Zenon
  <2>8. HoldsParts(S)
    BY DEF Owned
  <2>9. Paid(BuiltinCall(op, Vals, limits.string), S)
    BY <2>2, <2>7, <2>8, BuiltinPaid, Zenon
  <2> QED
    BY <2>1, <2>9
<1> QED
  BY <1>1, <1>2

(* A local that a name finds is one of the values held.                    *)
LEMMA LocalHeld ==
  ASSUME ScopeInv, NEW S, Owned(S), NEW name, Bindings(name) # {}
  PROVE LocalValue(name) \in S
<1> DEFINE B == Bindings(name)
           k == Found(name)
           f == locals[k]
           params == program.params[f.node]
           at == IndexIn(params, name)
<1>1. Listed(locals) /\ Scoped(program, locals) /\ IsProgram(program) /\ Holding(locals, S)
  BY ProgramAssumption, Zenon DEF ScopeInv, PathInv, program, CallsInv, FramesInv, Owned
<1>2. B = {j \in DOMAIN locals : name \in ToSet(program.params[locals[j].node])}
  BY DEF Bindings
<1> HIDE DEF B
<1>3. k \in B
  <2>1. Len(locals) \in Nat /\ DOMAIN locals = 1 .. Len(locals)
    BY <1>1, ListedProperties
  <2>2. B \in SUBSET (1 .. Len(locals)) /\ B # {}
    BY <1>2, <2>1 DEF B
  <2> QED
    BY <2>1, <2>2, ExtremeNumbers, Zenon DEF Found, B
<1>4. LocalValue(name) = f.vals[at]
  BY Zenon DEF LocalValue, B
<1> HIDE DEF k
<1>5. k \in DOMAIN locals /\ name \in ToSet(params)
  BY <1>2, <1>3
<1>6. f.node \in DOMAIN program.kind /\ Len(f.vals) = Len(params) /\ f.vals \in Seq(S)
  BY <1>1, <1>5 DEF Scoped, Holding
<1>7. Len(params) \in Nat /\ DOMAIN params = 1 .. Len(params)
  BY <1>1, <1>6, ProgramParams
<1>8. at \in DOMAIN params
  <2>1. \E j \in DOMAIN params : params[j] = name
    BY <1>5 DEF ToSet
  <2> QED
    BY <2>1, Zenon DEF IndexIn
<1> DEFINE vals == f.vals
<1> HIDE DEF f, params, at
<1>9. at \in 1 .. Len(vals) /\ vals \in Seq(S)
  BY <1>6, <1>7, <1>8
<1> HIDE DEF vals
<1>10. vals[at] \in S
  BY <1>9
<1> QED
  BY <1>4, <1>10 DEF vals

(* Every conclusion is made with one of them.                              *)
LEMMA ConclusionMakes ==
  ASSUME Conclusion
  PROVE Ready /\ \E made : Conclude(made) /\ Makes(made)
<1>1. Ready
  BY ConclusionConcludes
<1> SUFFICES \E made : Conclude(made) /\ Makes(made)
  BY <1>1
<1>2. CASE ReturnLiteral
  BY <1>2, Zenon DEF ReturnLiteral, Makes
<1>3. CASE ReturnIdentifier
  <2> DEFINE name == program.name[Node]
             local == Given(TRUE, "", LocalValue(name))
             variable == Given(name \in DOMAIN context.variables, "unknown variable",
                               context.variables[name])
  <2>1. Kind = "identifier" /\ Conclude(IF Bindings(name) # {} THEN local ELSE variable)
    BY <1>3, Zenon DEF ReturnIdentifier
  <2>2. Bindings(name) # {} => Makes(local)
    BY <2>1, Zenon DEF Makes
  <2>3. Bindings(name) = {} => Makes(variable)
    BY <2>1, Zenon DEF Makes
  <2> HIDE DEF local, variable
  <2> QED
    BY <2>1, <2>2, <2>3, Zenon
<1>4. CASE ReturnArray
  BY <1>4, Zenon DEF ReturnArray, Makes
<1>5. CASE ReturnMember
  BY <1>5, Zenon DEF ReturnMember, Makes
<1>6. CASE ReturnCall
  BY <1>6, Zenon DEF ReturnCall, Makes
<1>7. CASE ReturnOperator
  BY <1>7, Zenon DEF ReturnOperator, Makes
<1>8. CASE ReturnLogical
  BY <1>8, Zenon DEF ReturnLogical, Makes
<1> QED
  BY <1>2, <1>3, <1>4, <1>5, <1>6, <1>7, <1>8 DEF Conclusion

(* What is concluded was paid for.                                         *)
LEMMA ConclusionPaid ==
  ASSUME DispatchInv, ScopeInv, NEW S, Owned(S), SetsFit(sets), Ready, NEW made, Makes(made)
  PROVE Paid(made, S)
<1>1. PathInv /\ Running
  BY DEF ScopeInv, Ready
<1>2. /\ Node \in Nodes /\ IsProgram(program) /\ Called(Top)
      /\ Vals \in Seq(S) /\ Len(Vals) \in Nat
      /\ Len(Operands) \in OperandsOf(Kind)
      /\ ~IsLogical => Len(Vals) = Len(Operands)
      /\ IsLogical => Len(Vals) >= 1
  BY <1>1, ReadyOperands
<1>3. HoldsParts(S) /\ HostValues \subseteq S
  BY DEF Owned
<1>4. request \in Requests
  BY <1>1 DEF PathInv
<1> DEFINE name == program.name[Node]
           known == name \in DOMAIN context.variables
           t == TRUE
<1>5. CASE Kind = "literal" /\ made = Given(t, "", program.literal[Node])
  <2> DEFINE v == program.literal[Node]
  <2>1. v \in HostValues
    BY <1>2, <1>4, <1>5, ProgramAssumption, Zenon DEF program, Kind, Nodes
  <2>2. Extends(S, v)
    BY <1>3, <2>1, ElementsExtend
  <2> HIDE DEF v
  <2>3. Paid(Given(t, "", v), S)
    BY <2>2, GivenPaid, Zenon
  <2> QED
    BY <1>5, <2>3, Zenon DEF v
<1>6. CASE Bindings(name) # {} /\ made = Given(t, "", LocalValue(name))
  <2> DEFINE v == LocalValue(name)
  <2>1. v \in S
    BY <1>6, LocalHeld
  <2>2. Extends(S, v)
    BY <1>3, <2>1, ElementsExtend
  <2> HIDE DEF v
  <2>3. Paid(Given(t, "", v), S)
    BY <2>2, GivenPaid, Zenon
  <2> QED
    BY <1>6, <2>3, Zenon DEF v
<1>7. CASE made = Given(known, "unknown variable", context.variables[name])
  <2> DEFINE v == context.variables[name]
  <2>1. known => v \in HostValues
    BY <1>4, ContextAssumption, Zenon DEF context
  <2>2. known => Extends(S, v)
    BY <1>3, <2>1, ElementsExtend
  <2> HIDE DEF v, known
  <2>3. Paid(Given(known, "unknown variable", v), S)
    BY <2>2, GivenPaid, Zenon
  <2> QED
    BY <1>7, <2>3, Zenon DEF v
<1>8. CASE made = Given(t, "", List(Vals))
  <2> DEFINE v == List(Vals)
  <2>1. Extends(S, v)
    BY <1>2, <1>3, ListExtends
  <2> HIDE DEF v
  <2>2. Paid(Given(t, "", v), S)
    BY <2>1, GivenPaid, Zenon
  <2> QED
    BY <1>8, <2>2, Zenon DEF v
<1>9. CASE Kind = "member" /\ made = MemberCall(Vals[1], name)
  <2>1. ~IsLogical /\ Len(Operands) = 1
    BY <1>2, <1>9 DEF IsLogical, OperandsOf
  <2>2. Vals[1] \in S
    BY <1>2, <2>1, GivenArguments
  <2>3. Paid(MemberCall(Vals[1], name), S)
    BY <1>3, <2>2, MemberPaid
  <2> QED
    BY <1>9, <2>3
<1>10. CASE Kind \in {"function", "method"} /\ made = Handled(Ticket(Node), Vals)
  <2>1. Registered(Ticket(Node)) # {}
    BY <1>1, <1>2, <1>10, CallFound
  <2>2. Paid(Handled(Ticket(Node), Vals), S)
    BY <1>1, <1>10, <2>1, HandledPaid
  <2> QED
    BY <1>10, <2>2
<1>11. CASE Kind \in {"unary", "binary"} /\ made = OperatorCall(Ticket(Node), Vals)
  <2>1. Paid(OperatorCall(Ticket(Node), Vals), S)
    BY <1>1, <1>11, OperatorPaid
  <2> QED
    BY <1>11, <2>1
<1>12. CASE IsLogical /\ made = Simple(Vals[Len(Vals)].ty = "bool", Vals[Len(Vals)])
  <2> DEFINE v == Vals[Len(Vals)]
  <2>1. v \in S
    BY <1>2, <1>12
  <2>2. Extends(S, v)
    BY <1>3, <2>1, ElementsExtend
  <2> HIDE DEF v
  <2>3. Paid(Simple(v.ty = "bool", v), S)
    BY <1>3, <2>2, SimplePaid, Zenon
  <2> QED
    BY <1>12, <2>3, Zenon DEF v
<1> QED
  BY <1>5, <1>6, <1>7, <1>8, <1>9, <1>10, <1>11, <1>12, Zenon DEF Makes

-----------------------------------------------------------------------------
\* What is held and what was worked is within what was charged.

(* Holding in a larger set.                                                *)
LEMMA SolventHeld ==
  ASSUME NEW fs, NEW ls, NEW r, NEW st, NEW worked, NEW paid, NEW total, NEW S,
         Solvent(fs, ls, r, st, worked, paid, total, S)
  PROVE HeldBy(fs) \in Nat /\ HeldBy(ls) \in Nat
BY HeldSummed DEF Solvent

(* A call begins.                                                          *)
LEMMA SolventPush ==
  ASSUME NEW fs, NEW ls, NEW r, NEW st, NEW worked, NEW paid, NEW total, NEW S,
         Solvent(fs, ls, r, st, worked, paid, total, S), NEW e, e.vals = <<>>
  PROVE Solvent(Append(fs, e), ls, r, st, worked, paid, total, S)
<1>1. <<>> \in Seq(S)
  OBVIOUS
<1>2. e.vals \in Seq(S)
  BY <1>1
<1>3. /\ Holding(Append(fs, e), S)
      /\ HeldBy(Append(fs, e)) = HeldBy(fs) + Bytes(e.vals)
      /\ HeldBy(fs) \in Nat /\ Bytes(e.vals) \in Nat
  BY <1>2, HeldPush DEF Solvent
<1>4. Bytes(e.vals) = 0
  BY BytesEmpty, Zenon
<1>5. HeldBy(Append(fs, e)) = HeldBy(fs)
  BY <1>3, <1>4
<1> QED
  BY <1>3, <1>5 DEF Solvent

(* Arguments become locals.                                                *)
LEMMA SolventBind ==
  ASSUME NEW fs, NEW ls, NEW r, NEW st, NEW worked, NEW paid, NEW total, NEW S,
         Solvent(fs, ls, r, st, worked, paid, total, S), fs # <<>>, NEW gs, Binds(fs, gs),
         NEW e, e.vals = fs[Len(fs)].vals
  PROVE Solvent(gs, Append(ls, e), r, st, worked, paid, total, S)
<1> DEFINE x == Bytes(fs[Len(fs)].vals)
           a == HeldBy(fs)
           b == HeldBy(gs)
           c == HeldBy(ls)
           d == HeldBy(Append(ls, e))
<1>1. Holding(gs, S) /\ a = b + x /\ b \in Nat
  BY HeldBind DEF Solvent
<1>2. e.vals \in Seq(S) /\ x \in Nat
  BY HeldFront DEF Solvent
<1>3. Holding(Append(ls, e), S) /\ d = c + x /\ c \in Nat
  <2>1. HoldsParts(S) /\ Holding(ls, S) /\ Bytes(e.vals) = x
    BY DEF Solvent
  <2> HIDE DEF x
  <2>2. Holding(Append(ls, e), S) /\ d = c + Bytes(e.vals) /\ c \in Nat
    BY <1>2, <2>1, HeldPush
  <2> QED
    BY <2>1, <2>2
<1>4. a + c + r.bytes + worked <= paid /\ r.bytes \in Nat /\ worked \in Nat /\ paid \in Nat
  BY DEF Solvent
<1> HIDE DEF a, b, c, d, x
<1>5. b + d + r.bytes + worked <= paid
  BY <1>1, <1>2, <1>3, <1>4
<1> QED
  BY <1>1, <1>3, <1>5 DEF Solvent, b, d

(* A value is returned that was charged, after so much work.               *)
LEMMA SolventAnswer ==
  ASSUME NEW fs, NEW ls, NEW r, NEW st, NEW worked, NEW paid, NEW total, NEW S,
         Solvent(fs, ls, r, st, worked, paid, total, S), fs # <<>>, st # "ended",
         NEW T, HoldsParts(T), S \subseteq T, NEW v \in T,
         NEW gs, Answers(fs, gs, v), NEW q, NEW su,
         Len(fs) = 1 => su = "ended" /\ q = v,
         Len(fs) > 1 => su = st /\ q = r,
         NEW work \in Nat, NEW done \in Nat, done <= work, paid + work + v.bytes <= total
  PROVE Solvent(gs, ls, q, su, worked + done, paid + work + v.bytes, total, T)
<1> DEFINE x == Bytes(fs[Len(fs)].vals)
           a == HeldBy(fs)
           b == HeldBy(gs)
           c == HeldBy(ls)
           y == v.bytes
<1>1. Holding(fs, T) /\ Holding(ls, T) /\ HostValues \subseteq T
  BY HoldingMore DEF Solvent
<1>2. /\ Holding(gs, T) /\ b \in Nat /\ a \in Nat /\ x \in Nat /\ y \in Nat
      /\ IF Len(fs) = 1 THEN b = 0 /\ a = x ELSE b + x = a + y
  BY <1>1, HeldAnswer
<1>3. c \in Nat
  BY SolventHeld
<1>4. /\ a + c + r.bytes + worked <= paid /\ r.bytes = 0
      /\ worked \in Nat /\ paid \in Nat /\ total \in Nat
  BY DEF Solvent
<1>5. Len(fs) = 1 \/ Len(fs) > 1
  <2>1. Listed(fs)
    BY DEF Solvent, Holding
  <2>2. Len(fs) \in Nat /\ Len(fs) > 0
    BY <2>1, ListedProperties
  <2>3. \A n \in Nat : n > 0 => n = 1 \/ n > 1
    OBVIOUS
  <2> QED
    BY <2>2, <2>3, Zenon
<1>6. CASE Len(fs) = 1
  <2> HIDE DEF a, b, c, x
  <2>1. b + c + y + (worked + done) <= paid + work + y
    BY <1>2, <1>3, <1>4, <1>6
  <2>2. worked + done \in Nat /\ paid + work + y \in Nat
    BY <1>2, <1>4
  <2> QED
    BY <1>1, <1>2, <1>4, <1>6, <2>1, <2>2 DEF Solvent, b, c
<1>7. CASE Len(fs) > 1
  <2> HIDE DEF a, b, c, x
  <2>1. b + x = a + y
    BY <1>2, <1>7
  <2>2. b + c + r.bytes + (worked + done) <= paid + work + y
    BY <1>2, <1>3, <1>4, <2>1
  <2>3. worked + done \in Nat /\ paid + work + y \in Nat
    BY <1>2, <1>4
  <2>4. q = r /\ r.bytes \in Nat /\ r.bytes = 0
    BY <1>4, <1>7
  <2> QED
    BY <1>1, <1>2, <1>4, <2>2, <2>3, <2>4 DEF Solvent, b, c
<1> QED
  BY <1>5, <1>6, <1>7

(* A function returns the value of its body and drops its locals.          *)
LEMMA SolventLeave ==
  ASSUME NEW fs, NEW ls, NEW r, NEW st, NEW worked, NEW paid, NEW total, NEW S,
         Solvent(fs, ls, r, st, worked, paid, total, S), fs # <<>>, ls # <<>>, st # "ended",
         fs[Len(fs)].vals # <<>>,
         NEW gs, Answers(fs, gs, fs[Len(fs)].vals[1]), NEW q, NEW su,
         Len(fs) = 1 => su = "ended" /\ q = fs[Len(fs)].vals[1],
         Len(fs) > 1 => su = st /\ q = r
  PROVE Solvent(gs, SubSeq(ls, 1, Len(ls) - 1), q, su, worked, paid, total, S)
<1> DEFINE vals == fs[Len(fs)].vals
           v == vals[1]
           x == Bytes(vals)
           y == v.bytes
           a == HeldBy(fs)
           b == HeldBy(gs)
           c == HeldBy(ls)
           d == HeldBy(SubSeq(ls, 1, Len(ls) - 1))
           z == Bytes(ls[Len(ls)].vals)
<1>1. HoldsParts(S) /\ Holding(fs, S) /\ Holding(ls, S) /\ HostValues \subseteq S
  BY DEF Solvent
<1>2. vals \in Seq(S)
  BY <1>1, HeldFront
<1>3. v \in S /\ y \in Nat /\ y <= x
  <2> HIDE DEF vals
  <2>1. vals # <<>>
    BY DEF vals
  <2> QED
    BY <1>1, <1>2, <2>1, BytesFirst
<1>4. /\ Holding(gs, S) /\ b \in Nat /\ a \in Nat /\ x \in Nat
      /\ IF Len(fs) = 1 THEN b = 0 /\ a = x ELSE b + x = a + y
  BY <1>1, <1>3, HeldAnswer
<1>5. Holding(SubSeq(ls, 1, Len(ls) - 1), S) /\ c = d + z /\ d \in Nat /\ z \in Nat
  BY <1>1, HeldFront
<1>6. /\ a + c + r.bytes + worked <= paid /\ r.bytes = 0
      /\ worked \in Nat /\ paid \in Nat /\ total \in Nat /\ paid <= total
  BY DEF Solvent
<1>7. Len(fs) = 1 \/ Len(fs) > 1
  <2>1. Listed(fs)
    BY <1>1 DEF Holding
  <2>2. Len(fs) \in Nat /\ Len(fs) > 0
    BY <2>1, ListedProperties
  <2>3. \A n \in Nat : n > 0 => n = 1 \/ n > 1
    OBVIOUS
  <2> QED
    BY <2>2, <2>3, Zenon
<1>8. CASE Len(fs) = 1
  <2>1. q = v /\ su = "ended"
    BY <1>8
  <2> HIDE DEF a, b, c, d, x, y, z, v, vals
  <2>2. b + d + y + worked <= paid
    BY <1>3, <1>4, <1>5, <1>6, <1>8
  <2> QED
    BY <1>1, <1>3, <1>4, <1>5, <1>6, <2>1, <2>2 DEF Solvent, b, d, y
<1>9. CASE Len(fs) > 1
  <2>1. q = r /\ su = st
    BY <1>9
  <2> HIDE DEF a, b, c, d, x, y, z, v, vals
  <2>2. b + x = a + y
    BY <1>4, <1>9
  <2>3. b + d + r.bytes + worked <= paid
    BY <1>3, <1>4, <1>5, <1>6, <2>2
  <2>4. r.bytes \in Nat
    BY <1>6
  <2> QED
    BY <1>1, <1>4, <1>5, <1>6, <2>1, <2>3, <2>4 DEF Solvent, b, d
<1> QED
  BY <1>7, <1>8, <1>9

(* An error lets go of everything.                                         *)
LEMMA SolventStop ==
  ASSUME NEW fs, NEW ls, NEW r, NEW st, NEW worked, NEW paid, NEW total, NEW S,
         Solvent(fs, ls, r, st, worked, paid, total, S), st # "ended",
         NEW work \in Nat, NEW done \in Nat, done <= work, paid + work <= total
  PROVE Solvent(<<>>, <<>>, r, "ended", worked + done, paid + work, total, S)
<1> DEFINE a == HeldBy(fs)
           c == HeldBy(ls)
           e == HeldBy(<<>>)
<1>1. a \in Nat /\ c \in Nat
  BY SolventHeld
<1>2. e = 0 /\ Holding(<<>>, S)
  <2> DEFINE none == <<>>
  <2>1. none = <<>>
    OBVIOUS
  <2> HIDE DEF none
  <2>2. HeldBy(none) = 0 /\ Holding(none, S)
    BY <2>1, HeldEmpty
  <2> QED
    BY <2>2 DEF none
<1>3. /\ a + c + r.bytes + worked <= paid /\ r.bytes = 0
      /\ worked \in Nat /\ paid \in Nat /\ total \in Nat
      /\ HoldsParts(S) /\ HostValues \subseteq S
  BY DEF Solvent
<1> HIDE DEF a, c, e
<1>4. e + e + r.bytes + (worked + done) <= paid + work
  BY <1>1, <1>2, <1>3
<1>5. worked + done \in Nat /\ paid + work \in Nat /\ r.bytes \in Nat
  BY <1>3
<1>6. HeldBy(<<>>) + HeldBy(<<>>) + r.bytes + (worked + done) <= paid + work
  BY <1>4, Zenon DEF e
<1> QED
  BY <1>2, <1>3, <1>5, <1>6, Zenon DEF Solvent

(* The pattern sets a host configures hold texts.                          *)
LEMMA CompiledFit ==
  ASSUME request \in Requests
  PROVE SetsFit(CompiledSets(context.configs))
<1> DEFINE configs == context.configs
           ps == CompiledSets(configs)
           At(name) == CHOOSE k \in DOMAIN configs : configs[k].name = name
<1>1. ps = [name \in {configs[k].name : k \in DOMAIN configs} |-> configs[At(name)].patterns]
  BY Zenon DEF CompiledSets
<1>2. \A g \in ToSet(configs) :
        /\ g.patterns \in Seq(ToSet(g.patterns))
        /\ \A text \in ToSet(g.patterns) : text \in Seq(ToSet(text))
  BY ContextAssumption, Zenon DEF context
<1>3. ASSUME NEW name \in {configs[k].name : k \in DOMAIN configs}
      PROVE configs[At(name)] \in ToSet(configs)
  <2>1. \E k \in DOMAIN configs : configs[k].name = name
    OBVIOUS
  <2>2. At(name) \in DOMAIN configs
    BY <2>1, Zenon
  <2> HIDE DEF At
  <2> QED
    BY <2>2 DEF ToSet
<1> HIDE DEF configs, At, ps
<1>4. ASSUME NEW g \in ToSet(configs) PROVE Texts(g.patterns)
  <2> DEFINE t == g.patterns
  <2>1. t \in Seq(ToSet(t)) /\ \A text \in ToSet(t) : text \in Seq(ToSet(text))
    BY <1>2
  <2> HIDE DEF t
  <2>2. Listed(t) /\ \A text \in ToSet(t) : Listed(text)
    BY <2>1 DEF Listed, Elements, ToSet
  <2>3. \A k \in DOMAIN t : t[k] \in ToSet(t)
    BY DEF ToSet
  <2> QED
    BY <2>2, <2>3, Zenon DEF Texts, t
<1>5. \A name \in DOMAIN ps : Texts(ps[name])
  BY <1>1, <1>3, <1>4
<1> QED
  BY <1>5 DEF SetsFit, ps, configs

(* Nothing is held, worked or paid at first.                               *)
LEMMA PaidInit == Init => PaidInv
<1> SUFFICES ASSUME Init PROVE PaidInv
  OBVIOUS
<1>1. DispatchInv /\ ScopeInv
  BY DispatchInit, ScopeInit
<1>2. /\ sets = <<>> /\ frames = <<>> /\ locals = <<>> /\ result = Failure /\ processed = 0
      /\ history.worked = 0 /\ request \in Requests
  BY DEF Init
<1>3. SetsFit(sets)
  BY <1>2 DEF SetsFit
<1>4. limits.total \in Nat
  <2>1. request.limits \in LimitType
    BY <1>2, LimitAssumption
  <2> QED
    BY <2>1 DEF LimitType, limits
<1>5. HeldBy(frames) = 0 /\ Holding(frames, HostValues)
  BY <1>2, HeldEmpty
<1>6. HeldBy(locals) = 0 /\ Holding(locals, HostValues)
  BY <1>2, HeldEmpty
<1>7. result.bytes = 0
  <2>1. Failure.bytes = 0
    BY DEF Failure, Scalar
  <2> QED
    BY <1>2, <2>1
<1> DEFINE w == history.worked
           total == limits.total
           a == HeldBy(frames)
           c == HeldBy(locals)
<1>8. w = 0 /\ total \in Nat /\ a = 0 /\ c = 0
  BY <1>2, <1>4, <1>5, <1>6
<1> HIDE DEF w, total, a, c
<1>9. a + c + result.bytes + w <= processed /\ processed <= total
      /\ w \in Nat /\ processed \in Nat /\ result.bytes \in Nat
  BY <1>2, <1>7, <1>8
<1>10. Solvent(frames, locals, result, stage, w, processed, total, HostValues)
  BY <1>5, <1>6, <1>7, <1>8, <1>9, ValueAssumption DEF Solvent, a, c
<1> QED
  BY <1>1, <1>3, <1>10 DEF PaidInv, w, total

(* Before anything runs, a step touches neither what is held nor paid.     *)
LEMMA PaidPreparing ==
  ASSUME PaidInv, Prepare \/ Analyze \/ Verify \/ UNCHANGED vars
  PROVE SolventNext
<1>1. UNCHANGED <<frames, locals, result, processed, history>>
  BY Zenon DEF Prepare, Analyze, Verify, vars, idle
<1>2. stage' # "ended" => stage # "ended"
  BY DEF Prepare, Analyze, Verify, vars, inputs, idle, End
<1>3. sets' = sets \/ sets' = CompiledSets(context.configs)
  BY Zenon DEF Prepare, Analyze, Verify, vars, inputs, idle
<1>4. SetsFit(sets')
  <2>1. SetsFit(sets) /\ request \in Requests
    BY DEF PaidInv, ScopeInv, PathInv
  <2> QED
    BY <1>3, <2>1, CompiledFit
<1>5. PICK S : Solvent(frames, locals, result, stage, history.worked, processed, limits.total, S)
  BY DEF PaidInv
<1>6. Solvent(frames, locals, result, stage', history.worked, processed, limits.total, S)
  BY <1>2, <1>5 DEF Solvent
<1> QED
  BY <1>1, <1>4, <1>6, Zenon DEF SolventNext

(* A call of eval begins: it holds nothing yet, or all is let go of.       *)
LEMMA PaidEnter ==
  ASSUME PaidInv, EnterRoot \/ EnterOperand
  PROVE SolventNext
<1>1. PICK i : Enter(i)
  BY Zenon DEF EnterRoot, EnterOperand
<1>2. stage # "ended" /\ SetsFit(sets)
  BY DEF EnterRoot, EnterOperand, Running, PaidInv
<1>3. PICK S : Solvent(frames, locals, result, stage, history.worked, processed, limits.total, S)
  BY DEF PaidInv
<1>4. CASE AllHold(EntryChecks(i))
  <2> DEFINE new == [node |-> i, vals |-> <<>>, bound |-> FALSE]
             spent == history.spent + CostAtRuntime(i)
  <2>1. /\ frames' = Append(frames, new) /\ UNCHANGED <<inputs, locals, stage, result, processed>>
        /\ history' = [history EXCEPT !.spent = spent]
    BY <1>1, <1>4, Zenon DEF Enter
  <2>2. new.vals = <<>>
    OBVIOUS
  <2> HIDE DEF new, spent
  <2>3. history'.worked = history.worked
    <3>1. History(history)
      BY DEF PaidInv, DispatchInv
    <3> QED
      BY <2>1, <3>1 DEF History
  <2>4. Solvent(Append(frames, new), locals, result, stage, history.worked, processed,
                limits.total, S)
    BY <1>3, <2>2, SolventPush
  <2>5. sets' = sets
    BY <2>1 DEF inputs
  <2> QED
    BY <1>2, <2>1, <2>3, <2>4, <2>5, Zenon DEF SolventNext
<1>5. CASE ~AllHold(EntryChecks(i))
  <2>1. Stop(FirstFailure(EntryChecks(i))) /\ UNCHANGED <<history, processed>>
    BY <1>1, <1>5, Zenon DEF Enter
  <2>2. /\ frames' = <<>> /\ locals' = <<>> /\ result' = result /\ stage' = "ended" /\ sets' = sets
    BY <2>1 DEF Stop, End, inputs
  <2>3. /\ history.worked \in Nat /\ processed \in Nat /\ limits.total \in Nat
        /\ processed <= limits.total
    BY <1>3 DEF Solvent
  <2> DEFINE worked == history.worked
             total == limits.total
  <2>4. worked \in Nat /\ total \in Nat /\ processed \in Nat /\ processed <= total
        /\ Solvent(frames, locals, result, stage, worked, processed, total, S)
    BY <1>3, <2>3
  <2> HIDE DEF worked, total
  <2>5. worked + 0 = worked /\ processed + 0 = processed /\ 0 \in Nat /\ 0 <= 0
        /\ processed + 0 <= total
    BY <2>4
  <2>6. Solvent(<<>>, <<>>, result, "ended", worked + 0, processed + 0, total, S)
    BY <1>2, <2>4, <2>5, SolventStop, Zenon
  <2>7. Solvent(<<>>, <<>>, result, "ended", worked, processed, total, S)
    BY <2>5, <2>6, Zenon
  <2> QED
    BY <1>2, <2>1, <2>2, <2>7, Zenon DEF SolventNext, worked, total
<1> QED
  BY <1>4, <1>5

(* Arguments move into the locals.                                         *)
LEMMA PaidBind ==
  ASSUME PaidInv, Bind
  PROVE SolventNext
<1> DEFINE new == [node |-> Node, vals |-> Vals]
<1>1. /\ frames # <<>> /\ locals' = Append(locals, new) /\ UNCHANGED <<inputs, processed, stage, result, history>>
  BY Zenon DEF Bind
<1>2. AllCalled(frames)
  BY Zenon DEF PaidInv, ScopeInv, PathInv, CallsInv, FramesInv
<1>3. Binds(frames, frames')
  BY <1>2, BindBinds
<1>4. new.vals = frames[Len(frames)].vals
  BY DEF Vals, Top
<1>5. PICK S : Solvent(frames, locals, result, stage, history.worked, processed, limits.total, S)
  BY DEF PaidInv
<1> HIDE DEF new
<1>6. Solvent(frames', Append(locals, new), result, stage, history.worked, processed,
              limits.total, S)
  BY <1>1, <1>3, <1>4, <1>5, SolventBind
<1>7. SetsFit(sets')
  BY <1>1 DEF PaidInv, inputs
<1> QED
  BY <1>1, <1>6, <1>7, Zenon DEF SolventNext

(* A function returns.                                                     *)
LEMMA PaidLeave ==
  ASSUME PaidInv, LeaveFunction
  PROVE SolventNext
<1> DEFINE v == frames[Len(frames)].vals[1]
           read == history.read \cup BodyData(Handed(Vals[1]))
<1>1. /\ frames # <<>> /\ Top.bound /\ Vals # <<>> /\ Running
      /\ locals' = SubSeq(locals, 1, Len(locals) - 1) /\ Return(Vals[1])
      /\ history' = [history EXCEPT !.read = read]
      /\ UNCHANGED <<inputs, processed>>
  BY Zenon DEF LeaveFunction
<1>2. AllCalled(frames) /\ CallsInv
  BY Zenon DEF PaidInv, ScopeInv, PathInv, CallsInv, FramesInv
<1>3. locals # <<>>
  BY <1>1, <1>2, LocalsThere
<1>4. frames[Len(frames)].vals # <<>> /\ Return(v) /\ stage # "ended"
  BY <1>1 DEF Vals, Top, Running
<1>5. /\ Answers(frames, frames', v)
      /\ Len(frames) = 1 => stage' = "ended" /\ result' = v
      /\ Len(frames) > 1 => stage' = stage /\ result' = result
  BY <1>1, <1>2, <1>4, ReturnAnswers
<1>6. history'.worked = history.worked
  <2>1. History(history)
    BY DEF PaidInv, DispatchInv
  <2> HIDE DEF read
  <2> QED
    BY <1>1, <2>1 DEF History
<1>7. PICK S : Solvent(frames, locals, result, stage, history.worked, processed, limits.total, S)
  BY DEF PaidInv
<1>8. Solvent(frames', SubSeq(locals, 1, Len(locals) - 1), result', stage', history.worked,
              processed, limits.total, S)
  BY <1>1, <1>3, <1>4, <1>5, <1>7, SolventLeave, Zenon
<1>9. SetsFit(sets')
  BY <1>1 DEF PaidInv, inputs
<1> QED
  BY <1>1, <1>6, <1>8, <1>9, Zenon DEF SolventNext

(* A node has its value: it was charged before it is returned.             *)
LEMMA PaidConclusion ==
  ASSUME PaidInv, Conclusion
  PROVE SolventNext
<1> DEFINE w == history.worked
           total == limits.total
<1>1. PICK S : Solvent(frames, locals, result, stage, w, processed, total, S)
  BY DEF PaidInv
<1>2. Owned(S) /\ DispatchInv /\ ScopeInv /\ SetsFit(sets)
  BY <1>1 DEF PaidInv, Solvent, Owned
<1>3. PICK made : Ready /\ Conclude(made) /\ Paid(made, S)
  BY <1>2, ConclusionMakes, ConclusionPaid
<1>4. frames # <<>> /\ stage # "ended"
  BY <1>3 DEF Ready, Running
<1>5. AllCalled(frames)
  BY <1>2, Zenon DEF ScopeInv, PathInv, CallsInv, FramesInv
<1>6. Charges(made)
  BY <1>3, ConcludeCharges
<1> DEFINE work == made.work
           done == made.done
           value == made.value
<1>7. work \in Nat /\ done \in Nat /\ done <= work 
      /\ (AllHold(made.before) /\ AllHold(made.after) => Extends(S, value))
  BY <1>3 DEF Paid
<1>8. w \in Nat /\ total \in Nat /\ processed \in Nat /\ processed <= total
  BY <1>1 DEF Solvent
<1> DEFINE x == history'.worked
           more == value.bytes
<1>9. CASE /\ Return(value) /\ UNCHANGED <<inputs, locals>>
           /\ AllHold(made.before) /\ AllHold(made.after)
           /\ processed' = processed + work + more /\ processed' <= total
           /\ x = w + done
  <2>1. PICK T : HoldsParts(T) /\ S \subseteq T /\ value \in T
    BY <1>7, <1>9 DEF Extends
  <2>2. /\ Answers(frames, frames', value)
        /\ Len(frames) = 1 => stage' = "ended" /\ result' = value
        /\ Len(frames) > 1 => stage' = stage /\ result' = result
    BY <1>4, <1>5, <1>9, ReturnAnswers
  <2>3. processed + work + more <= total
    BY <1>9
  <2>4. Solvent(frames', locals, result', stage', w + done, processed + work + more, total, T)
    <3> HIDE DEF w, total, work, done, value
    <3> QED
      BY <1>1, <1>4, <1>7, <2>1, <2>2, <2>3, SolventAnswer, Zenon DEF more
  <2>5. sets' = sets /\ locals' = locals
    BY <1>9 DEF inputs
  <2> HIDE DEF w, total, work, done, value, more, x
  <2>6. Solvent(frames', locals', result', stage', x, processed', total, T)
    BY <1>9, <2>4, <2>5, Zenon
  <2> QED
    BY <1>2, <2>5, <2>6, Zenon DEF SolventNext, x, total
<1>10. CASE /\ \E reason : Stop(reason)
            /\ \/ processed' = processed /\ x = w + 0
               \/ /\ processed' = processed + work /\ processed' <= total
                  /\ x = w + done
  <2>1. /\ frames' = <<>> /\ locals' = <<>> /\ result' = result /\ stage' = "ended"
        /\ sets' = sets
    BY <1>10, Zenon DEF Stop, End, inputs
  <2>2. PICK a \in Nat, b \in Nat : b <= a /\ processed + a <= total
             /\ processed' = processed + a /\ x = w + b
    <3> HIDE DEF w, total, work, done, x
    <3>1. CASE processed' = processed /\ x = w + 0
      <4>1. 0 \in Nat /\ 0 <= 0 /\ processed + 0 <= total /\ processed' = processed + 0
        BY <1>8, <3>1
      <4> QED
        BY <3>1, <4>1, Zenon
    <3>2. CASE processed' = processed + work /\ processed' <= total /\ x = w + done
      <4>1. processed + work <= total
        BY <3>2
      <4> QED
        BY <1>7, <3>2, <4>1, Zenon
    <3> QED
      BY <1>10, <3>1, <3>2, Zenon
  <2> HIDE DEF w, total, work, done, x
  <2>3. Solvent(<<>>, <<>>, result, "ended", w + b, processed + a, total, S)
    BY <1>1, <1>4, <2>2, SolventStop, Zenon
  <2>4. Solvent(frames', locals', result', stage', x, processed', total, S)
    BY <2>1, <2>2, <2>3, Zenon
  <2> QED
    BY <1>2, <2>1, <2>4, Zenon DEF SolventNext, x, total
<1> QED
  BY <1>6, <1>9, <1>10, Zenon DEF Charges

(* Every step keeps what is held, and what was worked, within what was     *)
(* charged.                                                                *)
LEMMA PaidStep ==
  ASSUME PaidInv, [Next]_vars
  PROVE PaidInv'
<1>1. DispatchInv' /\ ScopeInv'
  BY DispatchStep, ScopeStep DEF PaidInv
<1>2. limits' = limits
  <2>1. request' = request
    BY Zenon DEF Next, vars, Prepare, Analyze, Verify, EnterRoot, EnterOperand, Enter, Stop, Bind,
       LeaveFunction, ReturnLiteral, ReturnIdentifier, ReturnArray, ReturnMember, ReturnCall,
       ReturnOperator, ReturnLogical, Conclude, inputs
  <2> QED
    BY <2>1 DEF limits
<1>3. SolventNext
  BY PaidPreparing, PaidEnter, PaidBind, PaidLeave, PaidConclusion DEF Next, Conclusion
<1> QED
  BY <1>1, <1>2, <1>3, Zenon DEF PaidInv, SolventNext

(* Every value that eval holds and all the work of handlers was paid for   *)
(* (EvalState::charge, RuntimeContext): the processed bytes cover both, and *)
(* stay within max_total_value_bytes.                                      *)
THEOREM HeldIsPaidTheorem == Spec => []HeldIsPaid
<1>1. Init => PaidInv
  BY PaidInit
<1>2. PaidInv /\ [Next]_vars => PaidInv'
  BY PaidStep
<1>3. PaidInv => HeldIsPaid
  <2> SUFFICES ASSUME NEW S, Solvent(frames, locals, result, stage, history.worked, processed,
                                     limits.total, S)
               PROVE HeldIsPaid
    BY DEF PaidInv
  <2> QED
    BY Zenon DEF Solvent, HeldIsPaid, Held
<1> QED
  BY <1>1, <1>2, <1>3, PTL DEF Spec

-----------------------------------------------------------------------------
\* Why a request ends.

(* The reason of the first check that fails is that of one that fails.     *)
LEMMA FirstBlamed ==
  ASSUME NEW checks, Listed(checks), ~AllHold(checks)
  PROVE Blames(checks, FirstFailure(checks))
<1> DEFINE bad == {i \in DOMAIN checks : ~checks[i][1]}
           k == Min(bad)
<1>1. DOMAIN checks = 1 .. Len(checks) /\ Len(checks) \in Nat
  BY ListedProperties
<1>2. bad \in SUBSET (1 .. Len(checks)) /\ bad # {}
  BY <1>1 DEF AllHold
<1>3. \A i : i \in bad <=> i \in DOMAIN checks /\ ~checks[i][1]
  OBVIOUS
<1>4. FirstFailure(checks) = checks[k][2]
  BY Zenon DEF FirstFailure
<1> HIDE DEF bad
<1>5. k \in bad
  BY <1>1, <1>2, ExtremeNumbers
<1> QED
  BY <1>3, <1>4, <1>5 DEF Blames

(* Of two lists of checks, one is to blame.                                *)
LEMMA BlamesConcat ==
  ASSUME NEW s, Listed(s), NEW t, Listed(t), NEW r, Blames(s \o t, r)
  PROVE Blames(s, r) \/ Blames(t, r)
<1> DEFINE st == s \o t
           m == Len(s)
           n == Len(t)
<1>1. /\ DOMAIN s = 1 .. m /\ DOMAIN t = 1 .. n /\ DOMAIN st = 1 .. m + n
      /\ m \in Nat /\ n \in Nat
      /\ \A i \in 1 .. m + n : st[i] = IF i <= m THEN s[i] ELSE t[i - m]
  BY ConcatListed
<1>2. PICK k \in DOMAIN st : ~st[k][1] /\ st[k][2] = r
  BY DEF Blames
<1> HIDE DEF st, m, n
<1>3. CASE k <= m
  <2>1. k \in DOMAIN s /\ s[k] = st[k]
    BY <1>1, <1>2, <1>3
  <2> QED
    BY <1>2, <2>1 DEF Blames
<1>4. CASE ~(k <= m)
  <2>1. k - m \in DOMAIN t /\ t[k - m] = st[k]
    BY <1>1, <1>2, <1>4
  <2> QED
    BY <1>2, <2>1 DEF Blames
<1> QED
  BY <1>3, <1>4

(* One to three checks.                                                    *)
LEMMA FewBlamed ==
  /\ \A r : ~Blames(<<>>, r)
  /\ \A a, x, r : Blames(<<<<a, x>>>>, r) => ~a /\ x = r
  /\ \A a, x, b, y, r : Blames(<<<<a, x>>, <<b, y>>>>, r) => x = r \/ y = r
  /\ \A a, x, b, y, c, z, r :
       Blames(<<<<a, x>>, <<b, y>>, <<c, z>>>>, r) => x = r \/ y = r \/ z = r
<1>1. \A r : ~Blames(<<>>, r)
  <2>1. DOMAIN <<>> = {}
    OBVIOUS
  <2> QED
    BY <2>1, Zenon DEF Blames
<1>2. ASSUME NEW a, NEW x, NEW r, Blames(<<<<a, x>>>>, r) PROVE ~a /\ x = r
  <2> DEFINE A == <<a, x>>
             s == <<A>>
  <2>1. DOMAIN s = {1} /\ s[1] = A
    OBVIOUS
  <2>2. A[1] = a /\ A[2] = x
    OBVIOUS
  <2> HIDE DEF s, A
  <2>3. ~A[1] /\ A[2] = r
    <3>1. Blames(s, r)
      BY <1>2 DEF s, A
    <3> QED
      BY <2>1, <3>1, Zenon DEF Blames
  <2> QED
    BY <2>2, <2>3
<1>3. ASSUME NEW a, NEW x, NEW b, NEW y, NEW r, Blames(<<<<a, x>>, <<b, y>>>>, r)
      PROVE x = r \/ y = r
  <2> DEFINE A == <<a, x>>
             B == <<b, y>>
             s == <<A, B>>
  <2>1. DOMAIN s = {1, 2} /\ s[1] = A /\ s[2] = B
    OBVIOUS
  <2>2. A[2] = x /\ B[2] = y
    OBVIOUS
  <2> HIDE DEF s, A, B
  <2>3. Blames(s, r)
    BY <1>3 DEF s, A, B
  <2> QED
    BY <2>1, <2>2, <2>3, Zenon DEF Blames
<1>4. ASSUME NEW a, NEW x, NEW b, NEW y, NEW c, NEW z, NEW r,
             Blames(<<<<a, x>>, <<b, y>>, <<c, z>>>>, r)
      PROVE x = r \/ y = r \/ z = r
  <2> DEFINE A == <<a, x>>
             B == <<b, y>>
             C == <<c, z>>
             s == <<A, B, C>>
  <2>1. DOMAIN s = {1, 2, 3} /\ s[1] = A /\ s[2] = B /\ s[3] = C
    OBVIOUS
  <2>2. A[2] = x /\ B[2] = y /\ C[2] = z
    OBVIOUS
  <2> HIDE DEF s, A, B, C
  <2>3. Blames(s, r)
    BY <1>4 DEF s, A, B, C
  <2> QED
    BY <2>1, <2>2, <2>3, Zenon DEF Blames
<1> QED
  BY <1>1, <1>2, <1>3, <1>4, Zenon

(* A single check of another reason.                                       *)
LEMMA OtherBlamed ==
  ASSUME NEW holds, NEW reason, NEW other, reason # other
  PROVE ~Blames(<<<<holds, reason>>>>, other)
<1>1. \A a, x, r : Blames(<<<<a, x>>>>, r) => ~a /\ x = r
  BY FewBlamed
<1>2. Blames(<<<<holds, reason>>>>, other) => reason = other
  BY <1>1, Zenon
<1> QED
  BY <1>2

(* A call of these checks.                                                 *)
LEMMA CallSilent ==
  ASSUME NEW before, NEW after, NEW work, NEW done, NEW value, NEW cause,
         ~Blames(before, cause), ~Blames(after, cause)
  PROVE Silent(Call(before, work, after, value, done), cause)
<1>1. /\ Call(before, work, after, value, done).before = before
      /\ Call(before, work, after, value, done).after = after
  BY DEF Call
<1> QED
  BY <1>1 DEF Silent

(* A value that is given, with a single check.                             *)
LEMMA GivenSilent ==
  ASSUME NEW holds, NEW reason, NEW value, NEW cause, reason # cause
  PROVE Silent(Given(holds, reason, value), cause)
<1> DEFINE before == <<<<holds, reason>>>>
<1>1. ~Blames(before, cause) /\ ~Blames(<<>>, cause)
  BY FewBlamed, Zenon
<1> HIDE DEF before
<1>2. \A value0 : Silent(Call(before, 0, <<>>, value0, 0), cause)
  BY <1>1, CallSilent, Zenon
<1> QED
  BY <1>2, Zenon DEF Given, before

(* The built-in operators.                                                 *)
LEMMA BuiltinSilent ==
  ASSUME NEW op, NEW args, NEW limit, NEW cause, cause \notin CallReasons
  PROVE Silent(BuiltinCall(op, args, limit), cause)
<1> DEFINE checks == BuiltinChecks(op, args, limit)
           a == args[1]
           b == args[2]
           x == AsFloat(a)
           y == AsFloat(b)
<1>1. ASSUME NEW v PROVE ~Blames(UnaryChecks(op, v), cause)
  <2> DEFINE h == -v.number <= MaxInt
             g == v.ty = (IF op = "!" THEN "bool" ELSE "float")
  <2>1. UnaryChecks(op, v) \in {<<<<h, "overflow">>>>, <<<<g, "type">>>>}
    BY Zenon DEF UnaryChecks
  <2> HIDE DEF h, g
  <2>2. ~Blames(<<<<h, "overflow">>>>, cause)
    BY OtherBlamed, Zenon DEF CallReasons
  <2>3. ~Blames(<<<<g, "type">>>>, cause)
    BY OtherBlamed, Zenon DEF CallReasons
  <2> QED
    BY <2>1, <2>2, <2>3, Zenon
<1>2. ~Blames(ArithmeticChecks(op, a, b, limit), cause)
  <2> DEFINE h1 == ~ByZero(op, b.number)
             h2 == ByZero(op, b.number) \/ Fits(op, a.number, b.number)
             h3 == ~ByZero(op, y)
             h4 == ByZero(op, y) \/ Finite(FloatResult(op, x, y))
             h5 == op = "+" /\ BothTexts(a, b)
             h6 == a.longest + b.longest <= limit
             ints == a.ty = "int" /\ b.ty = "int"
             floats == BothNumbers(a, b) /\ {a.ty, b.ty} # {"int"}
             s1 == <<<<h1, "division by zero">>, <<h2, "overflow">>>>
             s2 == <<<<h3, "division by zero">>, <<h4, "not finite">>>>
             s3 == <<<<h5, "type">>, <<h6, "string">>>>
             other == ~ints /\ ~floats
  <2>1. ArithmeticChecks(op, a, b, limit) =
          CASE ints -> s1 [] floats -> s2 [] OTHER -> s3
    BY Zenon DEF ArithmeticChecks
  <2>2. ~(ints /\ floats)
    <3>1. ints => {a.ty, b.ty} = {"int"}
      OBVIOUS
    <3> QED
      BY <3>1
  <2>3. ~Blames(s1, cause) /\ ~Blames(s2, cause) /\ ~Blames(s3, cause)
    <3> HIDE DEF h1, h2, h3, h4, h5, h6
    <3> QED
      BY FewBlamed, Zenon DEF CallReasons
  <2> HIDE DEF s1, s2, s3, ints, floats
  <2>4. ArithmeticChecks(op, a, b, limit) \in {s1, s2, s3}
    BY <2>1, <2>2
  <2> QED
    BY <2>3, <2>4, Zenon
<1>3. ~Blames(BinaryChecks(op, a, b, limit), cause)
  <2> DEFINE h == BothNumbers(a, b) \/ BothTexts(a, b)
             s1 == ArithmeticChecks(op, a, b, limit)
             s2 == <<<<h, "type">>>>
             s3 == <<>>
             math == op \in Arithmetic
             order == op \in Comparison
  <2>1. BinaryChecks(op, a, b, limit) = CASE math -> s1 [] order -> s2 [] OTHER -> s3
    BY Zenon DEF BinaryChecks
  <2>2. ~(math /\ order)
    BY DEF Arithmetic, Comparison
  <2>3. ~Blames(s2, cause)
    <3> HIDE DEF h
    <3> QED
      BY OtherBlamed, Zenon DEF CallReasons
  <2>4. ~Blames(s3, cause)
    BY FewBlamed, Zenon
  <2> HIDE DEF s1, s2, s3, math, order
  <2>5. BinaryChecks(op, a, b, limit) \in {s1, s2, s3}
    BY <2>1, <2>2
  <2> QED
    BY <1>2, <2>3, <2>4, <2>5, Zenon DEF s1
<1>4. ~Blames(checks, cause)
  BY <1>1, <1>3, Zenon DEF BuiltinChecks
<1> HIDE DEF checks
<1>5. ~Blames(<<>>, cause)
  BY FewBlamed
<1>6. \A v : Silent(Call(checks, 0, <<>>, v, 0), cause)
  BY <1>4, <1>5, CallSilent, Zenon
<1> QED
  BY <1>6, Zenon DEF BuiltinCall, checks

(* No handler but matches ends a request for want of a regex.              *)
LEMMA SimpleSilent ==
  ASSUME NEW cause, cause \notin CallReasons, NEW holds, NEW value
  PROVE Silent(Simple(holds, value), cause)
<1>1. "type" # cause
  BY Zenon DEF CallReasons
<1> DEFINE reason == "type"
<1> HIDE DEF reason
<1>2. Silent(Given(holds, reason, value), cause)
  BY <1>1, GivenSilent DEF reason
<1> QED
  BY <1>2, Zenon DEF Simple, reason

(* The two changes of case.                                                *)
LEMMA CaseSilent ==
  ASSUME NEW r, NEW limit, NEW cause, cause \notin CallReasons
  PROVE Silent(CaseCall(Lower, r, limit), cause) /\ Silent(CaseCall(Upper, r, limit), cause)
<1> DEFINE n == Len(r.payload)
           a == r.ty = "string"
           b == n <= limit
           before == <<<<a, "type">>, <<b, "string">>>>
           l == Text([k \in 1 .. n |-> Lower(r.payload[k])])
           u == Text([k \in 1 .. n |-> Upper(r.payload[k])])
<1>1. ~Blames(before, cause)
  <2> HIDE DEF a, b
  <2>1. "type" # cause /\ "string" # cause
    BY Zenon DEF CallReasons
  <2>2. Blames(<<<<a, "type">>, <<b, "string">>>>, cause)
          => "type" = cause \/ "string" = cause
    BY FewBlamed, Zenon
  <2> QED
    BY <2>1, <2>2
<1>2. ~Blames(<<>>, cause)
  BY FewBlamed
<1>3. /\ CaseCall(Lower, r, limit) = Call(before, n, <<>>, l, n)
      /\ CaseCall(Upper, r, limit) = Call(before, n, <<>>, u, n)
  BY DEF CaseCall
<1> HIDE DEF before, l, u, n
<1>4. \A v : Silent(Call(before, n, <<>>, v, n), cause)
  BY <1>1, <1>2, CallSilent, Zenon
<1> QED
  BY <1>3, <1>4

(* The methods of pattern sets.                                            *)
LEMMA PatternSetSilent ==
  ASSUME NEW ps, NEW r, NEW name, NEW cause, cause \notin CallReasons
  PROVE Silent(PatternSetCall(ps, r, name), cause)
<1> DEFINE texts == IF r.ty = "string" THEN <<r>> ELSE r.parts
           known == name.ty = "string" /\ name.payload \in DOMAIN ps
           scannable == /\ r.ty \in {"string", "array"}
                        /\ \A k \in DOMAIN texts : texts[k].ty = "string"
           named == name.ty = "string"
           before == <<<<named, "type">>, <<known, "unknown set">>, <<scannable, "type">>>>
           call == PatternSetCall(ps, r, name)
<1>1. \/ call = Call(before, 0, <<>>, Failure, 0)
      \/ \E w, v, d : call = Call(<<>>, w, <<>>, v, d)
  BY Zenon DEF PatternSetCall
<1>2. ~Blames(before, cause)
  <2> HIDE DEF named, known, scannable
  <2>1. "type" # cause /\ "unknown set" # cause
    BY Zenon DEF CallReasons
  <2>2. Blames(before, cause) => "type" = cause \/ "unknown set" = cause \/ "type" = cause
    BY FewBlamed, Zenon
  <2> QED
    BY <2>1, <2>2
<1>3. ~Blames(<<>>, cause)
  BY FewBlamed
<1> HIDE DEF before, call
<1>4. \A w, v, d : Silent(Call(before, w, <<>>, v, d), cause) /\ Silent(Call(<<>>, w, <<>>, v, d), cause)
  BY <1>2, <1>3, CallSilent, Zenon
<1>5. Silent(call, cause)
  BY <1>1, <1>4, Zenon
<1> QED
  BY <1>5 DEF call

(* matches does not either, when its pattern is compiled.                  *)
LEMMA RegexSilent ==
  ASSUME NEW cache, NEW flavor, NEW r, NEW q, NEW cause, cause \notin CallReasons,
         cause = Missing => <<flavor, q.payload>> \in cache
  PROVE Silent(RegexCall(cache, flavor, r, q), cause)
<1> DEFINE texts == BothTexts(r, q)
           found == <<flavor, q.payload>> \in cache
           before == <<<<texts, "type">>>>
           after == <<<<found, Missing>>>>
           call == RegexCall(cache, flavor, r, q)
<1>1. \E w, v, d : call = Call(before, w, after, v, d)
  BY Zenon DEF RegexCall, Missing
<1>2. ~Blames(before, cause)
  <2> HIDE DEF texts
  <2>1. "type" # cause
    BY Zenon DEF CallReasons
  <2> QED
    BY <2>1, OtherBlamed, Zenon
<1>3. ~Blames(after, cause)
  <2>1. cause = Missing => found
    OBVIOUS
  <2> HIDE DEF found
  <2>2. Blames(after, cause) => ~found /\ Missing = cause
    BY FewBlamed
  <2> HIDE DEF after
  <2> QED
    BY <2>1, <2>2
<1> HIDE DEF before, after, call
<1>4. \A w, v, d : Silent(Call(before, w, after, v, d), cause)
  BY <1>2, <1>3, CallSilent, Zenon
<1>5. Silent(call, cause)
  BY <1>1, <1>4, Zenon
<1> QED
  BY <1>5 DEF call

(* No handler misses a regex, if matches finds its own compiled.           *)
LEMMA HandlerSilent ==
  ASSUME NEW h, NEW args, NEW ps, NEW cache, NEW limit, h.does \in HandlerNames,
         NEW cause, cause \notin CallReasons,
         h.does = "matches" /\ cause = Missing => <<h.flavor, args[2].payload>> \in cache
  PROVE Silent(HandlerCall(h, args, ps, cache, limit), cause)
<1> DEFINE call == HandlerCall(h, args, ps, cache, limit)
<1>1. ~Blames(<<>>, cause)
  BY FewBlamed
<1>2. CASE h.does = "list"
  <2>1. call = Call(<<>>, h.work, <<>>, List(args), h.work)
    BY <1>2 DEF HandlerCall
  <2> QED
    BY <1>1, <2>1, CallSilent
<1>3. CASE h.does = "fail"
  <2> DEFINE after == <<<<FALSE, "handler">>>>
  <2>1. call = Call(<<>>, h.work, after, Failure, h.work)
    BY <1>3 DEF HandlerCall
  <2>2. ~Blames(after, cause)
    <3>1. "handler" # cause
      BY Zenon DEF CallReasons
    <3> QED
      BY <3>1, OtherBlamed, Zenon
  <2> HIDE DEF after
  <2> QED
    BY <1>1, <2>1, <2>2, CallSilent
<1>4. CASE h.does \in {"len", "contains", "contains_key", "starts_with", "ends_with"}
  <2>1. \E holds, v : call = Simple(holds, v)
    <3>1. CASE h.does = "len"
      BY <3>1 DEF HandlerCall
    <3>2. CASE h.does = "contains"
      BY <3>2 DEF HandlerCall, ContainsCall
    <3>3. CASE h.does = "contains_key"
      BY <3>3 DEF HandlerCall
    <3>4. CASE h.does = "starts_with"
      BY <3>4 DEF HandlerCall
    <3>5. CASE h.does = "ends_with"
      BY <3>5 DEF HandlerCall
    <3> QED
      BY <1>4, <3>1, <3>2, <3>3, <3>4, <3>5
  <2> QED
    BY <2>1, SimpleSilent
<1>5. CASE h.does \in {"lower_ascii", "upper_ascii"}
  <2>1. call \in {CaseCall(Lower, args[1], limit), CaseCall(Upper, args[1], limit)}
    <3>1. CASE h.does = "lower_ascii"
      BY <3>1 DEF HandlerCall, CaseCall
    <3>2. CASE h.does = "upper_ascii"
      BY <3>2 DEF HandlerCall, CaseCall
    <3> QED
      BY <1>5, <3>1, <3>2
  <2> QED
    BY <2>1, CaseSilent
<1>6. CASE h.does = "containsAny"
  <2>1. call = PatternSetCall(ps, args[1], args[2])
    BY <1>6 DEF HandlerCall
  <2> QED
    BY <2>1, PatternSetSilent
<1>7. CASE h.does = "matches"
  <2>1. call = RegexCall(cache, h.flavor, args[1], args[2])
    BY <1>7 DEF HandlerCall
  <2> QED
    BY <1>7, <2>1, RegexSilent
<1> QED
  BY <1>2, <1>3, <1>4, <1>5, <1>6, <1>7 DEF HandlerNames

(* Lists of which none is to blame are not either, one after the other.    *)
LEMMA FlattenSilent ==
  ASSUME NEW seqs, Listed(seqs), NEW r,
         \A k \in DOMAIN seqs : Listed(seqs[k]) /\ ~Blames(seqs[k], r)
  PROVE Listed(FlattenSeq(seqs)) /\ ~Blames(FlattenSeq(seqs), r)
<1> DEFINE n == Len(seqs)
           flat == CHOOSE f : Flattens(f, seqs, n)
<1>1. n \in Nat /\ DOMAIN seqs = 1 .. n
  BY ListedProperties
<1>2. CASE n = 0
  <2>1. FlattenSeq(seqs) = seqs /\ DOMAIN seqs = {}
    BY <1>1, <1>2 DEF FlattenSeq
  <2> QED
    BY <2>1 DEF Blames
<1>3. CASE n # 0
  <2>1. FlattenSeq(seqs) = flat[n]
    BY <1>3, Zenon DEF FlattenSeq, Flattens, Longer
  <2> HIDE DEF n
  <2> DEFINE S == {m \in 0 .. n : \E f : Flattens(f, seqs, m)}
  <2>2. 0 \in S
    <3> DEFINE f == [i \in 1 .. 0 |-> i]
    <3>1. Flattens(f, seqs, 0)
      BY DEF Flattens
    <3> QED
      BY <1>1, <3>1
  <2>3. ASSUME NEW m \in 1 .. n, m - 1 \in S PROVE m \in S
    <3>1. PICK f : Flattens(f, seqs, m - 1)
      BY <2>3
    <3> DEFINE last == Longer(f, seqs, m)
               g == [i \in 1 .. m |-> IF i = m THEN last ELSE f[i]]
    <3>2. \A i \in 1 .. m - 1 : f[i] = Longer(f, seqs, i)
      BY <3>1 DEF Flattens
    <3> HIDE DEF last
    <3>3. ASSUME NEW i \in 1 .. m PROVE g[i] = Longer(g, seqs, i)
      <4>1. g[i] = IF i = m THEN last ELSE f[i]
        OBVIOUS
      <4>2. i # 1 => i - 1 \in 1 .. m /\ i - 1 # m
        BY <1>1
      <4>3. i # 1 => g[i - 1] = f[i - 1]
        BY <4>2
      <4>4. i # m => i \in 1 .. m - 1
        BY <1>1
      <4> HIDE DEF g
      <4>5. Longer(g, seqs, i) = Longer(f, seqs, i)
        BY <4>3 DEF Longer
      <4> QED
        BY <3>2, <4>1, <4>4, <4>5 DEF last
    <3>4. g = [i \in 1 .. m |-> Longer(g, seqs, i)]
      <4>1. g = [i \in 1 .. m |-> g[i]]
        OBVIOUS
      <4> HIDE DEF g
      <4> QED
        BY <3>3, <4>1
    <3>5. Flattens(g, seqs, m)
      BY <3>4 DEF Flattens
    <3>6. m \in 0 .. n
      BY <1>1
    <3> QED
      BY <3>5, <3>6
  <2>4. n \in S
    <3> HIDE DEF S
    <3>1. \A m \in 0 .. n : m \in S
      BY <1>1, <2>2, <2>3, UpTo
    <3> QED
      BY <1>1, <3>1
  <2>5. Flattens(flat, seqs, n)
    BY <2>4, Zenon
  <2> HIDE DEF flat, S
  <2>6. \A i \in 1 .. n : flat[i] = IF i = 1 THEN seqs[i] ELSE flat[i - 1] \o seqs[i]
    BY <2>5 DEF Flattens, Longer
  <2> DEFINE Good(i) == Listed(flat[i]) /\ ~Blames(flat[i], r)
             T == {0} \cup {i \in 1 .. n : Good(i)}
  <2>7. ASSUME NEW i \in 1 .. n, i - 1 \in T PROVE i \in T
    <3>1. Listed(seqs[i]) /\ ~Blames(seqs[i], r)
      BY <1>1
    <3>2. CASE i = 1
      BY <2>6, <3>1, <3>2
    <3>3. CASE i # 1
      <4>1. Good(i - 1)
        BY <1>1, <2>7, <3>3
      <4>2. flat[i] = flat[i - 1] \o seqs[i]
        BY <2>6, <3>3
      <4>3. Good(i)
        BY <3>1, <4>1, <4>2, BlamesConcat, ConcatListed
      <4> QED
        BY <4>3
    <3> QED
      BY <3>2, <3>3
  <2>8. n \in T
    <3>1. 0 \in T
      OBVIOUS
    <3> HIDE DEF T
    <3>2. \A m \in 0 .. n : m \in T
      BY <1>1, <2>7, <3>1, UpTo
    <3> QED
      BY <1>1, <3>2
  <2> QED
    BY <1>1, <1>3, <2>1, <2>8
<1> QED
  BY <1>2, <1>3

(* Compiling pattern sets fails for reasons of its own.                    *)
LEMMA SetsSilent ==
  ASSUME NEW configs, Listed(configs), NEW l, NEW r, r \notin SetVerdicts
  PROVE Listed(SetChecks(configs, l)) /\ ~Blames(SetChecks(configs, l), r)
<1>1. ASSUME NEW k PROVE Listed(ConfigChecks(configs, k, l))
                         /\ ~Blames(ConfigChecks(configs, k, l), r)
  <2>1. \E a, b, c, d, e, f, g, h : ConfigChecks(configs, k, l) =
          <<<<a, "sets">>, <<b, "name">>, <<c, "blank name">>, <<d, "patterns">>, <<e, "pattern">>,
            <<f, "names">>, <<g, "duplicate">>, <<h, "pattern bytes">>>>
    BY Zenon DEF ConfigChecks
  <2> DEFINE x1 == "sets"
             x2 == "name"
             x3 == "blank name"
             x4 == "patterns"
             x5 == "pattern"
             x6 == "names"
             x7 == "duplicate"
             x8 == "pattern bytes"
  <2>2. /\ x1 # r /\ x2 # r /\ x3 # r /\ x4 # r
        /\ x5 # r /\ x6 # r /\ x7 # r /\ x8 # r
    BY Zenon DEF SetVerdicts
  <2> HIDE DEF x1, x2, x3, x4, x5, x6, x7, x8
  <2>3. PICK a, b, c, d, e, f, g, h : ConfigChecks(configs, k, l) =
          <<<<a, x1>>, <<b, x2>>, <<c, x3>>, <<d, x4>>, <<e, x5>>, <<f, x6>>, <<g, x7>>, <<h, x8>>>>
    BY <2>1, Zenon DEF x1, x2, x3, x4, x5, x6, x7, x8
  <2> DEFINE A == <<a, x1>>
             B == <<b, x2>>
             C == <<c, x3>>
             D == <<d, x4>>
             E == <<e, x5>>
             F == <<f, x6>>
             G == <<g, x7>>
             H == <<h, x8>>
             s == <<A, B, C, D, E, F, G, H>>
  <2>4. /\ A[2] = x1 /\ B[2] = x2 /\ C[2] = x3 /\ D[2] = x4
        /\ E[2] = x5 /\ F[2] = x6 /\ G[2] = x7 /\ H[2] = x8
    OBVIOUS
  <2> HIDE DEF A, B, C, D, E, F, G, H
  <2>5. /\ DOMAIN s = 1 .. 8 /\ s[1] = A /\ s[2] = B /\ s[3] = C /\ s[4] = D
        /\ s[5] = E /\ s[6] = F /\ s[7] = G /\ s[8] = H
    OBVIOUS
  <2>6. Listed(s)
    <3>1. s \in Seq({A, B, C, D, E, F, G, H})
      OBVIOUS
    <3> HIDE DEF s
    <3> QED
      BY <3>1, SequenceListed
  <2> HIDE DEF s
  <2>7. \A i \in 1 .. 8 : i = 1 \/ i = 2 \/ i = 3 \/ i = 4 \/ i = 5 \/ i = 6 \/ i = 7 \/ i = 8
    OBVIOUS
  <2>8. \A i \in DOMAIN s : s[i][2] # r
    BY <2>2, <2>4, <2>5, <2>7, Zenon
  <2>9. ~Blames(s, r)
    BY <2>8 DEF Blames
  <2> QED
    BY <2>3, <2>6, <2>9 DEF s, A, B, C, D, E, F, G, H
<1> DEFINE seqs == [k \in DOMAIN configs |-> ConfigChecks(configs, k, l)]
           p == Total(LAMBDA c : Len(Regexes(c)), configs) * l.compiled <= l.allCompiled
           q == \A k \in DOMAIN configs : ToSet(Regexes(configs[k])) \cap Malformed = {}
           last == <<<<p, "compiled">>, <<q, "invalid regex">>>>
<1>2. Listed(seqs)
  <2>1. DOMAIN configs = 1 .. Len(configs) /\ Len(configs) \in Nat
    BY ListedProperties
  <2> DEFINE E == {ConfigChecks(configs, k, l) : k \in DOMAIN configs}
  <2>2. seqs \in [1 .. Len(configs) -> E]
    BY <2>1
  <2>3. seqs \in Seq(E)
    BY <2>1, <2>2, SeqDef
  <2> HIDE DEF seqs, E
  <2> QED
    BY <2>3, SequenceListed
<1>3. \A k \in DOMAIN seqs : Listed(seqs[k]) /\ ~Blames(seqs[k], r)
  BY <1>1
<1>4. SetChecks(configs, l) = FlattenSeq(seqs) \o last
  BY Zenon DEF SetChecks
<1>5. Listed(last) /\ ~Blames(last, r)
  <2> HIDE DEF p, q
  <2>1. "compiled" # r /\ "invalid regex" # r
    BY Zenon DEF SetVerdicts
  <2>2. Blames(last, r) => "compiled" = r \/ "invalid regex" = r
    BY FewBlamed, Zenon
  <2>3. Listed(last)
    BY ListedTuples
  <2> QED
    BY <2>1, <2>2, <2>3
<1> HIDE DEF seqs, last
<1> DEFINE all == FlattenSeq(seqs)
<1>6. Listed(all) /\ ~Blames(all, r)
  BY <1>2, <1>3, FlattenSilent
<1> HIDE DEF all
<1>7. Listed(all \o last) /\ ~Blames(all \o last, r)
  BY <1>5, <1>6, BlamesConcat, ConcatListed
<1> QED
  BY <1>4, <1>7 DEF all

(* Accepted programs have those patterns compiled.                         *)
LEMMA AcceptedCompiled ==
  ASSUME Accepted, IsProgram(program)
  PROVE Compiled(VerifiedProgram)
<1> DEFINE V == VerifiedProgram
<1>1. /\ V.tickets = Resolved /\ V.cache = RegexCache
      /\ V.required = [t \in {Ticket(i) : i \in Resolved} |->
                         MetaOf(CHOOSE i \in Resolved : Ticket(i) = t)]
  BY DEF VerifiedProgram
<1> HIDE DEF V
<1> SUFFICES ASSUME profile.regex = "literal", NEW i \in Resolved,
                    program.kind[i] = "method", Len(program.kids[i]) = 2,
                    NEW a \in ToSet(V.required[Ticket(i)].regex), a[1] = 0
             PROVE /\ program.kind[PatternOf(i)] = "literal"
                   /\ <<a[2], program.literal[PatternOf(i)].payload>> \in V.cache
  BY <1>1, Zenon DEF Compiled, V
<1>2. V.required[Ticket(i)] = MetaOf(i)
  <2> DEFINE j == CHOOSE k \in Resolved : Ticket(k) = Ticket(i)
  <2>1. j \in Resolved /\ Ticket(j) = Ticket(i)
    OBVIOUS
  <2>2. V.required[Ticket(i)] = MetaOf(j)
    BY <1>1
  <2> HIDE DEF j
  <2>3. MetaOf(j) = MetaOf(i)
    BY <2>1, Zenon DEF MetaOf, Known
  <2> QED
    BY <2>2, <2>3
<1>3. i \in Calls /\ i \in Nodes
  BY DEF Resolved, Operations, Calls
<1>4. Place(i, a[1]) = 2
  BY DEF Place, Receivers
<1>5. 2 \in DOMAIN program.kids[i]
  <2>1. DOMAIN program.kids[i] = 1 .. Len(program.kids[i])
    BY <1>3, ProgramOperands DEF Nodes
  <2> QED
    BY <2>1
<1> DEFINE arg == PatternOf(i)
           pattern == program.literal[arg].payload
           b == <<arg, a[2]>>
<1>6. b \in RegexArgs
  <2>1. a \in {c \in ToSet(MetaOf(i).regex) : Place(i, c[1]) \in DOMAIN program.kids[i]}
    BY <1>2, <1>4, <1>5
  <2>2. b = <<program.kids[i][Place(i, a[1])], a[2]>>
    BY <1>4 DEF PatternOf
  <2>3. b \in {<<program.kids[i][Place(i, c[1])], c[2]>> :
                  c \in {d \in ToSet(MetaOf(i).regex) : Place(i, d[1]) \in DOMAIN program.kids[i]}}
    BY <2>1, <2>2, Zenon
  <2>4. i \in Resolved \cap Calls
    BY <1>3
  <2> HIDE DEF b
  <2> QED
    BY <2>3, <2>4, Zenon DEF RegexArgs
<1>7. b[1] = arg /\ b[2] = a[2]
  OBVIOUS
<1> HIDE DEF b
<1>8. ~RegexProblem(arg)
  BY <1>6, <1>7 DEF Accepted
<1>9. IsPattern(arg) /\ pattern \notin Malformed
  BY <1>8 DEF RegexProblem
<1>10. <<b[2], program.literal[b[1]].payload>> \in RegexCache
  BY <1>6, <1>7, <1>9, Zenon DEF RegexCache
<1> QED
  BY <1>1, <1>7, <1>9, <1>10 DEF IsPattern

-----------------------------------------------------------------------------
\* What the operands that are literals evaluate to.

(* A call that holds nothing.                                              *)
LEMMA LiteralsNone ==
  /\ \A p, f : f.vals = <<>> => Literals(p, f)
  /\ \A p, fs : fs = <<>> => LiteralsHeld(p, fs)
<1>1. DOMAIN <<>> = {}
  OBVIOUS
<1> QED
  BY <1>1, Zenon DEF Literals, LiteralsHeld

(* A call more.                                                            *)
LEMMA LiteralsPush ==
  ASSUME NEW p, NEW fs, Listed(fs), LiteralsHeld(p, fs), NEW f, f.vals = <<>>
  PROVE LiteralsHeld(p, Append(fs, f))
<1> DEFINE gs == Append(fs, f)
           n == Len(fs)
<1>1. n \in Nat /\ DOMAIN fs = 1 .. n
  BY ListedProperties
<1>2. /\ Listed(gs) /\ Len(gs) = n + 1 /\ \A k \in DOMAIN fs : gs[k] = fs[k]
      /\ gs[n + 1] = f
  BY AppendListed
<1> HIDE DEF gs
<1>3. DOMAIN gs = 1 .. n + 1
  BY <1>2, ListedProperties
<1>4. Literals(p, f)
  BY LiteralsNone
<1> HIDE DEF n
<1> SUFFICES ASSUME NEW k \in 1 .. n + 1 PROVE Literals(p, gs[k])
  BY <1>3 DEF LiteralsHeld, gs
<1>5. CASE k = n + 1
  BY <1>2, <1>4, <1>5
<1>6. CASE k # n + 1
  <2>1. k \in DOMAIN fs
    BY <1>1, <1>6
  <2> QED
    BY <1>2, <2>1 DEF LiteralsHeld
<1> QED
  BY <1>5, <1>6

(* The last call binds its arguments.                                      *)
LEMMA LiteralsBind ==
  ASSUME NEW p, NEW fs, Listed(fs), fs # <<>>, LiteralsHeld(p, fs), NEW gs, Binds(fs, gs)
  PROVE LiteralsHeld(p, gs)
<1> DEFINE n == Len(fs)
<1>1. n \in Nat /\ n > 0 /\ DOMAIN fs = 1 .. n
  BY ListedProperties
<1>2. DOMAIN gs = 1 .. n
  BY ListedProperties DEF Binds
<1>3. /\ \A k \in 1 .. n - 1 : gs[k] = fs[k]
      /\ gs[n].vals = <<>>
  BY DEF Binds
<1>4. Literals(p, gs[n])
  BY <1>3, LiteralsNone
<1> HIDE DEF n
<1> SUFFICES ASSUME NEW k \in 1 .. n PROVE Literals(p, gs[k])
  BY <1>2 DEF LiteralsHeld
<1>5. CASE k = n
  BY <1>4, <1>5
<1>6. CASE k # n
  <2>1. k \in 1 .. n - 1
    BY <1>1, <1>6
  <2> QED
    BY <1>1, <1>3, <2>1 DEF LiteralsHeld
<1> QED
  BY <1>5, <1>6

(* The last call returns, a literal itself.                                *)
LEMMA LiteralsAnswer ==
  ASSUME NEW p, IsProgram(p), NEW fs, PathOf(p, fs), fs # <<>>, LiteralsHeld(p, fs),
         NEW gs, NEW v, Answers(fs, gs, v),
         p.kind[fs[Len(fs)].node] = "literal" => v = p.literal[fs[Len(fs)].node]
  PROVE LiteralsHeld(p, gs)
<1> DEFINE n == Len(fs)
           m == n - 1
<1>1. Listed(fs) /\ \A k \in DOMAIN fs : Placed(p, fs[k])
  BY DEF PathOf
<1>2. n \in Nat /\ DOMAIN fs = 1 .. n /\ n > 0
  BY <1>1, ListedProperties
<1>3. n - 2 = m - 1 /\ m \in Nat /\ n = m + 1 /\ (n > 1 <=> m > 0)
  BY <1>2
<1>4. /\ Listed(gs) /\ Len(gs) = m
      /\ \A k \in 1 .. m - 1 : gs[k] = fs[k]
      /\ m > 0 => gs[m] = [node |-> fs[m].node, vals |-> Append(fs[m].vals, v),
                           bound |-> fs[m].bound]
  BY <1>3 DEF Answers
<1>5. p.kind[fs[n].node] = "literal" => v = p.literal[fs[n].node]
  OBVIOUS
<1> HIDE DEF n, m
<1>6. DOMAIN gs = 1 .. m
  BY <1>4, ListedProperties
<1>7. ASSUME m > 0 PROVE Literals(p, gs[m])
  <2>1. m \in DOMAIN fs /\ m # n /\ m + 1 = n
    BY <1>2, <1>3, <1>7
  <2>2. Placed(p, fs[m]) /\ Awaits(p, fs[m]) /\ fs[n].node = Awaited(p, fs[m])
        /\ Literals(p, fs[m])
    BY <1>1, <2>1 DEF PathOf, n, LiteralsHeld
  <2> DEFINE f == fs[m]
             g == gs[m]
             i == fs[n].node
             l == Len(f.vals)
  <2>3. g.node = f.node /\ g.vals = Append(f.vals, v)
    BY <1>4, <1>7
  <2>4. Placed(p, f) /\ i = Awaited(p, f) /\ Literals(p, f)
        /\ (p.kind[i] = "literal" => v = p.literal[i])
    BY <1>5, <2>2
  <2> HIDE DEF f, g, i
  <2>5. Listed(f.vals)
    BY <2>4 DEF Placed
  <2>6. /\ l \in Nat /\ DOMAIN f.vals = 1 .. l
        /\ Listed(g.vals) /\ Len(g.vals) = l + 1 /\ g.vals[l + 1] = v
        /\ \A k \in DOMAIN f.vals : g.vals[k] = f.vals[k]
    BY <2>3, <2>5, AppendListed, ListedProperties
  <2>7. DOMAIN g.vals = 1 .. l + 1
    BY <2>6, ListedProperties
  <2> HIDE DEF l
  <2>8. ~FunctionNode(p, f.node) => i = p.kids[f.node][l + 1]
    <3> SUFFICES ASSUME ~FunctionNode(p, f.node) PROVE i = p.kids[f.node][l + 1]
      OBVIOUS
    <3>1. ~f.bound
      BY <2>4 DEF Placed
    <3>2. Position(p, f) = l + 1
      BY <2>6, <3>1 DEF Position, l
    <3> QED
      BY <2>4, <3>2 DEF Awaited
  <2>9. ASSUME ~FunctionNode(p, f.node), NEW j \in 1 .. l + 1, p.kind[p.kids[f.node][j]] = "literal"
        PROVE g.vals[j] = p.literal[p.kids[f.node][j]]
    <3>1. CASE j = l + 1
      BY <2>4, <2>6, <2>8, <2>9, <3>1
    <3>2. CASE j # l + 1
      <4>1. j \in DOMAIN f.vals
        BY <2>6, <3>2
      <4> QED
        BY <2>4, <2>6, <2>9, <4>1 DEF Literals
    <3> QED
      BY <3>1, <3>2
  <2>10. Literals(p, g)
    BY <2>3, <2>7, <2>9 DEF Literals
  <2> QED
    BY <2>10 DEF g
<1> SUFFICES ASSUME NEW k \in 1 .. m PROVE Literals(p, gs[k])
  BY <1>6 DEF LiteralsHeld
<1>8. CASE k = m
  <2>1. m > 0
    BY <1>3, <1>8
  <2> QED
    BY <1>7, <1>8, <2>1
<1>9. CASE k # m
  <2>1. k \in 1 .. m - 1 /\ k \in DOMAIN fs
    BY <1>2, <1>3, <1>9
  <2> QED
    BY <1>4, <2>1 DEF LiteralsHeld
<1> QED
  BY <1>8, <1>9

(* A handler that a node finds misses no regex.                            *)
LEMMA HandledSilent ==
  ASSUME DispatchInv, PathInv, NEW S, Owned(S), Ready,
         Kind \in {"function", "method", "unary", "binary"}, Registered(Ticket(Node)) # {},
         NEW cause, cause \notin CallReasons, cause = Missing => RegexFacts
  PROVE Silent(Handled(Ticket(Node), Vals), cause)
<1> DEFINE t == Ticket(Node)
           e == Entry(t)
           h == e.handler
<1>1. request \in Requests /\ PathInv /\ Running /\ DispatchInv
  BY DEF PathInv, Ready
<1>2. e \in ToSet(context.registry) /\ e.ticket = t
  BY <1>1, EntryFound
<1>3. /\ Node \in Nodes /\ IsProgram(program) /\ Called(Top)
      /\ Vals \in Seq(S) /\ Len(Vals) \in Nat
      /\ Len(Operands) \in OperandsOf(Kind)
      /\ ~IsLogical => Len(Vals) = Len(Operands)
  BY <1>1, ReadyOperands
<1>4. ~IsLogical
  BY DEF IsLogical
<1>5. /\ t[1] = Kind
      /\ Kind = "method" => t[3] = Len(Operands) - 1
  BY <1>3, TicketParts
<1>6. Node \in verified.tickets
  BY <1>3 DEF Called, Dispatches, Dispatching, Kind, Node
<1>7. t \in DOMAIN verified.required /\ MetadataOf(t) = verified.required[t]
  BY <1>1, <1>6 DEF DispatchInv, Sound, Verified
<1>8. MetadataOf(t) = e.meta
  BY Zenon DEF MetadataOf
<1> HIDE DEF t
<1>9. /\ h.does \in HandlerNames
      /\ Reads(h.does) => e.ticket[1] = "method"
      /\ h.does \in {"containsAny", "matches"} => e.ticket[3] = 1
  <2> HIDE DEF e
  <2> QED
    BY <1>1, <1>2, ContextAssumption, Zenon DEF context
<1>10. h.does = "matches" /\ cause = Missing => <<0, h.flavor>> \in ToSet(e.meta.regex)
  <2>1. \E k \in DOMAIN context.registry : context.registry[k] = e
    BY <1>2 DEF ToSet
  <2> HIDE DEF e
  <2> QED
    BY <2>1, Zenon DEF RegexFacts, Declared
<1> HIDE DEF h, e
<1>11. h.does = "matches" /\ cause = Missing => <<h.flavor, Vals[2].payload>> \in verified.cache
  <2> SUFFICES ASSUME h.does = "matches", cause = Missing
               PROVE <<h.flavor, Vals[2].payload>> \in verified.cache
    OBVIOUS
  <2> DEFINE n == Len(Operands)
             arg == PatternOf(Node)
             a == <<0, h.flavor>>
  <2>1. Kind = "method" /\ n - 1 = 1
    BY <1>2, <1>5, <1>9 DEF Reads
  <2>2. n \in Nat
    BY <1>3, <1>4
  <2>3. n = 2 /\ Len(Vals) = 2
    <3>1. Len(Vals) = n
      BY <1>3, <1>4
    <3> HIDE DEF n
    <3> QED
      BY <2>1, <2>2, <3>1
  <2>4. a[1] = 0 /\ a[2] = h.flavor
    OBVIOUS
  <2>5. a \in ToSet(verified.required[t].regex)
    BY <1>7, <1>8, <1>10
  <2> HIDE DEF a
  <2>6. /\ program.kind[arg] = "literal"
        /\ <<a[2], program.literal[arg].payload>> \in verified.cache
    <3>1. program.kind[Node] = "method" /\ Len(program.kids[Node]) = 2
      BY <2>1, <2>3 DEF Kind, Operands
    <3> QED
      BY <1>6, <2>4, <2>5, <3>1 DEF RegexFacts, Compiled, t
  <2>7. Vals[2] = program.literal[arg]
    <3>1. Len(frames) \in DOMAIN frames
      BY <1>1, TopPlaced DEF Ready
    <3>2. Literals(program, Top)
      BY <3>1 DEF RegexFacts, LiteralsHeld, Top
    <3>3. ~FunctionNode(program, Top.node)
      BY <2>1 DEF FunctionNode, Kind, Node
    <3>4. 2 \in DOMAIN Vals
      BY <1>3, <2>3
    <3> QED
      BY <2>6, <3>2, <3>3, <3>4 DEF Literals, PatternOf, Node, Vals
  <2> QED
    BY <2>4, <2>6, <2>7
<1>12. Silent(HandlerCall(h, Vals, sets, verified.cache, limits.string), cause)
  BY <1>9, <1>11, HandlerSilent
<1> QED
  BY <1>12, Zenon DEF Handled, h, e, t

(* No node's conclusion misses a regex.                                    *)
LEMMA MadeSilent ==
  ASSUME DispatchInv, PathInv, NEW S, Owned(S), Ready, NEW made, Makes(made),
         NEW cause, cause \notin CallReasons, cause = Missing => RegexFacts
  PROVE Silent(made, cause)
<1> DEFINE name == program.name[Node]
           none == ""
           unknown == "unknown variable"
           member == "no member"
<1>1. none # cause /\ unknown # cause /\ member # cause
  BY Zenon DEF CallReasons
<1> HIDE DEF none, unknown, member
<1>2. /\ \A b, v : Silent(Given(b, none, v), cause) /\ Silent(Given(b, unknown, v), cause)
                   /\ Silent(Given(b, member, v), cause)
  BY <1>1, GivenSilent
<1>3. \A b, v : Silent(Simple(b, v), cause)
  BY SimpleSilent
<1>4. PathInv /\ DispatchInv /\ Running
  BY DEF Ready
<1>5. Node \in Nodes /\ Called(Top)
  BY <1>4, ReadyOperands
<1>6. CASE Kind \in {"function", "method"} /\ made = Handled(Ticket(Node), Vals)
  <2>1. Registered(Ticket(Node)) # {}
    BY <1>4, <1>5, <1>6, CallFound
  <2> QED
    BY <1>6, <2>1, HandledSilent
<1>7. CASE Kind \in {"unary", "binary"} /\ made = OperatorCall(Ticket(Node), Vals)
  <2> DEFINE t == Ticket(Node)
  <2>1. CASE Registered(t) # {}
    <3>1. OperatorCall(t, Vals) = Handled(t, Vals)
      BY <2>1, Zenon DEF OperatorCall
    <3>2. Silent(Handled(t, Vals), cause)
      BY <1>7, <2>1, HandledSilent
    <3> QED
      BY <1>7, <3>1, <3>2
  <2>2. CASE ~(Registered(t) # {})
    <3>1. OperatorCall(t, Vals) = BuiltinCall(t[2], Vals, limits.string)
      BY <2>2, Zenon DEF OperatorCall
    <3> QED
      BY <1>7, <3>1, BuiltinSilent
  <2> QED
    BY <2>1, <2>2
<1>8. \A object, word : Silent(MemberCall(object, word), cause)
  BY <1>2, Zenon DEF MemberCall, member
<1>9. \/ \E b, v : made = Given(b, none, v) \/ made = Given(b, unknown, v)
      \/ \E object, word : made = MemberCall(object, word)
      \/ Kind \in {"function", "method"} /\ made = Handled(Ticket(Node), Vals)
      \/ Kind \in {"unary", "binary"} /\ made = OperatorCall(Ticket(Node), Vals)
      \/ \E b, v : made = Simple(b, v)
  BY Zenon DEF Makes, none, unknown
<1> QED
  BY <1>2, <1>3, <1>6, <1>7, <1>8, <1>9, Zenon

(* A literal's conclusion is the literal.                                  *)
LEMMA MadeLiteral ==
  ASSUME NEW made, Makes(made), Kind = "literal"
  PROVE made.value = program.literal[Node]
<1>1. made = Given(TRUE, "", program.literal[Node])
  <2>1. "literal" \notin {"function", "method"} /\ "literal" \notin {"unary", "binary"}
        /\ ~IsLogical
    BY DEF IsLogical
  <2>2. "literal" # "identifier" /\ "literal" # "array" /\ "literal" # "member"
    OBVIOUS
  <2> QED
    BY <2>1, <2>2, Zenon DEF Makes
<1> DEFINE v == program.literal[Node]
<1> HIDE DEF v
<1>2. \E b : Given(TRUE, "", v) = Call(b, 0, <<>>, v, 0)
  BY Zenon DEF Given
<1>3. \A b : Call(b, 0, <<>>, v, 0).value = v
  BY DEF Call
<1> QED
  BY <1>1, <1>2, <1>3 DEF v

(* A conclusion returns its value when all its checks hold; otherwise it   *)
(* ends the request, at a limit or for a check of the call that fails.     *)
LEMMA ConclusionEnds ==
  ASSUME NEW made, Listed(made.before), Listed(made.after), Conclude(made)
  PROVE \/ /\ Return(made.value) /\ UNCHANGED <<inputs, locals>>
           /\ AllHold(made.before) /\ AllHold(made.after)
        \/ \E reason : /\ Stop(reason)
                       /\ \/ reason \in LimitVerdicts
                          \/ Blames(made.before, reason) \/ Blames(made.after, reason)
<1> DEFINE value == made.value
           work == "work"
           string == "string"
           bytes == "value"
           total == "total"
           p == processed + made.work <= limits.total
           a == value.longest <= limits.string
           b == value.bytes <= limits.value
           c == Charged(value, made.work) <= limits.total
           one == <<<<p, work>>>>
           last == <<<<a, string>>, <<b, bytes>>, <<c, total>>>>
           most == made.before \o one
           more == most \o made.after
           checks == more \o last
           r == FirstFailure(checks)
<1>1. \/ Return(value) /\ UNCHANGED <<inputs, locals>> /\ AllHold(checks)
      \/ ~AllHold(checks) /\ Stop(r)
  BY Zenon DEF Conclude
<1>2. {work, string, bytes, total} \subseteq LimitVerdicts
  BY Zenon DEF LimitVerdicts
<1> HIDE DEF p, a, b, c, work, string, bytes, total
<1>3. \A x : Blames(one, x) => work = x
  BY FewBlamed, Zenon
<1>4. \A x : Blames(last, x) => string = x \/ bytes = x \/ total = x
  BY FewBlamed, Zenon
<1>5. Listed(one) /\ Listed(last)
  BY ListedTuples
<1> HIDE DEF one, last, r
<1>6. /\ Listed(most) /\ (AllHold(most) => AllHold(made.before))
      /\ (Blames(most, r) => Blames(made.before, r) \/ Blames(one, r))
  BY <1>5, ConcatListed, BlamesConcat, AllHoldConcat
<1> HIDE DEF most
<1>7. /\ Listed(more) /\ (AllHold(more) => AllHold(most) /\ AllHold(made.after))
      /\ (Blames(more, r) => Blames(most, r) \/ Blames(made.after, r))
  BY <1>6, ConcatListed, BlamesConcat, AllHoldConcat
<1> HIDE DEF more
<1>8. /\ Listed(checks) /\ (AllHold(checks) => AllHold(more))
      /\ (Blames(checks, r) => Blames(more, r) \/ Blames(last, r))
  BY <1>5, <1>7, ConcatListed, BlamesConcat, AllHoldConcat
<1> HIDE DEF checks
<1>9. CASE ~AllHold(checks) /\ Stop(r)
  <2>1. Blames(checks, r)
    BY <1>8, <1>9, FirstBlamed DEF r
  <2>2. r \in LimitVerdicts \/ Blames(made.before, r) \/ Blames(made.after, r)
    BY <1>2, <1>3, <1>4, <1>6, <1>7, <1>8, <2>1
  <2> QED
    BY <1>9, <2>2
<1> QED
  BY <1>1, <1>6, <1>7, <1>8, <1>9

(* A conclusion ends the request for a limit, or for what fails in it.     *)
LEMMA ConcludeVerdict ==
  ASSUME NEW made, Listed(made.before), Listed(made.after), Conclude(made),
         NEW r, r \notin LimitVerdicts, r # "done",
         ~Blames(made.before, r), ~Blames(made.after, r), verdict # r
  PROVE verdict' # r
<1>1. \/ Return(made.value)
      \/ \E reason : Stop(reason) /\ reason # r
  <2>1. ASSUME NEW reason, \/ reason \in LimitVerdicts
                           \/ Blames(made.before, reason) \/ Blames(made.after, reason)
        PROVE reason # r
    BY <2>1
  <2> QED
    BY <2>1, ConclusionEnds
<1>2. ASSUME NEW reason, Stop(reason), reason # r PROVE verdict' # r
  BY <1>2, Zenon DEF Stop, End
<1>3. CASE Return(made.value)
  <2>1. "done" # r
    OBVIOUS
  <2>2. verdict' = verdict \/ verdict' = "done"
    BY <1>3, Zenon DEF Return, End
  <2> QED
    BY <2>1, <2>2
<1> QED
  BY <1>1, <1>2, <1>3

(* Beginning to evaluate a node ends the request for a limit, for the      *)
(* arguments of a function or for want of a ticket.                        *)
LEMMA EnterVerdict ==
  ASSUME NEW i, Enter(i), NEW r, r \notin LimitVerdicts, r # "arity",
         r = "unresolved" => (Dispatches(i) => i \in verified.tickets), verdict # r
  PROVE verdict' # r
<1> DEFINE checks == EntryChecks(i)
           x1 == "steps"
           x2 == "depth"
           x3 == "items"
           x4 == "unresolved"
           x5 == "arity"
           d == program.kind[i] \in Dispatching => i \in verified.tickets
<1>1. \E a, b, c, e : checks = <<<<a, x1>>, <<b, x2>>, <<c, x3>>, <<d, x4>>, <<e, x5>>>>
  BY Zenon DEF EntryChecks
<1>2. x1 # r /\ x2 # r /\ x3 # r /\ (x4 = r => d) /\ x5 # r
  BY Zenon DEF LimitVerdicts, Dispatches
<1> HIDE DEF x1, x2, x3, x4, x5, d
<1>3. PICK a, b, c, e : checks = <<<<a, x1>>, <<b, x2>>, <<c, x3>>, <<d, x4>>, <<e, x5>>>>
  BY <1>1, Zenon
<1> DEFINE A == <<a, x1>>
           B == <<b, x2>>
           C == <<c, x3>>
           D == <<d, x4>>
           E == <<e, x5>>
           s == <<A, B, C, D, E>>
<1>4. A[2] = x1 /\ B[2] = x2 /\ C[2] = x3 /\ D[1] = d /\ D[2] = x4 /\ E[2] = x5
  OBVIOUS
<1> HIDE DEF A, B, C, D, E
<1>5. DOMAIN s = 1 .. 5 /\ s[1] = A /\ s[2] = B /\ s[3] = C /\ s[4] = D /\ s[5] = E
  OBVIOUS
<1>6. Listed(s)
  <2>1. s \in Seq({A, B, C, D, E})
    OBVIOUS
  <2> HIDE DEF s
  <2> QED
    BY <2>1, SequenceListed
<1> HIDE DEF s
<1>7. \A k \in 1 .. 5 : k = 1 \/ k = 2 \/ k = 3 \/ k = 4 \/ k = 5
  OBVIOUS
<1>8. \A k \in DOMAIN s : s[k][2] = r => s[k][1]
  BY <1>2, <1>4, <1>5, <1>7, Zenon
<1>9. ~Blames(s, r)
  BY <1>8 DEF Blames
<1>10. checks = s
  BY <1>3 DEF s, A, B, C, D, E
<1>11. CASE verdict' = verdict
  BY <1>11
<1>12. CASE ~AllHold(checks) /\ Stop(FirstFailure(checks))
  <2>1. verdict' = FirstFailure(checks)
    BY <1>12 DEF Stop, End
  <2> HIDE DEF checks
  <2>2. Blames(checks, FirstFailure(checks))
    BY <1>6, <1>10, <1>12, FirstBlamed
  <2> QED
    BY <1>9, <1>10, <2>1, <2>2
<1>13. verdict' = verdict \/ (~AllHold(checks) /\ Stop(FirstFailure(checks)))
  BY Zenon DEF Enter
<1> QED
  BY <1>11, <1>12, <1>13

-----------------------------------------------------------------------------
\* The policy that demands literals compiles every pattern that is looked up.

(* Nothing is held, compiled or missed at first.                           *)
LEMMA RegexInit == Init => RegexInv
<1> SUFFICES ASSUME Init PROVE RegexInv
  OBVIOUS
<1>1. PaidInv
  BY PaidInit
<1>2. frames = <<>> /\ verified = NoProgram /\ verdict = "none"
  BY DEF Init
<1>3. LiteralsHeld(program, frames)
  BY <1>2, LiteralsNone
<1>4. Compiled(verified)
  BY <1>2 DEF NoProgram, Compiled
<1>5. RegexesFound
  BY <1>2 DEF RegexesFound
<1> QED
  BY <1>1, <1>3, <1>4, <1>5 DEF RegexInv

(* What a conclusion is made with.                                         *)
LEMMA ConclusionTold ==
  ASSUME RegexInv, Conclusion
  PROVE \E made : /\ Ready /\ Conclude(made) /\ Listed(made.before) /\ Listed(made.after)
                  /\ Kind = "literal" => made.value = program.literal[Node]
                  /\ profile.regex = "literal" /\ Declared => Silent(made, Missing)
<1>1. PaidInv
  BY DEF RegexInv
<1>2. PICK S : Solvent(frames, locals, result, stage, history.worked, processed, limits.total, S)
  BY <1>1 DEF PaidInv
<1>3. Owned(S) /\ DispatchInv /\ ScopeInv /\ SetsFit(sets)
  BY <1>1, <1>2 DEF PaidInv, Solvent, Owned
<1>4. PICK made : Ready /\ Conclude(made) /\ Makes(made)
  BY ConclusionMakes
<1>5. Listed(made.before) /\ Listed(made.after)
  BY <1>3, <1>4, ConclusionPaid DEF Paid
<1>6. Kind = "literal" => made.value = program.literal[Node]
  BY <1>4, MadeLiteral
<1>7. profile.regex = "literal" /\ Declared => Silent(made, Missing)
  <2> SUFFICES ASSUME profile.regex = "literal", Declared PROVE Silent(made, Missing)
    OBVIOUS
  <2>1. RegexFacts
    BY <1>3 DEF RegexFacts, RegexInv
  <2>2. Missing \notin CallReasons
    BY Zenon DEF Missing, CallReasons
  <2>3. PathInv
    BY <1>3 DEF ScopeInv
  <2> QED
    BY <1>3, <1>4, <2>1, <2>2, <2>3, MadeSilent
<1> QED
  BY <1>4, <1>5, <1>6, <1>7

(* The calls of eval hold the literals of their operands, after a step.    *)
LEMMA LiteralsStep ==
  ASSUME RegexInv, [Next]_vars
  PROVE LiteralsHeld(program, frames')
<1> DEFINE p == program
           fs == frames
           gs == frames'
<1>1. PathInv /\ LiteralsHeld(p, fs)
  BY DEF RegexInv, PaidInv, ScopeInv
<1>2. PathOf(p, fs) /\ IsProgram(p) /\ AllCalled(fs) /\ Listed(fs)
  BY <1>1, ProgramAssumption, Zenon DEF PathInv, program, CallsInv, FramesInv, AllCalled
<1>3. CASE Prepare \/ Analyze \/ Verify \/ UNCHANGED vars
  <2>1. gs = fs
    BY <1>3, Zenon DEF Prepare, Analyze, Verify, vars, idle
  <2> QED
    BY <1>1, <2>1
<1>4. ASSUME NEW reason, Stop(reason) PROVE LiteralsHeld(p, gs)
  BY <1>4, LiteralsNone DEF Stop
<1>5. ASSUME NEW v, Return(v), fs # <<>>, Kind = "literal" => v = p.literal[Node]
      PROVE LiteralsHeld(p, gs)
  <2>1. Answers(fs, gs, v)
    BY <1>2, <1>5, ReturnAnswers
  <2>2. p.kind[fs[Len(fs)].node] = "literal" => v = p.literal[fs[Len(fs)].node]
    BY <1>5 DEF Kind, Node, Top
  <2> HIDE DEF p, fs, gs
  <2> QED
    BY <1>1, <1>2, <1>5, <2>1, <2>2, LiteralsAnswer
<1>6. CASE EnterRoot \/ EnterOperand
  <2>1. PICK i : Enter(i)
    BY <1>6, Zenon DEF EnterRoot, EnterOperand
  <2> DEFINE new == [node |-> i, vals |-> <<>>, bound |-> FALSE]
  <2>2. CASE gs = Append(fs, new)
    <3>1. new.vals = <<>>
      OBVIOUS
    <3> HIDE DEF new, p, fs, gs
    <3>2. LiteralsHeld(p, Append(fs, new))
      BY <1>1, <1>2, <3>1, LiteralsPush
    <3> QED
      BY <2>2, <3>2 DEF p, gs
  <2> QED
    BY <1>4, <2>1, <2>2, Zenon DEF Enter
<1>7. CASE Bind
  <2>1. fs # <<>>
    BY <1>7, Zenon DEF Bind
  <2>2. Binds(fs, gs)
    BY <1>2, <1>7, BindBinds
  <2> HIDE DEF p, fs, gs
  <2>3. LiteralsHeld(p, gs)
    BY <1>1, <1>2, <2>1, <2>2, LiteralsBind
  <2> QED
    BY <2>3 DEF p, gs
<1>8. CASE LeaveFunction
  <2>1. fs # <<>> /\ IsFunction /\ Return(Vals[1])
    BY <1>8, Zenon DEF LeaveFunction
  <2>2. Kind # "literal"
    BY <2>1 DEF IsFunction
  <2> QED
    BY <1>5, <2>1, <2>2
<1>9. CASE Conclusion
  <2>1. PICK made : Ready /\ Conclude(made)
                    /\ (Kind = "literal" => made.value = program.literal[Node])
    BY <1>9, ConclusionTold
  <2>2. fs # <<>>
    BY <2>1 DEF Ready
  <2>3. Return(made.value) \/ \E reason : Stop(reason)
    BY <2>1, Zenon DEF Conclude
  <2> QED
    BY <1>4, <1>5, <2>1, <2>2, <2>3
<1> QED
  BY <1>3, <1>6, <1>7, <1>8, <1>9 DEF Next, Conclusion

(* No step ends a request for want of a regex that is declared.            *)
LEMMA VerdictStep ==
  ASSUME RegexInv, [Next]_vars, profile.regex = "literal", Declared
  PROVE verdict' # Missing
<1>1. verdict # Missing
  BY DEF RegexInv, RegexesFound, Missing
<1>2. CASE Prepare
  <2> DEFINE configs == context.configs
             checks == SetChecks(configs, context.setLimits)
  <2>1. verdict' = verdict \/ (~AllHold(checks) /\ verdict' = FirstFailure(checks))
    BY <1>2, Zenon DEF Prepare, End
  <2>2. request \in Requests
    BY DEF RegexInv, PaidInv, ScopeInv, PathInv
  <2>3. configs \in Seq(ToSet(configs))
    BY <2>2, ContextAssumption, Zenon DEF context
  <2>4. Listed(configs)
    BY <2>3 DEF Listed, Elements, ToSet
  <2> HIDE DEF configs
  <2>5. Listed(checks) /\ ~Blames(checks, Missing)
    <3>1. Missing \notin SetVerdicts
      BY Zenon DEF Missing, SetVerdicts
    <3> QED
      BY <2>4, <3>1, SetsSilent
  <2> HIDE DEF checks
  <2>6. ~AllHold(checks) => Blames(checks, FirstFailure(checks))
    BY <2>5, FirstBlamed
  <2> QED
    BY <1>1, <2>1, <2>5, <2>6
<1>3. CASE Analyze \/ Verify \/ Bind \/ UNCHANGED vars
  <2>1. verdict' = verdict \/ verdict' = "refused" \/ verdict' = "capability"
    BY <1>3, Zenon DEF Analyze, Verify, Bind, vars, End
  <2>2. "refused" # Missing /\ "capability" # Missing
    BY Zenon DEF Missing
  <2> QED
    BY <1>1, <2>1, <2>2
<1>4. CASE EnterRoot \/ EnterOperand
  <2>1. PICK i : Enter(i)
    BY <1>4, Zenon DEF EnterRoot, EnterOperand
  <2>2. Missing \notin LimitVerdicts /\ Missing # "arity" /\ Missing # "unresolved"
    BY Zenon DEF Missing, LimitVerdicts
  <2> QED
    BY <1>1, <2>1, <2>2, EnterVerdict, Zenon
<1>5. CASE LeaveFunction
  <2>1. verdict' = verdict \/ verdict' = "done"
    BY <1>5, Zenon DEF LeaveFunction, Return, End
  <2>2. "done" # Missing
    BY Zenon DEF Missing
  <2> QED
    BY <1>1, <2>1, <2>2
<1>6. CASE Conclusion
  <2>1. PICK made : /\ Conclude(made) /\ Listed(made.before) /\ Listed(made.after)
                    /\ Silent(made, Missing)
    BY <1>6, ConclusionTold
  <2>2. Missing \notin LimitVerdicts /\ Missing # "done"
    BY Zenon DEF Missing, LimitVerdicts
  <2> QED
    BY <1>1, <2>1, <2>2, ConcludeVerdict, Zenon DEF Silent
<1> QED
  BY <1>2, <1>3, <1>4, <1>5, <1>6 DEF Next, Conclusion

(* Every step leaves what is compiled and what is held as they have to be. *)
LEMMA RegexStep ==
  ASSUME RegexInv, [Next]_vars
  PROVE RegexInv'
<1>1. PaidInv'
  BY PaidStep DEF RegexInv
<1>2. request' = request
  BY Zenon DEF Next, vars, Prepare, Analyze, Verify, EnterRoot, EnterOperand, Enter, Stop, Bind,
     LeaveFunction, ReturnLiteral, ReturnIdentifier, ReturnArray, ReturnMember, ReturnCall,
     ReturnOperator, ReturnLogical, Conclude, inputs
<1>3. LiteralsHeld(program, frames)'
  BY <1>2, LiteralsStep DEF program
<1>4. Compiled(verified)'
  <2>1. verified' = verified \/ (Accepted /\ verified' = VerifiedProgram)
    BY Zenon DEF Next, vars, Prepare, Analyze, Verify, EnterRoot, EnterOperand, Enter, Stop, Bind,
       LeaveFunction, ReturnLiteral, ReturnIdentifier, ReturnArray, ReturnMember, ReturnCall,
       ReturnOperator, ReturnLogical, Conclude, inputs, idle
  <2>2. IsProgram(program)
    BY ProgramAssumption, Zenon DEF RegexInv, PaidInv, ScopeInv, PathInv, program
  <2> DEFINE v == verified'
  <2>3. Compiled(v)
    BY <2>1, <2>2, AcceptedCompiled DEF RegexInv
  <2> QED
    BY <1>2, <2>3 DEF Compiled, PatternOf, Ticket, Receivers, program, profile, v
<1>5. RegexesFound'
  <2>1. profile' = profile /\ Declared' = Declared
    BY <1>2 DEF profile, Declared, context
  <2>2. profile.regex = "literal" /\ Declared => verdict' # Missing
    BY VerdictStep
  <2> QED
    BY <2>1, <2>2, Zenon DEF RegexesFound, Missing
<1> QED
  BY <1>1, <1>3, <1>4, <1>5 DEF RegexInv

(* Under the policy that demands literals, evaluation never ends for want  *)
(* of a compiled regex: a handler whose regex argument is declared is      *)
(* called with the very literal that the analysis compiled                 *)
(* (precompiled_regex_is_match, resolve_inline_argument).                  *)
THEOREM RegexesFoundTheorem == Spec => []RegexesFound
<1>1. Init => RegexInv
  BY RegexInit
<1>2. RegexInv /\ [Next]_vars => RegexInv'
  BY RegexStep
<1>3. RegexInv => RegexesFound
  BY DEF RegexInv
<1> QED
  BY <1>1, <1>2, <1>3, PTL DEF Spec

-----------------------------------------------------------------------------
\* Functions over the nodes of a tree.

(* What is known at the root and passed on to operands is a function.      *)
LEMMA PassedDown ==
  ASSUME NEW n \in Nat, NEW V, NEW base \in V, NEW up, \A i \in 2 .. n : up[i] \in 1 .. i - 1,
         NEW step, \A i \in 2 .. n : \A v \in V : step[i][v] \in V
  PROVE \E f : PassesDown(f, n, V, base, up, step)
<1> DEFINE Solves(f, m) ==
             /\ f \in [1 .. m -> V]
             /\ \A i \in 1 .. m : f[i] = IF i = 1 THEN base ELSE step[i][f[up[i]]]
           S == {m \in 0 .. n : \E f : Solves(f, m)}
<1>1. 0 \in S
  <2> DEFINE g == [i \in 1 .. 0 |-> base]
  <2>1. g \in [1 .. 0 -> V]
    OBVIOUS
  <2> HIDE DEF g
  <2>2. Solves(g, 0)
    BY <2>1
  <2> HIDE DEF Solves
  <2> QED
    BY <2>2
<1>2. ASSUME NEW m \in 1 .. n, m - 1 \in S PROVE m \in S
  <2>1. PICK f : Solves(f, m - 1)
    BY <1>2
  <2> DEFINE x == IF m = 1 THEN base ELSE step[m][f[up[m]]]
             g == [i \in 1 .. m |-> IF i = m THEN x ELSE f[i]]
  <2>2. x \in V
    <3>1. CASE m = 1
      BY <3>1
    <3>2. CASE m # 1
      <4>1. m \in 2 .. n
        BY <3>2
      <4>2. up[m] \in 1 .. m - 1
        BY <4>1
      <4>3. f[up[m]] \in V
        BY <2>1, <4>2
      <4> QED
        BY <3>2, <4>1, <4>3
    <3> QED
      BY <3>1, <3>2
  <2> HIDE DEF x
  <2>3. g \in [1 .. m -> V] /\ g[m] = x /\ \A i \in 1 .. m - 1 : g[i] = f[i]
    BY <2>1, <2>2
  <2> HIDE DEF g
  <2>4. ASSUME NEW i \in 1 .. m
        PROVE g[i] = IF i = 1 THEN base ELSE step[i][g[up[i]]]
    <3>1. i # 1 => up[i] \in 1 .. m - 1 /\ g[up[i]] = f[up[i]]
      <4> SUFFICES ASSUME i # 1 PROVE up[i] \in 1 .. m - 1 /\ g[up[i]] = f[up[i]]
        OBVIOUS
      <4>1. i \in 2 .. n
        OBVIOUS
      <4>2. up[i] \in 1 .. i - 1
        BY <4>1
      <4>3. up[i] \in 1 .. m - 1
        BY <4>2
      <4> QED
        BY <2>3, <4>3
    <3>2. CASE i = m
      BY <2>3, <3>1, <3>2 DEF x
    <3>3. CASE i # m
      <4>1. i \in 1 .. m - 1
        BY <3>3
      <4> QED
        BY <2>1, <2>3, <3>1, <4>1
    <3> QED
      BY <3>2, <3>3
  <2>5. Solves(g, m)
    BY <2>3, <2>4
  <2> HIDE DEF Solves
  <2> QED
    BY <2>5
<1> HIDE DEF S
<1>3. \A m \in 0 .. n : m \in S
  BY <1>1, <1>2, UpTo
<1>4. n \in S
  BY <1>3
<1> QED
  BY <1>4, Zenon DEF S, PassesDown

(* What is known where the way up ends and passed back is a function.      *)
LEMMA PassedUp ==
  ASSUME NEW n \in Nat, NEW next, \A i \in 1 .. n : next[i] \in i .. n
  PROVE \E f : PassesUp(f, n, next)
<1> DEFINE Solves(f, m) ==
             /\ f \in [n - m + 1 .. n -> Nat]
             /\ \A i \in n - m + 1 .. n :
                  f[i] >= i /\ f[i] = IF next[i] = i THEN i ELSE f[next[i]]
           S == {m \in 0 .. n : \E f : Solves(f, m)}
<1>1. 0 \in S
  <2> DEFINE g == [i \in n - 0 + 1 .. n |-> 0]
  <2>1. g \in [n - 0 + 1 .. n -> Nat]
    OBVIOUS
  <2> HIDE DEF g
  <2>2. Solves(g, 0)
    BY <2>1
  <2> HIDE DEF Solves
  <2> QED
    BY <2>2
<1>2. ASSUME NEW m \in 1 .. n, m - 1 \in S PROVE m \in S
  <2>1. PICK f : Solves(f, m - 1)
    BY <1>2
  <2> DEFINE k == n - m + 1
             x == IF next[k] = k THEN k ELSE f[next[k]]
             g == [i \in k .. n |-> IF i = k THEN x ELSE f[i]]
  <2>2. /\ k \in 1 .. n /\ n - (m - 1) + 1 = k + 1 /\ next[k] \in k .. n
        /\ \A i \in k .. n : i # k => i \in k + 1 .. n
    OBVIOUS
  <2> HIDE DEF k
  <2>3. f \in [k + 1 .. n -> Nat]
    BY <2>1, <2>2
  <2>4. \A i \in k + 1 .. n : f[i] >= i /\ f[i] = IF next[i] = i THEN i ELSE f[next[i]]
    BY <2>1, <2>2
  <2>5. x \in Nat /\ x >= k
    <3>1. next[k] # k => next[k] \in k + 1 .. n
      BY <2>2
    <3>2. next[k] # k => f[next[k]] \in Nat /\ f[next[k]] >= next[k]
      BY <2>3, <2>4, <3>1
    <3> QED
      BY <2>2, <3>1, <3>2
  <2> HIDE DEF x
  <2>6. g \in [k .. n -> Nat] /\ g[k] = x /\ \A i \in k + 1 .. n : g[i] = f[i]
    BY <2>2, <2>3, <2>5
  <2> HIDE DEF g
  <2>7. ASSUME NEW i \in k .. n
        PROVE g[i] >= i /\ g[i] = IF next[i] = i THEN i ELSE g[next[i]]
    <3>1. i \in 1 .. n /\ next[i] \in i .. n
      BY <2>2
    <3>2. next[i] # i => next[i] \in k + 1 .. n /\ g[next[i]] = f[next[i]]
      BY <2>2, <2>6, <3>1
    <3>3. CASE i = k
      BY <2>5, <2>6, <3>2, <3>3 DEF x
    <3>4. CASE i # k
      <4>1. i \in k + 1 .. n
        BY <2>2, <3>4
      <4> QED
        BY <2>4, <2>6, <3>2, <4>1
    <3> QED
      BY <3>3, <3>4
  <2>8. Solves(g, m)
    BY <2>6, <2>7 DEF k
  <2> HIDE DEF Solves
  <2> QED
    BY <2>8
<1> HIDE DEF S
<1>3. \A m \in 0 .. n : m \in S
  BY <1>1, <1>2, UpTo
<1>4. n \in S
  BY <1>3
<1>5. PICK f : Solves(f, n)
  BY <1>4 DEF S
<1>6. n - n + 1 = 1
  OBVIOUS
<1> QED
  BY <1>5, <1>6 DEF PassesUp

(* A parameter has an argument, which comes before the body.               *)
LEMMA ArgumentBefore ==
  ASSUME IsProgram(program), NEW i \in Nodes, FunctionNode(program, i),
         NEW name, name \in ToSet(program.params[i])
  PROVE LET at == IndexIn(program.params[i], name)
            n == Len(program.kids[i])
        IN  /\ at \in 1 .. n - 1 /\ at \in DOMAIN program.params[i] /\ n \in Nat
            /\ program.params[i][at] = name
            /\ at \in DOMAIN program.kids[i] /\ n \in DOMAIN program.kids[i]
            /\ Body(i) = program.kids[i][n]
            /\ ArgumentNode(i, name) < Body(i)
<1> DEFINE at == IndexIn(program.params[i], name)
           n == Len(program.kids[i])
           p == Len(program.params[i])
<1>1. n = p + 1
  BY Zenon DEF IsProgram, FunctionNode, Nodes
<1>2. p \in Nat /\ DOMAIN program.params[i] = 1 .. p
  BY ProgramParams DEF Nodes
<1>3. n \in Nat /\ DOMAIN program.kids[i] = 1 .. n
  BY ProgramOperands DEF Nodes
<1>4. at \in DOMAIN program.params[i] /\ program.params[i][at] = name
  <2>1. \E j \in DOMAIN program.params[i] : program.params[i][j] = name
    BY DEF ToSet
  <2> QED
    BY <2>1, Zenon DEF IndexIn
<1> HIDE DEF at, n, p
<1>5. at \in 1 .. n - 1 /\ at \in DOMAIN program.kids[i] /\ n \in DOMAIN program.kids[i] /\ at < n
  BY <1>1, <1>2, <1>3, <1>4
<1>6. Body(i) = program.kids[i][n]
  BY DEF Body, Last, n
<1>7. program.kids[i][at] < program.kids[i][n]
  BY <1>5, OperandOrder DEF Nodes
<1> QED
  BY <1>3, <1>4, <1>5, <1>6, <1>7 DEF ArgumentNode, at, n

(* What a name stands for in a node is what it stands for in its parent,   *)
(* or an argument of the call whose body the node is.                      *)
LEMMA BinderIs ==
  ASSUME IsProgram(program), NEW name
  PROVE \A i \in Nodes :
          /\ Binder(name)[i] \in 0 .. Len(program.kind)
          /\ Binder(name)[i] =
               IF i = 1 THEN 0
               ELSE IF BindsAt(i, name) THEN ArgumentNode(Parent(i), name)
               ELSE Binder(name)[Parent(i)]
<1> DEFINE n == Len(program.kind)
           Solves(g) ==
             g = [i \in Nodes |->
                    IF i = 1 THEN 0
                    ELSE LET params == program.params[Parent(i)]
                         IN  IF IsBody(i) /\ name \in ToSet(params)
                             THEN program.kids[Parent(i)][IndexIn(params, name)]
                             ELSE g[Parent(i)]]
           b == CHOOSE g : Solves(g)
           V == 0 .. n
           up == [i \in 2 .. n |-> Parent(i)]
           step == [i \in 2 .. n |-> [v \in V |->
                      IF BindsAt(i, name) THEN ArgumentNode(Parent(i), name) ELSE v]]
<1>1. Nodes = 1 .. n /\ n \in Nat
  BY ProgramOperands DEF Nodes
<1>2. \A i \in 2 .. n : up[i] = Parent(i) /\ Parent(i) \in 1 .. i - 1 /\ i \in Nodes /\ i # 1
                        /\ Parent(i) \in Nodes
  <2> SUFFICES ASSUME NEW i \in 2 .. n PROVE Parent(i) \in 1 .. i - 1
    BY <1>1
  <2>1. i \in Nodes \ {1}
    BY <1>1
  <2> QED
    BY <2>1, ParentBefore
<1>3. \A i \in 2 .. n : BindsAt(i, name) => ArgumentNode(Parent(i), name) \in V
  <2> SUFFICES ASSUME NEW i \in 2 .. n, BindsAt(i, name)
               PROVE ArgumentNode(Parent(i), name) \in V
    OBVIOUS
  <2> DEFINE j == Parent(i)
  <2>1. j \in Nodes /\ FunctionNode(program, j) /\ name \in ToSet(program.params[j])
    BY <1>2 DEF BindsAt, IsBody, FunctionNode
  <2> HIDE DEF j
  <2>2. IndexIn(program.params[j], name) \in DOMAIN program.kids[j]
    BY <2>1, ArgumentBefore
  <2>3. ArgumentNode(j, name) \in j + 1 .. n
    BY <2>1, <2>2, ProgramOperands DEF ArgumentNode, Nodes
  <2>4. j \in Nat
    BY <1>1, <2>1
  <2> QED
    BY <1>1, <2>3, <2>4 DEF j
<1>4. \A i \in 2 .. n : \A v \in V :
        /\ step[i][v] = IF BindsAt(i, name) THEN ArgumentNode(Parent(i), name) ELSE v
        /\ step[i][v] \in V
  BY <1>3
<1>5. \A i \in 2 .. n : up[i] \in 1 .. i - 1
  BY <1>2
<1>6. 0 \in V
  BY <1>1
<1> HIDE DEF V, up, step, n
<1>7. PICK f \in [1 .. n -> V] :
        \A i \in 1 .. n : f[i] = IF i = 1 THEN 0 ELSE step[i][f[up[i]]]
  <2>1. n \in Nat /\ \A i \in 2 .. n : \A v \in V : step[i][v] \in V
    BY <1>1, <1>4
  <2>2. \E f : PassesDown(f, n, V, 0, up, step)
    BY <1>5, <1>6, <2>1, PassedDown
  <2> QED
    BY <2>2, Zenon DEF PassesDown
<1>8. \A i \in Nodes :
        f[i] = IF i = 1 THEN 0
               ELSE IF BindsAt(i, name) THEN ArgumentNode(Parent(i), name)
               ELSE f[Parent(i)]
  <2> SUFFICES ASSUME NEW i \in Nodes, i # 1
               PROVE f[i] = IF BindsAt(i, name) THEN ArgumentNode(Parent(i), name)
                            ELSE f[Parent(i)]
    BY <1>1, <1>7
  <2>1. i \in 2 .. n
    BY <1>1
  <2>2. f[i] = step[i][f[Parent(i)]]
    BY <1>2, <1>7, <2>1
  <2>3. Parent(i) \in 1 .. n
    BY <1>1, <1>2, <2>1
  <2>4. f[Parent(i)] \in V
    BY <1>7, <2>3
  <2> QED
    BY <1>4, <2>1, <2>2, <2>4
<1>9. Solves(f)
  BY <1>1, <1>7, <1>8, Zenon DEF BindsAt, ArgumentNode
<1>10. Solves(b)
  <2> HIDE DEF Solves
  <2> QED
    BY <1>9
<1>11. Binder(name) = b
  BY DEF Binder
<1> HIDE DEF b
<1>12. \A i \in Nodes :
        b[i] = IF i = 1 THEN 0
               ELSE IF BindsAt(i, name) THEN ArgumentNode(Parent(i), name)
               ELSE b[Parent(i)]
  BY <1>10, Zenon DEF BindsAt, ArgumentNode
<1> HIDE DEF Solves
<1> DEFINE S == {m \in 0 .. n : \A i \in 1 .. m : b[i] \in V}
<1>13. 0 \in S
  BY <1>1
<1>14. ASSUME NEW m \in 1 .. n, m - 1 \in S PROVE m \in S
  <2>1. m \in Nodes /\ \A i \in 1 .. m - 1 : b[i] \in V
    BY <1>1, <1>14
  <2>2. b[m] \in V
    <3>1. CASE m = 1
      BY <1>6, <1>12, <2>1, <3>1
    <3>2. CASE m # 1
      <4>1. m \in 2 .. n
        BY <3>2
      <4> QED
        BY <1>2, <1>3, <1>12, <2>1, <4>1
    <3> QED
      BY <3>1, <3>2
  <2>3. \A i \in 1 .. m : i = m \/ i \in 1 .. m - 1
    BY <1>1
  <2> QED
    BY <1>1, <2>1, <2>2, <2>3
<1> HIDE DEF S
<1>15. \A m \in 0 .. n : m \in S
  BY <1>1, <1>13, <1>14, UpTo
<1>16. n \in S
  BY <1>1, <1>15
<1> QED
  BY <1>1, <1>11, <1>12, <1>16 DEF S, V, n

(* The last operand of a node that has any.                                *)
LEMMA LastOperand ==
  ASSUME IsProgram(program), NEW i \in Nodes, program.kids[i] # <<>>
  PROVE LET n == Len(program.kids[i])
        IN  /\ n \in DOMAIN program.kids[i] /\ DOMAIN program.kids[i] = 1 .. n
            /\ n \in Nat /\ Body(i) = program.kids[i][n]
            /\ Body(i) \in i + 1 .. Len(program.kind) /\ Body(i) \in Nodes
<1> DEFINE n == Len(program.kids[i])
           E == i + 1 .. Len(program.kind)
           s == program.kids[i]
<1>1. s \in Seq(E) /\ n \in Nat /\ DOMAIN s = 1 .. n /\ i \in Nat /\ Nodes = 1 .. Len(program.kind)
      /\ \A k \in DOMAIN s : s[k] \in E
  BY ProgramOperands DEF Nodes
<1>2. n # 0
  <2> HIDE DEF s, E
  <2> QED
    BY <1>1 DEF s
<1>3. Body(i) = s[n]
  BY DEF Body, Last
<1>4. n \in DOMAIN s
  BY <1>1, <1>2
<1> HIDE DEF s
<1>5. s[n] \in E
  BY <1>1, <1>4
<1>6. s[n] \in Nodes
  BY <1>1, <1>5
<1> QED
  BY <1>1, <1>3, <1>4, <1>5, <1>6 DEF s

(* A tree has them.                                                        *)
LEMMA EndsExist ==
  ASSUME IsProgram(program)
  PROVE \E e : Ends(e)
<1> DEFINE n == Len(program.kind)
           next == [i \in 1 .. n |-> IF program.kids[i] = <<>> THEN i ELSE Body(i)]
<1>1. Nodes = 1 .. n /\ n \in Nat
  BY ProgramOperands DEF Nodes
<1>2. \A i \in 1 .. n :
        /\ next[i] \in i .. n
        /\ next[i] = i <=> program.kids[i] = <<>>
        /\ program.kids[i] # <<>> => next[i] = Body(i)
  <2> SUFFICES ASSUME NEW i \in 1 .. n
               PROVE /\ next[i] \in i .. n
                     /\ next[i] = i <=> program.kids[i] = <<>>
                     /\ program.kids[i] # <<>> => next[i] = Body(i)
    OBVIOUS
  <2>1. next[i] = IF program.kids[i] = <<>> THEN i ELSE Body(i)
    OBVIOUS
  <2>2. program.kids[i] # <<>> => Body(i) \in i + 1 .. n
    BY <1>1, LastOperand
  <2> HIDE DEF next
  <2> QED
    BY <1>1, <2>1, <2>2
<1> HIDE DEF next, n
<1>3. PICK f \in [1 .. n -> Nat] :
         \A i \in 1 .. n : f[i] >= i /\ f[i] = IF next[i] = i THEN i ELSE f[next[i]]
  <2>1. \E f : PassesUp(f, n, next)
    BY <1>1, <1>2, PassedUp
  <2> QED
    BY <2>1, Zenon DEF PassesUp
<1>4. Ends(f)
  BY <1>1, <1>2, <1>3 DEF Ends
<1> QED
  BY <1>4

(* What lies under an operand ends before the next one.                    *)
LEMMA EndsBefore ==
  ASSUME IsProgram(program), NEW e, Ends(e), NEW i \in Nodes,
         NEW k \in DOMAIN program.kids[i], NEW l \in DOMAIN program.kids[i], k < l
  PROVE e[program.kids[i][k]] < program.kids[i][l]
<1> DEFINE a == program.kids[i][k]
           z == program.kids[i][l]
<1>1. Nodes = 1 .. Len(program.kind) /\ Len(program.kind) \in Nat
      /\ a \in i + 1 .. Len(program.kind) /\ z \in i + 1 .. Len(program.kind) /\ i \in Nat
  BY ProgramOperands DEF Nodes
<1>2. /\ a < z
      /\ \A j \in a .. z - 1 : \A q \in DOMAIN program.kids[j] : program.kids[j][q] < z
  BY OperandOrder DEF Nodes
<1> HIDE DEF a, z
<1>3. a \in Nat /\ z \in Nat /\ a >= 1 /\ z - a \in Nat /\ z <= Len(program.kind)
  BY <1>1, <1>2
<1> DEFINE S == {m \in 0 .. z - a : \A j \in z - m .. z - 1 : e[j] < z}
<1>4. 0 \in S
  BY <1>3
<1>5. ASSUME NEW m \in 1 .. z - a, m - 1 \in S PROVE m \in S
  <2> DEFINE j == z - m
  <2>1. j \in a .. z - 1 /\ j \in Nodes /\ j \in Nat
    BY <1>1, <1>3
  <2>2. \A h \in j + 1 .. z - 1 : e[h] < z
    <3>1. z - (m - 1) = j + 1
      BY <1>3
    <3> QED
      BY <1>5, <3>1
  <2>3. e[j] < z
    <3>1. CASE program.kids[j] = <<>>
      <4>1. e[j] = j
        BY <2>1, <3>1 DEF Ends
      <4> QED
        BY <1>3, <2>1, <4>1
    <3>2. CASE program.kids[j] # <<>>
      <4>1. e[j] = e[Body(j)]
        BY <2>1, <3>2 DEF Ends
      <4>2. Body(j) \in j + 1 .. Len(program.kind) /\ Body(j) < z
        BY <1>2, <2>1, <3>2, LastOperand
      <4>3. Body(j) \in j + 1 .. z - 1
        BY <1>3, <2>1, <4>2
      <4> QED
        BY <2>2, <4>1, <4>3
    <3> QED
      BY <3>1, <3>2
  <2>4. \A h \in z - m .. z - 1 : h = j \/ h \in j + 1 .. z - 1
    BY <1>3
  <2> QED
    BY <2>2, <2>3, <2>4
<1> HIDE DEF S
<1>6. \A m \in 0 .. z - a : m \in S
  BY <1>3, <1>4, <1>5, UpTo
<1>7. z - a \in S
  BY <1>3, <1>6
<1>8. z - (z - a) = a /\ a \in a .. z - 1
  BY <1>2, <1>3
<1> QED
  BY <1>7, <1>8 DEF S, a, z

(* What lies under an operand ends within what lies under the node.        *)
LEMMA EndsWithin ==
  ASSUME IsProgram(program), NEW e, Ends(e), NEW i \in Nodes,
         NEW k \in DOMAIN program.kids[i]
  PROVE e[program.kids[i][k]] <= e[i]
<1> DEFINE n == Len(program.kids[i])
<1>1. program.kids[i] # <<>>
  <2>1. Len(program.kids[i]) \in Nat /\ DOMAIN program.kids[i] = 1 .. Len(program.kids[i])
    BY ProgramOperands DEF Nodes
  <2> QED
    BY <2>1
<1>2. /\ n \in DOMAIN program.kids[i] /\ DOMAIN program.kids[i] = 1 .. n /\ n \in Nat
      /\ Body(i) = program.kids[i][n] /\ Body(i) \in Nodes
  BY <1>1, LastOperand
<1>3. e[i] = e[Body(i)] /\ e[Body(i)] \in Nat /\ e[Body(i)] >= Body(i)
  BY <1>1, <1>2 DEF Ends
<1> HIDE DEF n
<1>4. CASE k = n
  BY <1>2, <1>3, <1>4
<1>5. CASE k # n
  <2>1. k < n
    BY <1>2, <1>5
  <2>2. e[program.kids[i][k]] < Body(i)
    BY <1>2, <2>1, EndsBefore
  <2>3. program.kids[i][k] \in Nodes /\ Body(i) \in Nat
    BY <1>2, ParentOfOperand, ProgramOperands DEF Nodes
  <2>4. e[program.kids[i][k]] \in Nat
    BY <2>3 DEF Ends
  <2> QED
    BY <1>3, <2>2, <2>3, <2>4
<1> QED
  BY <1>4, <1>5

(* What a name stands for ends before the node it has the name in.         *)
LEMMA BinderEnds ==
  ASSUME IsProgram(program), NEW e, Ends(e), NEW name
  PROVE \A i \in Nodes : Binder(name)[i] # 0 =>
          Binder(name)[i] \in Nodes /\ e[Binder(name)[i]] < i
<1> DEFINE n == Len(program.kind)
           Good(i) == Binder(name)[i] # 0 =>
                        Binder(name)[i] \in Nodes /\ e[Binder(name)[i]] < i
           S == {m \in 0 .. n : \A i \in 1 .. m : Good(i)}
<1>1. Nodes = 1 .. n /\ n \in Nat
  BY ProgramOperands DEF Nodes
<1>2. 0 \in S
  BY <1>1
<1>3. ASSUME NEW m \in 1 .. n, m - 1 \in S PROVE m \in S
  <2>1. m \in Nodes /\ \A i \in 1 .. m - 1 : Good(i)
    BY <1>1, <1>3
  <2> HIDE DEF S
  <2>2. Good(m)
    <3>1. CASE m = 1
      <4>1. Binder(name)[m] = 0
        BY <2>1, <3>1, BinderIs
      <4> QED
        BY <4>1
    <3>2. CASE m # 1 /\ BindsAt(m, name)
      <4> DEFINE j == Parent(m)
      <4>1. j \in Nodes /\ FunctionNode(program, j) /\ name \in ToSet(program.params[j])
            /\ m = Body(j)
        <5>1. m \in Nodes \ {1}
          BY <2>1, <3>2
        <5>2. j \in 1 .. m - 1
          BY <5>1, ParentBefore
        <5>3. j \in Nodes
          BY <1>1, <5>2
        <5> QED
          BY <3>2, <5>3, Zenon DEF BindsAt, IsBody, FunctionNode
      <4>2. Binder(name)[m] = ArgumentNode(j, name)
        BY <2>1, <3>2, BinderIs
      <4> HIDE DEF j
      <4> DEFINE at == IndexIn(program.params[j], name)
                 last == Len(program.kids[j])
      <4>3. /\ at \in 1 .. last - 1 /\ last \in Nat /\ at \in DOMAIN program.kids[j]
            /\ last \in DOMAIN program.kids[j] /\ Body(j) = program.kids[j][last]
        BY <4>1, ArgumentBefore
      <4>4. ArgumentNode(j, name) = program.kids[j][at]
        BY DEF ArgumentNode
      <4> HIDE DEF at, last
      <4>5. at < last
        BY <4>3
      <4>6. e[program.kids[j][at]] < program.kids[j][last]
        BY <4>1, <4>3, <4>5, EndsBefore
      <4>7. program.kids[j][at] \in Nodes
        BY <4>1, <4>3, ParentOfOperand
      <4> QED
        BY <4>1, <4>2, <4>3, <4>4, <4>6, <4>7
    <3>3. CASE m # 1 /\ ~BindsAt(m, name)
      <4>1. m \in Nodes \ {1}
        BY <2>1, <3>3
      <4>2. Parent(m) \in 1 .. m - 1
        BY <4>1, ParentBefore
      <4>3. Binder(name)[m] = Binder(name)[Parent(m)]
        BY <2>1, <3>3, BinderIs
      <4>4. Good(Parent(m))
        BY <2>1, <4>2
      <4> DEFINE b == Binder(name)[Parent(m)]
      <4>5. b # 0 => b \in Nodes /\ e[b] \in Nat /\ e[b] < Parent(m)
        BY <4>4 DEF Ends
      <4> HIDE DEF b
      <4>6. b # 0 => b \in Nodes /\ e[b] < m
        BY <4>2, <4>5
      <4> QED
        BY <4>3, <4>6 DEF b
    <3> QED
      BY <3>1, <3>2, <3>3
  <2>3. \A i \in 1 .. m : i = m \/ i \in 1 .. m - 1
    BY <1>1
  <2>4. \A i \in 1 .. m : Good(i)
    BY <2>1, <2>2, <2>3
  <2> QED
    BY <2>4 DEF S
<1> HIDE DEF S
<1>4. \A m \in 0 .. n : m \in S
  BY <1>1, <1>2, <1>3, UpTo
<1>5. n \in S
  BY <1>1, <1>4
<1> QED
  BY <1>1, <1>5 DEF S

(* A meaning is made of those of the nodes it depends on.                  *)
LEMMA MeaningDepends ==
  ASSUME NEW i, NEW X, DependsOn(i, X), NEW f, NEW g, \A j \in X : f[j] = g[j]
  PROVE MeaningAt(f, i) = MeaningAt(g, i)
<1>1. Arguments(f, i) = Arguments(g, i)
  <2>1. \A k \in DOMAIN program.kids[i] : f[program.kids[i][k]] = g[program.kids[i][k]]
    BY Zenon DEF DependsOn
  <2> QED
    BY <2>1, Zenon DEF Arguments
<1> DEFINE b == Binder(program.name[i])[i]
<1>2. program.kind[i] = "identifier" /\ ~IsVariable(i) => f[b] = g[b]
  BY Zenon DEF DependsOn
<1>3. CASE program.kind[i] = "identifier"
  BY <1>2, <1>3, Zenon DEF MeaningAt
<1>4. CASE program.kind[i] # "identifier"
  BY <1>1, <1>4, Zenon DEF MeaningAt
<1> QED
  BY <1>3, <1>4

(* Some node outside X depends on none of the others.                      *)
LEMMA NextSettled ==
  ASSUME IsProgram(program), NEW X, X \subseteq Nodes, X # Nodes
  PROVE \E i \in Nodes \ X : DependsOn(i, X)
<1>1. Nodes = 1 .. Len(program.kind) /\ Len(program.kind) \in Nat
  BY ProgramOperands DEF Nodes
<1>2. PICK e : Ends(e)
  BY EndsExist
<1> DEFINE out == Nodes \ X
           A == {e[i] : i \in out}
<1>3. out # {} /\ \A i \in out : e[i] \in Nat /\ i \in 1 .. Len(program.kind)
  BY <1>1, <1>2 DEF Ends
<1>4. PICK x \in A : \A y \in A : x <= y
  <2>1. A \in SUBSET Nat /\ A # {}
    BY <1>3
  <2> HIDE DEF A
  <2> QED
    BY <2>1, LeastNatural
<1> DEFINE B == {i \in out : e[i] = x}
           C == {Len(program.kind) - i : i \in B}
<1>5. PICK c \in C : \A d \in C : c <= d
  <2>1. B # {}
    BY <1>4
  <2>2. C \in SUBSET Nat /\ C # {}
    BY <1>1, <1>3, <2>1
  <2> HIDE DEF C
  <2> QED
    BY <2>2, LeastNatural
<1>6. PICK i \in B : c = Len(program.kind) - i
  BY <1>5
<1>7. /\ i \in out /\ i \in Nat /\ e[i] \in Nat
      /\ \A j \in out : e[j] \in Nat /\ e[i] <= e[j]
      /\ \A j \in out : e[j] = e[i] => j <= i
  <2>1. i \in out /\ e[i] = x /\ e[i] \in Nat /\ i \in 1 .. Len(program.kind)
    BY <1>3, <1>6
  <2>2. ASSUME NEW j \in out PROVE e[j] \in Nat /\ e[i] <= e[j] /\ (e[j] = e[i] => j <= i)
    <3>1. e[j] \in Nat /\ j \in 1 .. Len(program.kind) /\ e[j] \in A
      BY <1>3
    <3>2. e[j] = e[i] => Len(program.kind) - j \in C
      BY <2>1
    <3>3. e[j] = e[i] => c <= Len(program.kind) - j
      BY <1>5, <3>2
    <3>4. x <= e[j]
      BY <1>4, <3>1
    <3> QED
      BY <1>1, <1>6, <2>1, <3>1, <3>3, <3>4
  <2> QED
    BY <1>1, <2>1, <2>2
<1> HIDE DEF A, B, C
<1>8. ASSUME NEW k \in DOMAIN program.kids[i] PROVE program.kids[i][k] \in X
  <2> DEFINE j == program.kids[i][k]
  <2>1. j \in Nodes /\ e[j] <= e[i]
    BY <1>2, <1>7, EndsWithin, ParentOfOperand
  <2>2. j \in i + 1 .. Len(program.kind)
    BY <1>7, ProgramOperands DEF Nodes
  <2>3. i < j
    BY <1>7, <2>2
  <2> HIDE DEF j
  <2>4. j \notin out
    <3> SUFFICES ASSUME j \in out PROVE FALSE
      OBVIOUS
    <3>1. e[j] \in Nat /\ e[i] <= e[j] /\ (e[j] = e[i] => j <= i)
      BY <1>7
    <3>2. j <= i
      BY <1>7, <2>1, <3>1
    <3> QED
      BY <1>1, <1>7, <2>1, <2>3, <3>2
  <2> QED
    BY <2>1, <2>4 DEF j
<1>9. ASSUME program.kind[i] = "identifier", ~IsVariable(i)
      PROVE Binder(program.name[i])[i] \in X
  <2> DEFINE b == Binder(program.name[i])[i]
  <2>1. b # 0
    BY <1>9, Zenon DEF IsVariable
  <2>2. b \in Nodes /\ e[b] < i
    BY <1>2, <1>7, <2>1, BinderEnds
  <2> HIDE DEF b
  <2>3. e[i] >= i /\ e[b] \in Nat
    BY <1>2, <1>7, <2>2 DEF Ends
  <2>4. b \notin out
    BY <1>7, <2>2, <2>3
  <2> QED
    BY <2>2, <2>4 DEF b
<1> QED
  BY <1>7, <1>8, <1>9 DEF DependsOn

(* Every node means what MeaningAt says of it.                             *)
LEMMA MeaningIs ==
  ASSUME IsProgram(program)
  PROVE \A i \in Nodes : Meaning[i] = MeaningAt(Meaning, i)
<1> DEFINE n == Len(program.kind)
           Solves(g) == g = [i \in Nodes |-> MeaningAt(g, i)]
           m == CHOOSE g : Solves(g)
           Settled(c) == \E X, f : Settles(f, X) /\ IsFiniteSet(X) /\ Cardinality(X) = c
           S == {c \in 0 .. n : Settled(c)}
<1>1. Nodes = 1 .. n /\ n \in Nat
  BY ProgramOperands DEF Nodes
<1>2. IsFiniteSet(Nodes) /\ Cardinality(Nodes) = n
  <2>1. IsFiniteSet(1 .. n) /\ Cardinality(1 .. n) = IF 1 > n THEN 0 ELSE n - 1 + 1
    BY <1>1, FS_Interval
  <2>2. n > 0
    BY ProgramOperands
  <2> QED
    BY <1>1, <2>1, <2>2
<1>3. 0 \in S
  <2> DEFINE f == [i \in Nodes |-> 0]
  <2>1. f \in [Nodes -> {0}]
    OBVIOUS
  <2> HIDE DEF f
  <2>2. Settles(f, {})
    BY <2>1 DEF Settles
  <2>3. IsFiniteSet({}) /\ Cardinality({}) = 0
    BY FS_EmptySet
  <2>4. Settled(0)
    BY <2>2, <2>3
  <2> HIDE DEF Settled
  <2> QED
    BY <1>1, <2>4
<1>4. ASSUME NEW c \in 1 .. n, c - 1 \in S PROVE c \in S
  <2>1. PICK X, f : Settles(f, X) /\ IsFiniteSet(X) /\ Cardinality(X) = c - 1
    BY <1>4
  <2>2. X \subseteq Nodes /\ X # Nodes
    BY <1>1, <1>2, <2>1 DEF Settles
  <2>3. PICK i \in Nodes \ X : DependsOn(i, X)
    BY <2>2, NextSettled
  <2>4. PICK V : f \in [Nodes -> V]
    BY <2>1 DEF Settles
  <2> DEFINE Y == X \cup {i}
             v == MeaningAt(f, i)
             g == [f EXCEPT ![i] = v]
             W == V \cup {v}
  <2> HIDE DEF v
  <2>5. g \in [Nodes -> W] /\ g[i] = v /\ \A j \in X : g[j] = f[j]
    BY <2>2, <2>3, <2>4
  <2> HIDE DEF g, W
  <2>6. ASSUME NEW j \in Y PROVE DependsOn(j, X) /\ g[j] = MeaningAt(g, j)
    <3>1. CASE j = i
      <4>1. MeaningAt(g, i) = MeaningAt(f, i)
        BY <2>3, <2>5, MeaningDepends
      <4> QED
        BY <2>3, <2>5, <3>1, <4>1 DEF v
    <3>2. CASE j \in X
      <4>1. DependsOn(j, X) /\ f[j] = MeaningAt(f, j)
        BY <2>1, <3>2 DEF Settles
      <4>2. MeaningAt(g, j) = MeaningAt(f, j)
        BY <2>5, <4>1, MeaningDepends
      <4> QED
        BY <2>5, <3>2, <4>1, <4>2
    <3> QED
      BY <3>1, <3>2
  <2>7. ASSUME NEW j \in Y PROVE DependsOn(j, Y)
    <3>1. DependsOn(j, X)
      BY <2>6
    <3> QED
      BY <3>1 DEF DependsOn
  <2>8. Settles(g, Y)
    BY <2>2, <2>5, <2>6, <2>7 DEF Settles
  <2>9. IsFiniteSet(Y) /\ Cardinality(Y) = c
    <3>1. IsFiniteSet(Y) /\ Cardinality(Y) = Cardinality(X) + 1
      BY <2>1, <2>3, FS_AddElement
    <3> QED
      BY <1>1, <2>1, <3>1
  <2> HIDE DEF Y
  <2>10. Settled(c)
    BY <2>8, <2>9
  <2> HIDE DEF Settled
  <2> QED
    BY <2>10
<1> HIDE DEF S
<1>5. \A c \in 0 .. n : c \in S
  BY <1>1, <1>3, <1>4, UpTo
<1>6. n \in S
  BY <1>1, <1>5
<1>7. PICK X, f : Settles(f, X) /\ IsFiniteSet(X) /\ Cardinality(X) = n
  BY <1>6 DEF S
<1>8. X = Nodes
  <2>1. X \subseteq Nodes
    BY <1>7 DEF Settles
  <2> QED
    BY <1>2, <1>7, <2>1, FS_Subset
<1>9. Solves(f)
  <2>1. \A i \in Nodes : f[i] = MeaningAt(f, i)
    BY <1>7, <1>8 DEF Settles
  <2>2. PICK V : f \in [Nodes -> V]
    BY <1>7 DEF Settles
  <2> QED
    BY <2>1, <2>2
<1>10. Solves(m)
  <2> HIDE DEF Solves
  <2> QED
    BY <1>9
<1>11. Meaning = m
  BY DEF Meaning
<1> HIDE DEF m
<1> QED
  BY <1>10, <1>11, Zenon

-----------------------------------------------------------------------------
\* What the locals find and what the tree binds.

(* From one call to the next, a name changes what it stands for where the  *)
(* first is evaluating the body.                                           *)
LEMMA BinderNext ==
  ASSUME IsProgram(program), NEW fs, PathOf(program, fs), NEW k \in DOMAIN fs, k # Len(fs),
         NEW name
  PROVE LET i == fs[k + 1].node
            j == fs[k].node
        IN  /\ i \in Nodes \ {1} /\ j \in Nodes /\ Parent(i) = j
            /\ IsBody(i) <=> fs[k].bound
            /\ Binder(name)[i] = IF Carries(fs, k, name) THEN ArgumentNode(j, name)
                                 ELSE Binder(name)[j]
<1> DEFINE f == fs[k]
           i == fs[k + 1].node
           j == f.node
           at == Position(program, f)
           n == Len(program.kids[j])
<1>1. Placed(program, f) /\ Awaits(program, f) /\ i = Awaited(program, f)
  BY DEF PathOf
<1>2. at \in DOMAIN program.kids[j] /\ i = program.kids[j][at]
  BY <1>1, AwaitedOperand DEF Awaited
<1>3. j \in Nodes /\ f.bound \in BOOLEAN /\ Listed(f.vals)
      /\ (f.bound => FunctionNode(program, j))
  BY <1>1 DEF Placed, Nodes
<1>4. i \in Nodes \ {1} /\ Parent(i) = j
  BY <1>2, <1>3, ParentOfOperand
<1> DEFINE l == Len(f.vals)
           a == ArgumentsOf(program, j)
<1>5. /\ n \in Nat /\ a \in Nat /\ DOMAIN program.kids[j] = 1 .. n
      /\ FunctionNode(program, j) => n = a + 1
  BY <1>3, ProgramOperands DEF Nodes
<1>6. l \in Nat
  BY <1>3, ListedProperties
<1>7. /\ IF f.bound THEN l = 0 ELSE l < a
      /\ at = (IF f.bound THEN n ELSE 1) + l
  BY <1>1 DEF Awaits, Position
<1>8. Body(j) = program.kids[j][n]
  BY DEF Body, Last
<1>9. IsBody(i) <=> FunctionNode(program, j) /\ i = Body(j)
  BY <1>4 DEF IsBody, FunctionNode
<1> HIDE DEF f, i, j, at, n, l, a
<1>10. IsBody(i) <=> f.bound
  <2>1. CASE f.bound
    <3>1. at = n
      BY <1>5, <1>7, <2>1
    <3> QED
      BY <1>2, <1>3, <1>8, <1>9, <2>1, <3>1
  <2>2. CASE ~f.bound
    <3> SUFFICES ASSUME FunctionNode(program, j) PROVE i # Body(j)
      BY <1>9, <2>2
    <3>1. at < n /\ n \in DOMAIN program.kids[j]
      BY <1>2, <1>5, <1>6, <1>7, <2>2
    <3>2. program.kids[j][at] < program.kids[j][n]
      BY <1>2, <1>3, <3>1, OperandOrder DEF Nodes
    <3>3. program.kids[j][at] \in Nodes /\ program.kids[j][n] \in Nodes
      BY <1>2, <1>3, <3>1, ParentOfOperand
    <3>4. Nodes \subseteq Nat
      BY ProgramOperands DEF Nodes
    <3> DEFINE x == program.kids[j][at]
               y == program.kids[j][n]
    <3>5. x \in Nat /\ y \in Nat /\ x < y
      BY <3>2, <3>3, <3>4
    <3> HIDE DEF x, y
    <3>6. x # y
      BY <3>5
    <3> QED
      BY <1>2, <1>8, <3>6 DEF x, y
  <2> QED
    BY <2>1, <2>2
<1>11. BindsAt(i, name) <=> Carries(fs, k, name)
  BY <1>4, <1>10 DEF BindsAt, Carries, j, f
<1>12. Binder(name)[i] = IF BindsAt(i, name) THEN ArgumentNode(j, name) ELSE Binder(name)[j]
  BY <1>4, BinderIs
<1> QED
  BY <1>3, <1>4, <1>10, <1>11, <1>12 DEF i, j, f

(* A name stands for an argument of the nearest call that binds it.        *)
LEMMA PathBinder ==
  ASSUME IsProgram(program), NEW fs, PathOf(program, fs), NEW name
  PROVE \A k \in DOMAIN fs : Free(fs, k, name) \/ \E m : BoundIn(fs, k, name, m)
<1> DEFINE n == Len(fs)
           Known1(k) == Free(fs, k, name) \/ \E m : BoundIn(fs, k, name, m)
           S == {k \in 0 .. n : k = 0 \/ Known1(k)}
<1>1. n \in Nat /\ DOMAIN fs = 1 .. n /\ (fs # <<>> => fs[1].node = 1)
  BY ListedProperties DEF PathOf
<1> HIDE DEF n, Known1
<1>2. 0 \in S
  BY <1>1
<1>3. ASSUME NEW k \in 1 .. n, k - 1 \in S PROVE k \in S
  <2>1. CASE k = 1
    <3>1. fs # <<>>
      <4>1. fs = <<>> => DOMAIN fs = {}
        OBVIOUS
      <4> QED
        BY <1>1, <4>1
    <3>2. 1 \in Nodes
      BY ProgramOperands DEF Nodes
    <3>3. Binder(name)[1] = 0
      BY <3>2, BinderIs
    <3>4. 1 .. k - 1 = {}
      BY <2>1
    <3>5. Free(fs, k, name)
      BY <1>1, <2>1, <3>1, <3>3, <3>4 DEF Free
    <3> QED
      BY <3>5 DEF Known1
  <2>2. CASE k # 1
    <3> DEFINE h == k - 1
    <3>1. h \in 1 .. n /\ h # n /\ h + 1 = k /\ h \in Nat /\ k \in Nat /\ h = k - 1
      BY <1>1, <2>2
    <3>2. Known1(h)
      BY <1>3, <3>1
    <3> HIDE DEF h
    <3>3. Binder(name)[fs[k].node] =
            IF Carries(fs, h, name) THEN ArgumentNode(fs[h].node, name)
            ELSE Binder(name)[fs[h].node]
      <4>1. h \in DOMAIN fs /\ h # Len(fs)
        BY <1>1, <3>1 DEF n
      <4>2. Binder(name)[fs[h + 1].node] =
              IF Carries(fs, h, name) THEN ArgumentNode(fs[h].node, name)
              ELSE Binder(name)[fs[h].node]
        BY <4>1, BinderNext
      <4> QED
        BY <3>1, <4>2
    <3>4. CASE Carries(fs, h, name)
      <4>1. h \in 1 .. k - 1 /\ h + 1 .. k - 1 = {}
        BY <3>1
      <4>2. BoundIn(fs, k, name, h)
        BY <3>3, <3>4, <4>1 DEF BoundIn
      <4> QED
        BY <4>2 DEF Known1
    <3>5. CASE ~Carries(fs, h, name)
      <4>1. CASE Free(fs, h, name)
        <5>1. \A l \in 1 .. k - 1 : l = h \/ l \in 1 .. h - 1
          BY <3>1
        <5>2. Free(fs, k, name)
          BY <3>3, <3>5, <4>1, <5>1 DEF Free
        <5> QED
          BY <5>2 DEF Known1
      <4>2. ASSUME NEW m, BoundIn(fs, h, name, m) PROVE Known1(k)
        <5>1. m \in 1 .. h - 1
          BY <4>2 DEF BoundIn
        <5>2. m \in 1 .. k - 1 /\ \A l \in m + 1 .. k - 1 : l = h \/ l \in m + 1 .. h - 1
          BY <3>1, <5>1
        <5>3. BoundIn(fs, k, name, m)
          BY <3>3, <3>5, <4>2, <5>2 DEF BoundIn
        <5> QED
          BY <5>3 DEF Known1
      <4> QED
        BY <3>2, <4>1, <4>2 DEF Known1
    <3> QED
      BY <3>4, <3>5
  <2> QED
    BY <2>1, <2>2
<1> HIDE DEF S
<1>4. \A k \in 0 .. n : k \in S
  BY <1>1, <1>2, <1>3, UpTo
<1> QED
  BY <1>1, <1>4 DEF S, Known1

(* The innermost local of a name is the argument the tree binds it to.     *)
LEMMA ScopesFollow ==
  ASSUME PathInv, frames # <<>>, ~Top.bound, NEW name
  PROVE Source(name) = Binder(name)[Node]
<1> DEFINE n == Len(frames)
           B == Bindings(name)
           b == Binder(name)[Node]
<1>1. /\ IsProgram(program) /\ PathOf(program, frames)
      /\ Listed(frames) /\ Listed(locals) /\ Follow(locals, frames)
  BY TopPlaced, Zenon DEF PathInv, CallsInv, FramesInv, AllCalled, LocalsFollowCalls
<1>2. /\ n \in Nat /\ n \in DOMAIN frames /\ DOMAIN frames = 1 .. n
      /\ Len(locals) \in Nat /\ DOMAIN locals = 1 .. Len(locals)
      /\ Node = frames[n].node /\ ~frames[n].bound
  BY <1>1, ListedProperties, TopPlaced DEF Node, Top
<1>3. PICK at \in [DOMAIN locals -> Bound(frames)] :
        /\ \A j, k \in DOMAIN locals : j < k => at[j] < at[k]
        /\ \A c \in Bound(frames) : \E k \in DOMAIN locals : at[k] = c
        /\ \A k \in DOMAIN locals : locals[k].node = frames[at[k]].node
  BY <1>1 DEF Follow
<1>4. \A c \in Bound(frames) : c \in 1 .. n - 1 /\ frames[c].bound
  BY <1>2 DEF Bound
<1>5. \A k \in DOMAIN locals : k \in B <=> Carries(frames, at[k], name)
  BY <1>3, <1>4 DEF Bindings, Carries
<1>6. B \subseteq DOMAIN locals
  BY DEF Bindings
<1>7. Free(frames, n, name) \/ \E m : BoundIn(frames, n, name, m)
  BY <1>1, <1>2, PathBinder
<1>8. b = Binder(name)[frames[n].node]
  BY <1>2
<1>9. Source(name) = IF B = {} THEN 0 ELSE ArgumentNode(locals[Max(B)].node, name)
  BY Zenon DEF Source, ArgumentNode, Found
<1> HIDE DEF B, b, n
<1>10. CASE Free(frames, n, name)
  <2>1. b = 0 /\ \A l \in 1 .. n - 1 : ~Carries(frames, l, name)
    BY <1>8, <1>10 DEF Free
  <2>2. B = {}
    BY <1>3, <1>4, <1>5, <1>6, <2>1
  <2> QED
    BY <1>9, <2>1, <2>2 DEF b
<1>11. ASSUME NEW m, BoundIn(frames, n, name, m) PROVE Source(name) = b
  <2>1. /\ m \in 1 .. n - 1 /\ Carries(frames, m, name)
        /\ \A l \in m + 1 .. n - 1 : ~Carries(frames, l, name)
        /\ b = ArgumentNode(frames[m].node, name)
    BY <1>8, <1>11 DEF BoundIn
  <2>2. m \in Bound(frames)
    BY <1>2, <2>1 DEF Bound, Carries
  <2>3. PICK k \in DOMAIN locals : at[k] = m
    BY <1>3, <2>2
  <2>4. k \in B
    BY <1>5, <2>1, <2>3
  <2> DEFINE x == Max(B)
  <2>5. x \in B /\ k <= x
    <3>1. B \in SUBSET (1 .. Len(locals)) /\ B # {}
      BY <1>2, <1>6, <2>4
    <3> QED
      BY <1>2, <2>4, <3>1, ExtremeNumbers
  <2> HIDE DEF x
  <2>6. x \in DOMAIN locals /\ Carries(frames, at[x], name) /\ at[x] \in 1 .. n - 1
    BY <1>3, <1>4, <1>5, <1>6, <2>5
  <2>7. x = k
    <3> SUFFICES ASSUME k < x PROVE FALSE
      BY <1>2, <2>3, <2>5, <2>6
    <3>1. m < at[x]
      BY <1>3, <2>3, <2>6
    <3>2. at[x] \in m + 1 .. n - 1
      BY <2>1, <2>6, <3>1
    <3> QED
      BY <2>1, <2>6, <3>2
  <2>8. locals[x].node = frames[m].node
    BY <1>3, <2>3, <2>7
  <2> QED
    BY <1>9, <2>1, <2>4, <2>8 DEF x
<1> QED
  BY <1>7, <1>10, <1>11 DEF b

(* An identifier finds what the analysis bound it to (eval_identifier,     *)
(* LocalFrame): the locals are the arguments of the calls whose bodies are *)
(* being evaluated, and the innermost that has the name is the nearest.    *)
THEOREM ScopesTheorem == Spec => []ScopesAgree
<1>1. Init => PathInv
  BY PathInit
<1>2. PathInv /\ [Next]_vars => PathInv'
  BY PathStep
<1>3. PathInv => ScopesAgree
  <2> SUFFICES ASSUME PathInv, Ready, Kind = "identifier"
               PROVE Source(program.name[Node]) = Binder(program.name[Node])[Node]
    BY DEF ScopesAgree
  <2>1. frames # <<>> /\ Called(Top)
    BY TopPlaced DEF Ready
  <2>2. ~Top.bound
    BY <2>1 DEF Called, CallsFunction, Kind, Node
  <2> QED
    BY <2>1, <2>2, ScopesFollow
<1> QED
  BY <1>1, <1>2, <1>3, PTL DEF Spec

-----------------------------------------------------------------------------
\* What is looked up.

(* Only variables are looked up, and the analysis saw them.                *)
LEMMA LookedUpAdmitted ==
  ASSUME PathInv, Ready, NoVariableProblem, NEW name \in LookedUp
  PROVE /\ VariableAvailable(name)
        /\ name \in DOMAIN schema.variables \/ "variable" \in request.allowed
<1>1. frames # <<>> /\ Called(Top) /\ Node \in Nodes
  BY TopPlaced DEF Ready
<1>2. name = program.name[Node] /\ Kind = "identifier" /\ Bindings(name) = {}
  BY DEF LookedUp
<1>3. ~Top.bound
  BY <1>1, <1>2 DEF Called, CallsFunction, Kind, Node
<1>4. Source(name) = Binder(name)[Node]
  BY <1>1, <1>3, ScopesFollow
<1>5. Source(name) = 0
  BY <1>2, Zenon DEF Source
<1>6. IsVariable(Node)
  BY <1>2, <1>4, <1>5 DEF IsVariable, Kind
<1>7. ~VariableProblem(Node)
  BY <1>1 DEF NoVariableProblem
<1> QED
  BY <1>2, <1>6, <1>7, Zenon DEF VariableProblem

(* A step looks up only what is admitted.                                  *)
LEMMA LookupsStep ==
  ASSUME LookupsInv, [Next]_vars
  PROVE LookupsInv'
<1>1. PathInv' /\ DispatchInv'
  BY PathStep, DispatchStep DEF LookupsInv
<1>2. request' = request
  BY Zenon DEF Next, vars, Prepare, Analyze, Verify, EnterRoot, EnterOperand, Enter, Stop, Bind,
     LeaveFunction, ReturnLiteral, ReturnIdentifier, ReturnArray, ReturnMember, ReturnCall,
     ReturnOperator, ReturnLogical, Conclude, inputs
<1>3. NoVariableProblem' <=> NoVariableProblem
  BY <1>2 DEF NoVariableProblem, VariableProblem, VariableAvailable, IsVariable, Binder, IsBody,
     Body, Parent, Nodes, Available, ActivePhase, program, schema, profile
<1>5. ASSUME history'.looked = history.looked PROVE LookupsAdmitted'
  BY <1>2, <1>5 DEF LookupsInv, LookupsAdmitted, VariableAvailable, Available, ActivePhase,
     schema, profile
<1>6. History(history)
  BY DEF LookupsInv, DispatchInv
<1>7. CASE Prepare \/ Analyze \/ Verify \/ UNCHANGED vars
  <2>1. history' = history
    BY <1>7, Zenon DEF Prepare, Analyze, Verify, vars, idle
  <2>2. stage' \in {"verifying", "running"} => stage \in {"verifying", "running"} \/ Accepted
    BY <1>7 DEF Prepare, Analyze, Verify, vars, End
  <2>3. Accepted => NoVariableProblem
    BY Zenon DEF Accepted, NoVariableProblem
  <2> QED
    BY <1>1, <1>3, <1>5, <2>1, <2>2, <2>3 DEF LookupsInv
<1>8. ASSUME Running PROVE NoVariableProblem'
  BY <1>3, <1>8 DEF LookupsInv, Running
<1>9. CASE EnterRoot \/ EnterOperand
  <2>1. PICK i : Running /\ Enter(i)
    BY <1>9, Zenon DEF EnterRoot, EnterOperand
  <2>2. history'.looked = history.looked
    <3>1. PICK s : history' = history \/ history' = [history EXCEPT !.spent = s]
      BY <2>1, Zenon DEF Enter
    <3> QED
      BY <1>6, <3>1 DEF History
  <2> QED
    BY <1>1, <1>5, <1>8, <2>1, <2>2 DEF LookupsInv
<1>10. CASE Bind
  BY <1>1, <1>5, <1>8, <1>10, Zenon DEF Bind, LookupsInv
<1>11. CASE LeaveFunction
  <2>1. Running
    BY <1>11, Zenon DEF LeaveFunction
  <2>2. PICK r : history' = [history EXCEPT !.read = r]
    BY <1>11, Zenon DEF LeaveFunction
  <2>3. history'.looked = history.looked
    BY <1>6, <2>2 DEF History
  <2> QED
    BY <1>1, <1>5, <1>8, <2>1, <2>3 DEF LookupsInv
<1>12. CASE Conclusion
  <2>1. PICK made : Ready /\ Conclude(made)
    BY <1>12, ConclusionConcludes
  <2>2. \E s, w, r, d : history' = [spent |-> s, worked |-> w, read |-> r,
                                    looked |-> history.looked \cup LookedUp, dispatched |-> d]
    BY <2>1, Zenon DEF Conclude
  <2>3. history'.looked = history.looked \cup LookedUp
    BY <2>2
  <2>4. Running /\ NoVariableProblem
    BY <2>1 DEF Ready, Running, LookupsInv
  <2>5. \A name \in LookedUp :
          /\ VariableAvailable(name)
          /\ name \in DOMAIN schema.variables \/ "variable" \in request.allowed
    BY <2>1, <2>4, LookedUpAdmitted DEF LookupsInv
  <2>6. LookupsAdmitted'
    BY <1>2, <2>3, <2>5 DEF LookupsInv, LookupsAdmitted, VariableAvailable, Available,
       ActivePhase, schema, profile
  <2> QED
    BY <1>1, <1>8, <2>4, <2>6 DEF LookupsInv
<1> QED
  BY <1>7, <1>9, <1>10, <1>11, <1>12 DEF Next, Conclusion

(* The context is asked for no variable but those the analysis admitted    *)
(* (validate_variable, eval_identifier), whichever names parameters hide.  *)
THEOREM LookupsTheorem == Spec => []LookupsAdmitted
<1>1. Init => LookupsInv
  <2>1. Init => LookupsAdmitted /\ stage \notin {"verifying", "running"}
    BY DEF Init, LookupsAdmitted
  <2> QED
    BY <2>1, PathInit, DispatchInit DEF LookupsInv
<1>2. LookupsInv /\ [Next]_vars => LookupsInv'
  BY LookupsStep
<1>3. LookupsInv => LookupsAdmitted
  BY DEF LookupsInv
<1> QED
  BY <1>1, <1>2, <1>3, PTL DEF Spec

(* Names mean at run time what the analysis took them to mean              *)
(* (eval_identifier, validate_variable).                                   *)
THEOREM NamesTheorem == Spec => []NamesResolve
<1>1. LocalsFollowCalls /\ ScopesAgree /\ LookupsAdmitted => NamesResolve
  BY DEF NamesResolve
<1> QED
  BY <1>1, LocalsTheorem, ScopesTheorem, LookupsTheorem, PTL

-----------------------------------------------------------------------------
\* What the calls under way hold is what the operands mean.

(* Nothing is held.                                                        *)
LEMMA MeansNone ==
  /\ \A p, M, fs : fs = <<>> => AllMean(p, M, fs)
  /\ \A p, M, ls : ls = <<>> => LocalsMean(p, M, ls)
BY DEF AllMean, LocalsMean

(* Nothing has no length.                                                  *)
LEMMA EmptyLength == \A s : s = <<>> => DOMAIN s = {} /\ Len(s) = 0
OBVIOUS

(* A call more.                                                            *)
LEMMA MeansPush ==
  ASSUME NEW p, NEW M, NEW fs, Listed(fs), AllMean(p, M, fs),
         NEW f, f.vals = <<>>, f.bound = FALSE,
         fs # <<>> /\ Len(fs[Len(fs)].vals) >= 1 => GoesOn(p, fs[Len(fs)])
  PROVE AllMean(p, M, Append(fs, f))
<1> DEFINE gs == Append(fs, f)
           n == Len(fs)
<1>1. n \in Nat /\ DOMAIN fs = 1 .. n
  BY ListedProperties
<1>2. /\ Listed(gs) /\ Len(gs) = n + 1 /\ \A k \in DOMAIN fs : gs[k] = fs[k]
      /\ gs[n + 1] = f
  BY AppendListed
<1>3. DOMAIN gs = 1 .. n + 1
  BY <1>2, ListedProperties
<1>4. DOMAIN f.vals = {} /\ Len(f.vals) = 0
  BY EmptyLength
<1>5. \A k \in DOMAIN fs : Len(fs[k].vals) >= 1 => GoesOn(p, fs[k])
  <2> SUFFICES ASSUME NEW k \in DOMAIN fs, Len(fs[k].vals) >= 1 PROVE GoesOn(p, fs[k])
    OBVIOUS
  <2>1. fs # <<>>
    OBVIOUS
  <2> QED
    BY <2>1 DEF AllMean
<1> HIDE DEF gs, n
<1> SUFFICES ASSUME NEW k \in 1 .. n + 1
             PROVE /\ Means(p, M, gs[k])
                   /\ Len(gs[k].vals) >= 1 /\ (k # Len(gs) \/ Len(gs[k].vals) >= 2) =>
                        GoesOn(p, gs[k])
  BY <1>3 DEF AllMean, gs
<1>6. CASE k = n + 1
  <2>1. gs[k] = f
    BY <1>2, <1>6
  <2>2. Means(p, M, f)
    BY <1>4 DEF Means
  <2>3. ~(Len(f.vals) >= 1)
    BY <1>4
  <2> QED
    BY <2>1, <2>2, <2>3
<1>7. CASE k # n + 1
  <2>1. k \in DOMAIN fs
    BY <1>1, <1>7
  <2>2. gs[k] = fs[k]
    BY <1>2, <2>1
  <2> QED
    BY <1>5, <2>1, <2>2 DEF AllMean
<1> QED
  BY <1>6, <1>7

(* The last call binds its arguments, none of which failed.                *)
LEMMA MeansBind ==
  ASSUME NEW p, NEW M, NEW fs, Listed(fs), fs # <<>>, AllMean(p, M, fs), NEW gs, Binds(fs, gs),
         \A l \in 1 .. Len(p.kids[fs[Len(fs)].node]) - 1 :
           M[p.kids[fs[Len(fs)].node][l]] # Failure
  PROVE AllMean(p, M, gs)
<1> DEFINE n == Len(fs)
<1>1. n \in Nat /\ n > 0 /\ DOMAIN fs = 1 .. n
  BY ListedProperties
<1>2. DOMAIN gs = 1 .. n
  BY ListedProperties DEF Binds
<1>3. /\ \A k \in 1 .. n - 1 : gs[k] = fs[k]
      /\ gs[n].vals = <<>> /\ gs[n].node = fs[n].node /\ Len(gs) = n
  BY DEF Binds
<1>4. DOMAIN gs[n].vals = {} /\ Len(gs[n].vals) = 0
  BY <1>3, EmptyLength
<1>5. Means(p, M, gs[n])
  BY <1>3, <1>4 DEF Means
<1> HIDE DEF n
<1> SUFFICES ASSUME NEW k \in 1 .. n
             PROVE /\ Means(p, M, gs[k])
                   /\ Len(gs[k].vals) >= 1 /\ (k # Len(gs) \/ Len(gs[k].vals) >= 2) =>
                        GoesOn(p, gs[k])
  BY <1>2 DEF AllMean
<1>6. CASE k = n
  <2>1. ~(Len(gs[k].vals) >= 1)
    BY <1>4, <1>6
  <2> QED
    BY <1>5, <1>6, <2>1
<1>7. CASE k # n
  <2>1. k \in 1 .. n - 1 /\ k \in DOMAIN fs
    BY <1>1, <1>7
  <2>2. gs[k] = fs[k]
    BY <1>3, <2>1
  <2> QED
    BY <1>3, <2>1, <2>2 DEF AllMean, n
<1> QED
  BY <1>6, <1>7

(* The last call returns what its node means.                              *)
LEMMA MeansAnswer ==
  ASSUME NEW p, IsProgram(p), NEW M, NEW fs, PathOf(p, fs), fs # <<>>, AllMean(p, M, fs),
         NEW gs, NEW v, Answers(fs, gs, v), v = M[fs[Len(fs)].node]
  PROVE AllMean(p, M, gs)
<1> DEFINE n == Len(fs)
           m == n - 1
<1>1. Listed(fs) /\ \A k \in DOMAIN fs : Placed(p, fs[k])
  BY DEF PathOf
<1>2. n \in Nat /\ DOMAIN fs = 1 .. n /\ n > 0
  BY <1>1, ListedProperties
<1>3. n - 2 = m - 1 /\ m \in Nat /\ n = m + 1 /\ (n > 1 <=> m > 0)
  BY <1>2
<1>4. /\ Listed(gs) /\ Len(gs) = m
      /\ \A k \in 1 .. m - 1 : gs[k] = fs[k]
      /\ m > 0 => gs[m] = [node |-> fs[m].node, vals |-> Append(fs[m].vals, v),
                           bound |-> fs[m].bound]
  BY <1>3 DEF Answers
<1>5. v = M[fs[n].node]
  OBVIOUS
<1>6. DOMAIN gs = 1 .. m
  BY <1>4, ListedProperties
<1> HIDE DEF n, m
<1>7. \A k \in 1 .. m : k \in DOMAIN fs /\ k # n
  BY <1>2, <1>3
<1>8. \A k \in 1 .. m : /\ Means(p, M, fs[k])
                        /\ Len(fs[k].vals) >= 1 => GoesOn(p, fs[k])
  BY <1>7 DEF AllMean, n
<1>9. ASSUME m > 0
      PROVE Means(p, M, gs[m]) /\ (Len(gs[m].vals) >= 2 => GoesOn(p, gs[m]))
  <2>1. m \in DOMAIN fs /\ m # n /\ m + 1 = n /\ m \in 1 .. m
    BY <1>2, <1>3, <1>9
  <2>2. /\ Placed(p, fs[m]) /\ Awaits(p, fs[m]) /\ fs[n].node = Awaited(p, fs[m])
        /\ Means(p, M, fs[m]) /\ (Len(fs[m].vals) >= 1 => GoesOn(p, fs[m]))
    BY <1>1, <1>8, <2>1 DEF PathOf, n
  <2> DEFINE f == fs[m]
             g == gs[m]
             i == fs[n].node
             l == Len(f.vals)
             s == p.kids[f.node]
             base == IF f.bound THEN Len(s) ELSE 1
  <2>3. g.node = f.node /\ g.bound = f.bound /\ g.vals = Append(f.vals, v)
    BY <1>4, <1>9
  <2>4. /\ Placed(p, f) /\ i = Awaited(p, f) /\ Means(p, M, f) /\ v = M[i]
        /\ (l >= 1 => GoesOn(p, f))
    BY <1>5, <2>2
  <2>5. Listed(f.vals) /\ Len(s) \in Nat
    BY <2>2, ProgramOperands DEF Placed
  <2>6. /\ l \in Nat /\ DOMAIN f.vals = 1 .. l
        /\ Listed(g.vals) /\ Len(g.vals) = l + 1 /\ g.vals[l + 1] = v
        /\ \A k \in DOMAIN f.vals : g.vals[k] = f.vals[k]
    BY <2>3, <2>5, AppendListed, ListedProperties
  <2>7. DOMAIN g.vals = 1 .. l + 1
    BY <2>6, ListedProperties
  <2>8. \A k : OperandAt(p, g, k) = s[base + k - 1] /\ OperandAt(p, f, k) = s[base + k - 1]
    <3> HIDE DEF f, g
    <3> QED
      BY <2>3, Zenon DEF OperandAt
  <2>9. i = s[base + l]
    BY <2>4 DEF Awaited, Position
  <2> HIDE DEF f, g, i, l, s
  <2>10. base \in Nat
    BY <2>5
  <2>11. ASSUME NEW j \in 1 .. l + 1 PROVE g.vals[j] = M[OperandAt(p, g, j)]
    <3>1. CASE j = l + 1
      <4>1. base + j - 1 = base + l
        BY <2>6, <2>10, <3>1
      <4> HIDE DEF base
      <4> QED
        BY <2>4, <2>6, <2>8, <2>9, <3>1, <4>1
    <3>2. CASE j # l + 1
      <4>1. j \in DOMAIN f.vals
        BY <2>6, <3>2
      <4>2. f.vals[j] = M[OperandAt(p, f, j)]
        BY <2>4, <4>1 DEF Means
      <4>3. OperandAt(p, f, j) = OperandAt(p, g, j)
        BY <2>8, Zenon
      <4> QED
        BY <2>6, <4>1, <4>2, <4>3
    <3> QED
      BY <3>1, <3>2
  <2>12. Means(p, M, g)
    BY <2>3, <2>4, <2>7, <2>11 DEF Means
  <2>13. Len(g.vals) >= 2 => GoesOn(p, g)
    <3> SUFFICES ASSUME Len(g.vals) >= 2 PROVE GoesOn(p, g)
      OBVIOUS
    <3>1. l >= 1 /\ 1 \in DOMAIN f.vals
      BY <2>6
    <3>2. GoesOn(p, f) /\ g.vals[1] = f.vals[1]
      BY <2>4, <2>6, <3>1
    <3> QED
      BY <2>3, <3>2 DEF GoesOn
  <2> QED
    BY <2>12, <2>13 DEF g
<1> SUFFICES ASSUME NEW k \in 1 .. m
             PROVE /\ Means(p, M, gs[k])
                   /\ Len(gs[k].vals) >= 1 /\ (k # Len(gs) \/ Len(gs[k].vals) >= 2) =>
                        GoesOn(p, gs[k])
  BY <1>6 DEF AllMean
<1>10. CASE k = m
  <2>1. m > 0
    BY <1>3, <1>10
  <2> QED
    BY <1>4, <1>9, <1>10, <2>1
<1>11. CASE k # m
  <2>1. k \in 1 .. m - 1
    BY <1>3, <1>11
  <2> QED
    BY <1>4, <1>8, <2>1
<1> QED
  BY <1>10, <1>11

(* Locals are pushed and popped.                                           *)
LEMMA LocalsMeanAppend ==
  ASSUME NEW p, NEW M, NEW ls, Listed(ls), LocalsMean(p, M, ls), NEW e,
         \A l \in DOMAIN e.vals : e.vals[l] = M[p.kids[e.node][l]]
  PROVE LocalsMean(p, M, Append(ls, e))
<1> DEFINE gs == Append(ls, e)
           n == Len(ls)
<1>1. n \in Nat /\ DOMAIN ls = 1 .. n
  BY ListedProperties
<1>2. /\ Listed(gs) /\ Len(gs) = n + 1 /\ \A k \in DOMAIN ls : gs[k] = ls[k]
      /\ gs[n + 1] = e
  BY AppendListed
<1>3. DOMAIN gs = 1 .. n + 1
  BY <1>2, ListedProperties
<1> HIDE DEF gs, n
<1> SUFFICES ASSUME NEW k \in 1 .. n + 1
             PROVE \A l \in DOMAIN gs[k].vals : gs[k].vals[l] = M[p.kids[gs[k].node][l]]
  BY <1>3 DEF LocalsMean, gs
<1>4. CASE k = n + 1
  BY <1>2, <1>4
<1>5. CASE k # n + 1
  <2>1. k \in DOMAIN ls
    BY <1>1, <1>5
  <2> QED
    BY <1>2, <2>1 DEF LocalsMean
<1> QED
  BY <1>4, <1>5

(* The innermost frame is popped.                                          *)
LEMMA LocalsMeanFront ==
  ASSUME NEW p, NEW M, NEW ls, Listed(ls), ls # <<>>, LocalsMean(p, M, ls)
  PROVE LocalsMean(p, M, SubSeq(ls, 1, Len(ls) - 1))
<1> DEFINE gs == SubSeq(ls, 1, Len(ls) - 1)
           n == Len(ls)
<1>1. n \in Nat /\ DOMAIN ls = 1 .. n
  BY ListedProperties
<1>2. Listed(gs) /\ Len(gs) = n - 1 /\ \A k \in 1 .. n - 1 : gs[k] = ls[k]
  BY FrontListed
<1>3. DOMAIN gs = 1 .. n - 1
  BY <1>2, ListedProperties
<1> HIDE DEF gs
<1>4. \A k \in 1 .. n - 1 : k \in DOMAIN ls
  BY <1>1
<1> HIDE DEF n
<1>5. \A k \in DOMAIN gs : \A l \in DOMAIN gs[k].vals : gs[k].vals[l] = M[p.kids[gs[k].node][l]]
  BY <1>2, <1>3, <1>4 DEF LocalsMean
<1> QED
  BY <1>5 DEF LocalsMean, gs

(* The types of booleans and of failures.                                  *)
LEMMA BoolTypes ==
  /\ Failure.ty # "bool" /\ Failure.bytes = 0
  /\ \A b : Bool(b).ty = "bool" /\ Bool(b) # Failure
<1>1. Failure.ty = "failure" /\ Failure.bytes = 0
  BY DEF Failure, Scalar
<1>2. \A b : Bool(b).ty = "bool"
  BY DEF Bool, Scalar
<1> QED
  BY <1>1, <1>2

(* An operand that fails, and is evaluated, fails its node.                *)
LEMMA FailureUp ==
  ASSUME IsProgram(program), NEW fs, PathOf(program, fs), NEW M, IsMeaning(M),
         AllMean(program, M, fs), NEW k \in DOMAIN fs, k # Len(fs),
         M[fs[k + 1].node] = Failure
  PROVE M[fs[k].node] = Failure
<1> DEFINE f == fs[k]
           i == fs[k + 1].node
           j == f.node
           at == Position(program, f)
           s == program.kids[j]
           l == Len(f.vals)
           args == Arguments(M, j)
           kind == program.kind[j]
<1>1. Placed(program, f) /\ Awaits(program, f) /\ i = Awaited(program, f)
  BY DEF PathOf
<1>2. at \in DOMAIN s /\ i = s[at]
  BY <1>1, AwaitedOperand DEF Awaited
<1>3. /\ j \in Nodes /\ Listed(f.vals) /\ f.bound \in BOOLEAN
      /\ f.bound => FunctionNode(program, j)
  BY <1>1 DEF Placed, Nodes
<1>4. /\ Len(s) \in Nat /\ DOMAIN s = 1 .. Len(s) /\ Len(s) \in OperandsOf(kind)
      /\ (~FunctionNode(program, j) => ArgumentsOf(program, j) = Len(s))
  BY <1>3, ProgramOperands DEF Nodes
<1>5. l \in Nat /\ DOMAIN f.vals = 1 .. l
  BY <1>3, ListedProperties
<1>6. /\ Means(program, M, f)
      /\ l >= 1 => GoesOn(program, f)
  BY DEF AllMean
<1>7. M[j] = MeaningAt(M, j)
  BY <1>3 DEF IsMeaning
<1>8. \A q \in DOMAIN s : args[q] = M[s[q]]
  BY DEF Arguments
<1>9. DOMAIN args = DOMAIN s
  BY DEF Arguments
<1>10. args[at] = Failure
  BY <1>2, <1>8
<1>11. f.bound = FALSE => (l < ArgumentsOf(program, j) /\ at = 1 + l)
  BY <1>1 DEF Awaits, Position
<1>12. MeaningAt(M, j) =
         CASE kind = "literal" -> program.literal[j]
           [] kind = "identifier" ->
                IF ~IsVariable(j) THEN M[Binder(program.name[j])[j]]
                ELSE IF program.name[j] \in DOMAIN context.variables
                     THEN context.variables[program.name[j]]
                ELSE Failure
           [] kind \in {"and", "or"} ->
                IF args[1].ty # "bool" THEN Failure
                ELSE IF args[1] # Bool(kind = "and") THEN args[1]
                ELSE IF args[2].ty = "bool" THEN args[2] ELSE Failure
           [] OTHER ->
                IF /\ kind \in Dispatching => j \in verified.tickets
                   /\ \A q \in DOMAIN args : args[q] # Failure
                THEN ValueOf(CallOf(j, args)) ELSE Failure
  BY Zenon DEF MeaningAt
<1>13. kind # "literal" /\ kind # "identifier"
  <2>1. Len(s) # 0
    BY <1>2, <1>4
  <2> HIDE DEF kind, s
  <2> QED
    BY <1>4, <2>1 DEF OperandsOf
<1>14. CASE kind \in {"and", "or"}
  <2>1. ~FunctionNode(program, j) /\ Len(s) = 2
    <3>1. kind # "expression function"
      BY <1>14
    <3>2. Len(s) = 2
      <4> HIDE DEF kind, s
      <4> QED
        BY <1>4, <1>14 DEF OperandsOf
    <3> QED
      BY <3>1, <3>2 DEF FunctionNode
  <2>2. f.bound = FALSE
    BY <1>3, <2>1
  <2>3. l < 2 /\ at = 1 + l
    BY <1>4, <1>11, <2>1, <2>2
  <2>4. M[j] = IF args[1].ty # "bool" THEN Failure
               ELSE IF args[1] # Bool(kind = "and") THEN args[1]
               ELSE IF args[2].ty = "bool" THEN args[2] ELSE Failure
    <3> HIDE DEF kind, args
    <3> QED
      BY <1>7, <1>12, <1>13, <1>14, Zenon
  <2>5. CASE l = 0
    <3>1. args[1] = Failure
      <4> HIDE DEF args, at, l
      <4> QED
        BY <1>10, <2>3, <2>5
    <3> HIDE DEF args, kind
    <3> QED
      BY <2>4, <3>1, BoolTypes, Zenon
  <2>6. CASE l # 0
    <3>1. l = 1
      <4> HIDE DEF l
      <4> QED
        BY <1>5, <2>3, <2>6
    <3>2. args[2] = Failure
      <4> HIDE DEF args, at, l
      <4> QED
        BY <1>10, <2>3, <3>1
    <3>3. f.vals[1] = Bool(kind = "and")
      <4>1. GoesOn(program, f)
        BY <1>6, <3>1
      <4> QED
        BY <1>14, <4>1 DEF GoesOn
    <3>4. args[1] = f.vals[1]
      <4>1. 1 \in DOMAIN f.vals
        BY <1>5, <3>1
      <4>2. f.vals[1] = M[OperandAt(program, f, 1)]
        BY <1>6, <4>1 DEF Means
      <4>3. OperandAt(program, f, 1) = s[1]
        <5>1. 1 + 1 - 1 = 1
          OBVIOUS
        <5>2. OperandAt(program, f, 1) = s[1 + 1 - 1]
          BY <2>2, Zenon DEF OperandAt
        <5> QED
          BY <5>1, <5>2
      <4>4. 1 \in DOMAIN s
        <5> HIDE DEF s
        <5> QED
          BY <1>4, <2>1
      <4> QED
        BY <1>8, <4>2, <4>3, <4>4
    <3> HIDE DEF args, kind
    <3> QED
      BY <2>4, <3>2, <3>3, <3>4, BoolTypes, Zenon
  <2> QED
    BY <2>5, <2>6
<1>15. CASE kind \notin {"and", "or"}
  <2>1. at \in DOMAIN args
    BY <1>2, <1>9
  <2> HIDE DEF kind, args, at
  <2>2. M[j] = IF /\ kind \in Dispatching => j \in verified.tickets
                  /\ \A q \in DOMAIN args : args[q] # Failure
               THEN ValueOf(CallOf(j, args)) ELSE Failure
    BY <1>7, <1>12, <1>13, <1>15, Zenon
  <2> QED
    BY <1>10, <2>1, <2>2, Zenon
<1> QED
  BY <1>14, <1>15

(* What fails at the last call fails the program.                          *)
LEMMA FailureRises ==
  ASSUME IsProgram(program), NEW fs, PathOf(program, fs), fs # <<>>, NEW M, IsMeaning(M),
         AllMean(program, M, fs), M[fs[Len(fs)].node] = Failure
  PROVE M[1] = Failure
<1> DEFINE n == Len(fs)
           S == {k \in 0 .. n - 1 : M[fs[n - k].node] = Failure}
<1>1. n \in Nat /\ n > 0 /\ DOMAIN fs = 1 .. n /\ fs[1].node = 1
  BY ListedProperties DEF PathOf
<1>2. M[fs[n].node] = Failure
  OBVIOUS
<1>3. ASSUME NEW k \in 1 .. n, k # n, M[fs[k + 1].node] = Failure
      PROVE M[fs[k].node] = Failure
  BY <1>1, <1>3, FailureUp
<1> HIDE DEF n
<1>4. 0 \in S
  <2>1. n - 0 = n /\ 0 \in 0 .. n - 1
    BY <1>1
  <2> QED
    BY <1>2, <2>1
<1>5. ASSUME NEW k \in 1 .. n - 1, k - 1 \in S PROVE k \in S
  <2> DEFINE h == n - k
  <2>1. n - (k - 1) = h + 1 /\ h \in 1 .. n /\ h # n
    BY <1>1
  <2>2. M[fs[h + 1].node] = Failure
    BY <1>5, <2>1
  <2> HIDE DEF h
  <2>3. M[fs[h].node] = Failure
    BY <1>3, <2>1, <2>2
  <2> QED
    BY <2>3 DEF h
<1> HIDE DEF S
<1>6. \A k \in 0 .. n - 1 : k \in S
  <2>1. n - 1 \in Nat
    BY <1>1
  <2> QED
    BY <1>4, <1>5, <2>1, UpTo
<1>7. n - 1 \in S /\ n - (n - 1) = 1
  BY <1>1, <1>6
<1> QED
  BY <1>1, <1>7 DEF S

-----------------------------------------------------------------------------
\* A node concludes with what it means.

(* What calls give.                                                        *)
LEMMA GivenGives ==
  \A holds, reason, value : Gives(Given(holds, reason, value), IF holds THEN value ELSE Failure)
<1> SUFFICES ASSUME NEW holds, NEW reason, NEW value
             PROVE Gives(Given(holds, reason, value), IF holds THEN value ELSE Failure)
  OBVIOUS
<1> DEFINE before == <<<<holds, reason>>>>
           given == IF holds THEN value ELSE Failure
           made == Call(before, 0, <<>>, given, 0)
<1>1. AllHold(before) <=> holds
  BY OneCheck
<1>2. AllHold(<<>>)
  <2>1. DOMAIN <<>> = {}
    OBVIOUS
  <2> QED
    BY <2>1, Zenon DEF AllHold
<1>3. Given(holds, reason, value) = made
  BY Zenon DEF Given
<1>4. ~holds => given = Failure
  OBVIOUS
<1> HIDE DEF before, given
<1>5. made.before = before /\ made.after = <<>> /\ made.value = given
  BY DEF Call
<1> HIDE DEF made
<1>6. Gives(made, given)
  BY <1>1, <1>2, <1>4, <1>5, Zenon DEF Gives
<1> QED
  BY <1>3, <1>6 DEF given

(* So does the value of any call.                                          *)
LEMMA ValueGives ==
  ASSUME NEW made, Listed(made.before), Listed(made.after)
  PROVE Gives(made, ValueOf(made))
BY AllHoldConcat, Zenon DEF Gives, ValueOf

(* What a ready node holds are values, the meanings of its operands.       *)
LEMMA ReadyMeans ==
  ASSUME PathInv, NEW S, Owned(S), Ready, NEW M, AllMean(program, M, frames)
  PROVE /\ \A l \in DOMAIN Vals : Vals[l] = M[Operands[l]] /\ Vals[l] # Failure
        /\ DOMAIN Vals = 1 .. Len(Vals) /\ Len(Vals) \in Nat
        /\ DOMAIN Operands = 1 .. Len(Operands) /\ Len(Operands) \in Nat
        /\ ~IsLogical => Arguments(M, Node) = Vals
<1>1. /\ Node \in Nodes /\ IsProgram(program) /\ Called(Top)
      /\ Vals \in Seq(S) /\ Len(Vals) \in Nat
      /\ ~IsLogical => Len(Vals) = Len(Operands)
  BY ReadyOperands
<1>2. Len(frames) \in DOMAIN frames
  BY TopPlaced DEF Ready
<1>3. Means(program, M, Top)
  BY <1>2 DEF AllMean, Top
<1>4. ~Top.bound /\ Top.bound \in BOOLEAN
  BY <1>1 DEF Called, CallsFunction, Ready, IsFunction, Kind, Node
<1>5. DOMAIN Operands = 1 .. Len(Operands) /\ Len(Operands) \in Nat
  BY <1>1, ProgramOperands DEF Nodes, Operands
<1> DEFINE vals == Vals
<1>6. vals \in Seq(S)
  BY <1>1
<1> HIDE DEF vals
<1>7. DOMAIN vals = 1 .. Len(vals) /\ \A l \in DOMAIN vals : vals[l] \in S
  BY <1>6
<1>8. ASSUME NEW l \in DOMAIN vals PROVE vals[l] = M[Operands[l]] /\ vals[l] # Failure
  <2>1. vals[l] = M[OperandAt(program, Top, l)]
    BY <1>3, <1>8 DEF Means, vals, Vals
  <2>2. OperandAt(program, Top, l) = Operands[1 + l - 1]
    BY <1>4, Zenon DEF OperandAt, Operands, Node
  <2>3. 1 + l - 1 = l
    BY <1>1, <1>7 DEF vals
  <2>4. vals[l] \in S
    BY <1>7, <1>8
  <2>5. vals[l].bytes \in Nat \ {0}
    BY <2>4, Zenon DEF Owned, HoldsParts
  <2>6. vals[l] # Failure
    BY <2>5, BoolTypes
  <2> QED
    BY <2>1, <2>2, <2>3, <2>6
<1>9. ASSUME ~IsLogical PROVE Arguments(M, Node) = Vals
  <2>1. DOMAIN vals = DOMAIN Operands
    BY <1>1, <1>5, <1>7, <1>9 DEF vals
  <2>2. vals = [l \in DOMAIN vals |-> vals[l]]
    BY <1>6
  <2>3. Arguments(M, Node) = [l \in DOMAIN Operands |-> M[Operands[l]]]
    BY Zenon DEF Arguments, Operands
  <2>4. vals = [l \in DOMAIN Operands |-> M[Operands[l]]]
    BY <1>8, <2>1, <2>2
  <2> QED
    BY <2>3, <2>4 DEF vals
<1> QED
  BY <1>1, <1>5, <1>7, <1>8, <1>9 DEF vals

(* What a node means that uses all its operands.                           *)
LEMMA ConsumerMeans ==
  ASSUME PathInv, NEW S, Owned(S), Ready, NEW M, IsMeaning(M), AllMean(program, M, frames),
         Kind \notin {"literal", "identifier", "and", "or"}
  PROVE M[Node] = ValueOf(CallOf(Node, Vals))
<1>1. Node \in Nodes /\ Called(Top)
  BY ReadyOperands
<1>2. Arguments(M, Node) = Vals /\ \A l \in DOMAIN Vals : Vals[l] # Failure
  BY ReadyMeans DEF IsLogical
<1>3. Kind \in Dispatching => Node \in verified.tickets
  BY <1>1 DEF Called, Dispatches, Kind, Node
<1>4. M[Node] = MeaningAt(M, Node)
  BY <1>1 DEF IsMeaning
<1> DEFINE args == Arguments(M, Node)
           value == ValueOf(CallOf(Node, args))
<1>5. Kind # "literal" /\ Kind # "identifier" /\ ~(Kind \in {"and", "or"})
  OBVIOUS
<1>6. MeaningAt(M, Node) =
        IF /\ Kind \in Dispatching => Node \in verified.tickets
           /\ \A l \in DOMAIN args : args[l] # Failure
        THEN value ELSE Failure
  BY <1>5, Zenon DEF MeaningAt, Kind
<1> HIDE DEF args
<1>7. args = Vals
  BY <1>2 DEF args
<1> HIDE DEF value
<1>8. M[Node] = value
  BY <1>2, <1>3, <1>4, <1>6, <1>7, Zenon
<1> QED
  BY <1>7, <1>8 DEF value

(* A local is what the name means.                                         *)
LEMMA LocalMeans ==
  ASSUME ScopeInv, NEW S, Owned(S), Ready, Kind = "identifier", NEW M, IsMeaning(M),
         LocalsMean(program, M, locals), Bindings(program.name[Node]) # {}
  PROVE M[Node] = LocalValue(program.name[Node])
<1> DEFINE name == program.name[Node]
           B == Bindings(name)
           k == Found(name)
           f == locals[k]
           params == program.params[f.node]
           at == IndexIn(params, name)
<1>1. /\ Listed(locals) /\ Scoped(program, locals) /\ IsProgram(program) /\ PathInv
      /\ Follow(locals, frames) /\ AllCalled(frames)
  BY ProgramAssumption, Zenon DEF ScopeInv, PathInv, program, CallsInv, FramesInv, LocalsFollowCalls
<1>2. B = {j \in DOMAIN locals : name \in ToSet(program.params[locals[j].node])}
  BY DEF Bindings
<1>3. frames # <<>> /\ Called(Top) /\ Node \in Nodes
  BY <1>1, TopPlaced DEF Ready
<1>4. ~Top.bound
  BY <1>3 DEF Called, CallsFunction, Kind, Node
<1>5. Source(name) = Binder(name)[Node]
  BY <1>1, <1>3, <1>4, ScopesFollow
<1> HIDE DEF B
<1>6. k \in B
  <2>1. Len(locals) \in Nat /\ DOMAIN locals = 1 .. Len(locals)
    BY <1>1, ListedProperties
  <2>2. B \in SUBSET (1 .. Len(locals)) /\ B # {}
    BY <1>2, <2>1 DEF B
  <2> QED
    BY <2>1, <2>2, ExtremeNumbers, Zenon DEF Found, B
<1>7. /\ LocalValue(name) = f.vals[at]
      /\ Source(name) = program.kids[f.node][at]
  BY Zenon DEF LocalValue, Source, B
<1> HIDE DEF k
<1>8. k \in DOMAIN locals /\ name \in ToSet(params)
  BY <1>2, <1>6
<1>9. f.node \in Nodes /\ Len(f.vals) = Len(params)
  BY <1>1, <1>8 DEF Scoped, Nodes
<1>10. FunctionNode(program, f.node)
  <2>1. PICK g \in [DOMAIN locals -> Bound(frames)] :
          \A j \in DOMAIN locals : locals[j].node = frames[g[j]].node
    BY <1>1 DEF Follow
  <2>2. g[k] \in DOMAIN frames /\ frames[g[k]].bound
    BY <1>8, <2>1 DEF Bound
  <2>3. Called(frames[g[k]])
    BY <1>1, <2>2 DEF AllCalled
  <2>4. CallsFunction(frames[g[k]].node)
    BY <2>2, <2>3 DEF Called
  <2>5. f.node = frames[g[k]].node
    BY <1>8, <2>1
  <2> QED
    BY <2>4, <2>5, Zenon DEF CallsFunction, FunctionNode
<1>11. at \in DOMAIN params /\ at \in DOMAIN program.kids[f.node]
  BY <1>1, <1>8, <1>9, <1>10, ArgumentBefore
<1>12. program.kids[f.node][at] \in Nodes
  BY <1>1, <1>9, <1>11, ParentOfOperand
<1>13. at \in DOMAIN f.vals
  <2>1. Len(params) \in Nat /\ DOMAIN params = 1 .. Len(params)
    BY <1>1, <1>9, ProgramParams DEF Nodes
  <2>2. f.vals \in Seq(S)
    BY <1>8 DEF Owned, Holding
  <2>3. DOMAIN f.vals = 1 .. Len(f.vals)
    <3> DEFINE vals == f.vals
    <3> HIDE DEF vals
    <3>1. vals \in Seq(S)
      BY <2>2 DEF vals
    <3> QED
      BY <3>1 DEF vals
  <2> QED
    BY <1>9, <1>11, <2>1, <2>3
<1>15. IsVariable(Node) = FALSE
  <2>1. program.kids[f.node][at] # 0
    <3>1. Nodes \subseteq Nat \ {0}
      BY <1>1, ProgramOperands DEF Nodes
    <3> QED
      BY <1>12, <3>1
  <2> QED
    BY <1>5, <1>7, <2>1, Zenon DEF IsVariable
<1>16. M[Node] = MeaningAt(M, Node)
  BY <1>3 DEF IsMeaning
<1>17. MeaningAt(M, Node) = M[Binder(name)[Node]]
  <2>1. Kind # "literal"
    OBVIOUS
  <2> QED
    BY <1>15, <2>1, Zenon DEF MeaningAt, Kind
<1> HIDE DEF name, at, f
<1>14. f.vals[at] = M[program.kids[f.node][at]]
  BY <1>8, <1>13 DEF LocalsMean, f
<1> QED
  BY <1>5, <1>7, <1>14, <1>16, <1>17 DEF name

(* A logical operator concludes with what it means.                        *)
LEMMA LogicalMeans ==
  ASSUME PathInv, NEW S, Owned(S), Ready, IsLogical, NEW M, IsMeaning(M),
         AllMean(program, M, frames)
  PROVE M[Node] = IF Vals[Len(Vals)].ty = "bool" THEN Vals[Len(Vals)] ELSE Failure
<1> DEFINE n == Len(Vals)
           args == Arguments(M, Node)
<1>1. /\ Node \in Nodes /\ IsProgram(program) /\ Called(Top)
      /\ Len(Operands) \in OperandsOf(Kind) /\ n >= 1
  BY ReadyOperands
<1>2. /\ \A l \in DOMAIN Vals : Vals[l] = M[Operands[l]]
      /\ DOMAIN Vals = 1 .. n /\ n \in Nat
      /\ DOMAIN Operands = 1 .. Len(Operands)
  BY ReadyMeans
<1>3. Len(Operands) = 2
  BY <1>1 DEF IsLogical, OperandsOf
<1>4. args[1] = M[Operands[1]] /\ args[2] = M[Operands[2]]
  <2>1. args = [l \in DOMAIN Operands |-> M[Operands[l]]]
    BY Zenon DEF Arguments, Operands
  <2> HIDE DEF args
  <2> QED
    BY <1>2, <1>3, <2>1
<1>5. /\ Len(frames) \in DOMAIN frames /\ Placed(program, Top)
  BY TopPlaced DEF Ready
<1>6. ~FunctionNode(program, Node)
  BY DEF Ready, IsFunction, Kind, FunctionNode
<1>7. n <= 2
  <2>1. ArgumentsOf(program, Node) = Len(Operands)
    BY <1>1, <1>6, ProgramOperands DEF Nodes, Operands
  <2> QED
    BY <1>3, <1>5, <1>6, <2>1 DEF Placed, Node, Vals
<1>8. M[Node] = IF args[1].ty # "bool" THEN Failure
                ELSE IF args[1] # EvaluateRightOf THEN args[1]
                ELSE IF args[2].ty = "bool" THEN args[2] ELSE Failure
  <2>1. M[Node] = MeaningAt(M, Node)
    BY <1>1 DEF IsMeaning
  <2>2. Kind # "literal" /\ Kind # "identifier" /\ Kind \in {"and", "or"}
    BY DEF IsLogical
  <2> QED
    BY <2>1, <2>2, Zenon DEF MeaningAt, Kind, EvaluateRightOf
<1> HIDE DEF args
<1>9. CASE n = 1
  <2>1. LeftDecides
    <3>1. ~(n < 2) \/ LeftDecides
      BY <1>3, Zenon DEF Ready, NeedsOperand
    <3> QED
      BY <1>9, <3>1
  <2>2. Vals[1] # EvaluateRightOf
    BY <2>1, Zenon DEF LeftDecides
  <2>3. args[1] = Vals[1]
    BY <1>2, <1>4, <1>9
  <2> QED
    BY <1>8, <1>9, <2>2, <2>3
<1>10. CASE n = 2
  <2>1. GoesOn(program, Top)
    <3> DEFINE k == Len(frames)
    <3>1. Top = frames[k]
      BY DEF Top
    <3>2. k \in DOMAIN frames /\ Len(frames[k].vals) = 2
      BY <1>5, <1>10, <3>1 DEF Vals
    <3> HIDE DEF k
    <3>3. Len(frames[k].vals) >= 1 /\ Len(frames[k].vals) >= 2
      BY <3>2
    <3> QED
      BY <3>1, <3>2, <3>3, Zenon DEF AllMean
  <2>2. Vals[1] = EvaluateRightOf
    BY <2>1, Zenon DEF GoesOn, IsLogical, Kind, Node, Vals, EvaluateRightOf
  <2>3. args[1] = Vals[1] /\ args[2] = Vals[2]
    BY <1>2, <1>4, <1>10
  <2>4. EvaluateRightOf.ty = "bool"
    BY BoolTypes DEF EvaluateRightOf
  <2> QED
    BY <1>8, <1>10, <2>2, <2>3, <2>4
<1>11. n = 1 \/ n = 2
  BY <1>1, <1>2, <1>7
<1> QED
  BY <1>9, <1>10, <1>11

(* A node with operands, other than a logical one, is called with them.    *)
LEMMA MadeCall ==
  ASSUME Node \in Nodes, NEW made, Makes(made), Kind \notin {"literal", "identifier", "and", "or"}
  PROVE made = CallOf(Node, Vals)
<1>1. CASE Kind = "array" /\ made = Given(TRUE, "", List(Vals))
  <2>1. Kind # "member" /\ Kind # "expression function" /\ Node \notin Calls
    BY <1>1 DEF Calls, Kind
  <2> QED
    BY <1>1, <2>1, Zenon DEF CallOf, Kind
<1>2. CASE Kind = "member" /\ made = MemberCall(Vals[1], program.name[Node])
  <2>1. Kind # "array" /\ Kind # "expression function" /\ Node \notin Calls
    BY <1>2 DEF Calls, Kind
  <2> QED
    BY <1>2, <2>1, Zenon DEF CallOf, Kind
<1>3. CASE Kind \in {"function", "method"} /\ made = Handled(Ticket(Node), Vals)
  <2>1. Kind # "array" /\ Kind # "expression function" /\ Kind # "member"
    BY <1>3, Zenon
  <2>2. Node \in Calls
    BY <1>3 DEF Calls, Kind
  <2> QED
    BY <1>3, <2>1, <2>2, Zenon DEF CallOf, Kind
<1>4. CASE Kind \in {"unary", "binary"} /\ made = OperatorCall(Ticket(Node), Vals)
  <2>1. Kind # "array" /\ Kind # "expression function" /\ Kind # "member"
    BY <1>4, Zenon
  <2>2. Node \notin Calls
    BY <1>4 DEF Calls, Kind
  <2> QED
    BY <1>4, <2>1, <2>2, Zenon DEF CallOf, Kind
<1>5. ~IsLogical
  BY DEF IsLogical
<1> QED
  BY <1>1, <1>2, <1>3, <1>4, <1>5, Zenon DEF Makes

(* Every node concludes with what it means, or fails if it means nothing.  *)
LEMMA MadeGives ==
  ASSUME ScopeInv, NEW S, Owned(S), Ready, NEW M, IsMeaning(M), AllMean(program, M, frames),
         LocalsMean(program, M, locals), NEW made, Makes(made),
         Listed(made.before), Listed(made.after)
  PROVE Gives(made, M[Node])
<1> DEFINE name == program.name[Node]
<1>1. PathInv
  BY DEF ScopeInv
<1>2. /\ Node \in Nodes /\ Called(Top) /\ frames # <<>>
  BY <1>1, ReadyOperands DEF Ready
<1>3. M[Node] = MeaningAt(M, Node)
  BY <1>2 DEF IsMeaning
<1>5. CASE Kind = "literal" /\ made = Given(TRUE, "", program.literal[Node])
  <2>1. MeaningAt(M, Node) = program.literal[Node]
    BY <1>5, Zenon DEF MeaningAt, Kind
  <2>2. Gives(Given(TRUE, "", program.literal[Node]),
              IF TRUE THEN program.literal[Node] ELSE Failure)
    BY GivenGives, Zenon
  <2> QED
    BY <1>3, <1>5, <2>1, <2>2
<1>6. CASE Kind = "identifier" /\ Bindings(name) # {} /\ made = Given(TRUE, "", LocalValue(name))
  <2>1. M[Node] = LocalValue(name)
    BY <1>6, LocalMeans
  <2>2. Gives(Given(TRUE, "", LocalValue(name)), IF TRUE THEN LocalValue(name) ELSE Failure)
    BY GivenGives, Zenon
  <2> QED
    BY <1>6, <2>1, <2>2
<1>7. CASE /\ Kind = "identifier" /\ Bindings(name) = {}
           /\ made = Given(name \in DOMAIN context.variables, "unknown variable",
                           context.variables[name])
  <2>1. ~Top.bound
    BY <1>2, <1>7 DEF Called, CallsFunction, Kind, Node
  <2>2. Source(name) = Binder(name)[Node]
    BY <1>1, <1>2, <2>1, ScopesFollow
  <2>3. Source(name) = 0
    BY <1>7, Zenon DEF Source
  <2>4. IsVariable(Node)
    BY <1>7, <2>2, <2>3 DEF IsVariable, Kind
  <2>5. MeaningAt(M, Node) = IF name \in DOMAIN context.variables THEN context.variables[name]
                             ELSE Failure
    <3>1. Kind # "literal"
      BY <1>7
    <3> QED
      BY <1>7, <2>4, <3>1, Zenon DEF MeaningAt, Kind
  <2> HIDE DEF name
  <2>6. Gives(made, IF name \in DOMAIN context.variables THEN context.variables[name]
                    ELSE Failure)
    BY <1>7, GivenGives, Zenon
  <2> QED
    BY <1>3, <2>5, <2>6
<1>8. CASE Kind \notin {"literal", "identifier", "and", "or"}
  <2>1. made = CallOf(Node, Vals)
    BY <1>2, <1>8, MadeCall
  <2>2. M[Node] = ValueOf(made)
    BY <1>1, <1>8, <2>1, ConsumerMeans
  <2> QED
    BY <2>2, ValueGives
<1>9. CASE IsLogical /\ made = Simple(Vals[Len(Vals)].ty = "bool", Vals[Len(Vals)])
  <2> DEFINE v == Vals[Len(Vals)]
  <2>1. M[Node] = IF v.ty = "bool" THEN v ELSE Failure
    BY <1>1, <1>9, LogicalMeans
  <2> HIDE DEF v
  <2>2. Gives(Simple(v.ty = "bool", v), IF v.ty = "bool" THEN v ELSE Failure)
    BY GivenGives, Zenon DEF Simple
  <2> QED
    BY <1>9, <2>1, <2>2 DEF v
<1> QED
  BY <1>5, <1>6, <1>7, <1>8, <1>9, Zenon DEF Makes

(* The call of an expression function is what its body is.                 *)
LEMMA FunctionMeans ==
  ASSUME PathInv, NEW S, Owned(S), LeaveFunction, NEW M, IsMeaning(M),
         AllMean(program, M, frames)
  PROVE M[Node] = Vals[1]
<1> DEFINE n == Len(Operands)
           args == Arguments(M, Node)
           call == Given(TRUE, "", Last(args))
<1>1. frames # <<>> /\ IsFunction /\ Top.bound /\ Vals # <<>>
  BY Zenon DEF LeaveFunction
<1>2. /\ IsProgram(program) /\ Placed(program, Top) /\ Len(frames) \in DOMAIN frames
      /\ Node \in Nodes
  BY <1>1, TopPlaced
<1>3. Means(program, M, Top) /\ FunctionNode(program, Node)
  BY <1>1, <1>2, Zenon DEF AllMean, Top, IsFunction, Kind, FunctionNode
<1>4. n \in Nat /\ DOMAIN Operands = 1 .. n /\ n = ArgumentsOf(program, Node) + 1
      /\ ArgumentsOf(program, Node) \in Nat
  BY <1>2, <1>3, ProgramOperands DEF Nodes, Operands
<1>5. n >= 1
  BY <1>4
<1>6. Vals \in Seq(S) /\ 1 \in DOMAIN Vals
  <2>1. Vals \in Seq(S)
    BY <1>2 DEF Owned, Holding, Vals, Top
  <2> DEFINE vals == Vals
  <2> HIDE DEF vals
  <2>2. vals \in Seq(S) /\ vals # <<>>
    BY <1>1, <2>1 DEF vals
  <2>3. 1 \in DOMAIN vals
    BY <2>2
  <2> QED
    BY <2>1, <2>3 DEF vals
<1>7. Vals[1] = M[Operands[n]] /\ Vals[1] # Failure
  <2>1. Vals[1] = M[OperandAt(program, Top, 1)]
    BY <1>3, <1>6 DEF Means, Vals
  <2>2. OperandAt(program, Top, 1) = Operands[n + 1 - 1]
    BY <1>1, Zenon DEF OperandAt, Operands, Node
  <2>3. n + 1 - 1 = n
    BY <1>4
  <2> DEFINE vals == Vals
  <2> HIDE DEF vals
  <2>4. vals[1] \in S
    BY <1>6 DEF vals
  <2>5. vals[1].bytes \in Nat \ {0}
    BY <2>4, Zenon DEF Owned, HoldsParts
  <2>6. vals[1] # Failure
    BY <2>5, BoolTypes
  <2> QED
    BY <2>1, <2>2, <2>3, <2>6 DEF vals
<1>8. args = [l \in DOMAIN Operands |-> M[Operands[l]]]
  BY Zenon DEF Arguments, Operands
<1>9. \A l \in 1 .. n - 1 : M[Operands[l]] # Failure
  BY <1>1, <1>3 DEF Means, Operands, Node
<1> HIDE DEF n, args
<1>10. DOMAIN args = 1 .. n /\ \A l \in 1 .. n : args[l] = M[Operands[l]] /\ args[l] # Failure
  <2>1. \A l \in 1 .. n : l = n \/ l \in 1 .. n - 1
    BY <1>4
  <2> QED
    BY <1>4, <1>7, <1>8, <1>9, <2>1
<1>11. Len(args) = n
  <2>1. args \in Seq({args[l] : l \in 1 .. n})
    <3>1. args \in [1 .. n -> {args[l] : l \in 1 .. n}]
      BY <1>8, <1>10
    <3> QED
      BY <1>4, <3>1, SeqDef
  <2>2. Len(args) \in Nat /\ DOMAIN args = 1 .. Len(args)
    BY <2>1
  <2> QED
    BY <1>4, <1>5, <1>10, <2>2
<1>12. Last(args) = Vals[1]
  <2>1. args[n] = Vals[1]
    BY <1>4, <1>5, <1>7, <1>10
  <2> QED
    BY <1>11, <2>1 DEF Last
<1>13. M[Node] = ValueOf(call)
  <2>1. M[Node] = MeaningAt(M, Node)
    BY <1>2 DEF IsMeaning
  <2>2. /\ Kind # "literal" /\ Kind # "identifier" /\ ~(Kind \in {"and", "or"})
        /\ Kind \notin Dispatching /\ Kind # "array" /\ Kind = "expression function"
        /\ Kind # "member"
    BY <1>1, Zenon DEF IsFunction, Dispatching
  <2>6. Node \notin Calls
    BY <1>2, <2>2, Zenon DEF Calls, Kind
  <2>3. CallOf(Node, args) = call
    BY <2>2, <2>6, Zenon DEF CallOf, Kind
  <2>4. \A l \in DOMAIN args : args[l] # Failure
    BY <1>10
  <2>5. MeaningAt(M, Node) =
          IF /\ Kind \in Dispatching => Node \in verified.tickets
             /\ \A l \in DOMAIN args : args[l] # Failure
          THEN ValueOf(CallOf(Node, args)) ELSE Failure
    BY <2>2, Zenon DEF MeaningAt, Kind, args
  <2> HIDE DEF call
  <2> QED
    BY <2>1, <2>2, <2>3, <2>4, <2>5, Zenon
<1>14. ValueOf(call) = Last(args)
  <2> DEFINE v == Last(args)
  <2> HIDE DEF v
  <2>1. \E before : Listed(before) /\ AllHold(before) /\ Given(TRUE, "", v) = Call(before, 0, <<>>, v, 0)
    <3> DEFINE before == <<<<TRUE, "">>>>
    <3>1. Listed(before) /\ AllHold(before)
      BY ListedTuples, OneCheck
    <3>2. Given(TRUE, "", v) = Call(before, 0, <<>>, v, 0)
      BY Zenon DEF Given
    <3> HIDE DEF before
    <3> QED
      BY <3>1, <3>2
  <2>2. PICK before : Listed(before) /\ AllHold(before)
                      /\ Given(TRUE, "", v) = Call(before, 0, <<>>, v, 0)
    BY <2>1
  <2> DEFINE c == Call(before, 0, <<>>, v, 0)
  <2>3. c.before = before /\ c.after = <<>> /\ c.value = v
    BY DEF Call
  <2>4. Listed(<<>>) /\ AllHold(<<>>)
    <3>1. DOMAIN <<>> = {}
      OBVIOUS
    <3> QED
      BY <3>1, ListedTuples, Zenon DEF AllHold
  <2>5. AllHold(before \o <<>>)
    BY <2>2, <2>4, AllHoldConcat
  <2> HIDE DEF c
  <2>6. ValueOf(c) = v
    BY <2>3, <2>5, Zenon DEF ValueOf
  <2> QED
    BY <2>2, <2>6 DEF c, v
<1> QED
  BY <1>12, <1>13, <1>14

-----------------------------------------------------------------------------
\* What an evaluation answers.

(* A program means the same as long as its request and what was compiled   *)
(* and verified are the same.                                              *)
LEMMA MeaningKept ==
  ASSUME UNCHANGED inputs
  PROVE Meaning' = Meaning
<1>1. request' = request /\ sets' = sets /\ verified' = verified
  BY DEF inputs
<1> QED
  BY <1>1 DEF Meaning, MeaningAt, Arguments, CallOf, Handled, OperatorCall, Entry, Registered,
     Ticket, Receivers, Calls, Nodes, IsVariable, Binder, IsBody, Body, Parent, program, context,
     limits

(* None of these ends an evaluation with a meaning, or for want of one.    *)
LEMMA OtherVerdicts ==
  /\ "none" \notin ErrorVerdicts /\ "done" \notin ErrorVerdicts
  /\ "refused" \notin ErrorVerdicts /\ "capability" \notin ErrorVerdicts
  /\ "arity" \notin ErrorVerdicts /\ "unresolved" \in ErrorVerdicts
  /\ \A r \in ErrorVerdicts : r \notin LimitVerdicts /\ r \notin SetVerdicts
  /\ "done" \notin LimitVerdicts /\ "done" \notin SetVerdicts
BY Zenon DEF ErrorVerdicts, LimitVerdicts, SetVerdicts

(* An evaluation stops with an error only if the program means nothing.    *)
LEMMA StopMeans ==
  ASSUME NEW reason, Stop(reason), reason # "done",
         reason \in ErrorVerdicts => Meaning[1] = Failure
  PROVE MeaningNext
<1>1. /\ stage' = "ended" /\ verdict' = reason /\ frames' = <<>> /\ locals' = <<>>
      /\ UNCHANGED inputs
  BY DEF Stop, End
<1>2. AllMean(program, Meaning, frames') /\ LocalsMean(program, Meaning, locals')
  BY <1>1, MeansNone
<1>3. Meaning' = Meaning
  BY <1>1, MeaningKept
<1>4. AnswersRight(Meaning)'
  BY <1>1, <1>3, Zenon DEF AnswersRight
<1> QED
  BY <1>1, <1>2, <1>4 DEF MeaningNext

(* The program is in running order.                                        *)
LEMMA RunningMeans ==
  ASSUME MeaningInv
  PROVE /\ IsProgram(program) /\ PathOf(program, frames) /\ AllCalled(frames) /\ PathInv
        /\ IsMeaning(Meaning) /\ DispatchInv /\ ScopeInv /\ SetsFit(sets)
        /\ \E S : Owned(S) /\ Solvent(frames, locals, result, stage, history.worked, processed,
                                      limits.total, S)
<1>1. DispatchInv /\ ScopeInv /\ SetsFit(sets) /\ PathInv
  BY DEF MeaningInv, PaidInv, ScopeInv
<1>2. IsProgram(program) /\ PathOf(program, frames) /\ AllCalled(frames)
  BY <1>1, ProgramAssumption, Zenon DEF PathInv, program, CallsInv, FramesInv
<1>3. IsMeaning(Meaning)
  BY <1>2, MeaningIs DEF IsMeaning
<1>4. PICK S : Solvent(frames, locals, result, stage, history.worked, processed, limits.total, S)
  BY DEF MeaningInv, PaidInv
<1>5. Owned(S)
  BY <1>4 DEF Solvent, Owned
<1> QED
  BY <1>1, <1>2, <1>3, <1>4, <1>5

(* The last call returns what its node means.                              *)
LEMMA ReturnMeans ==
  ASSUME MeaningInv, Running, frames # <<>>, NEW v, Return(v), v = Meaning[Node], v # Failure,
         UNCHANGED inputs, LocalsMean(program, Meaning, locals')
  PROVE MeaningNext
<1>1. /\ IsProgram(program) /\ PathOf(program, frames) /\ AllCalled(frames)
      /\ AllMean(program, Meaning, frames)
  BY RunningMeans DEF MeaningInv
<1>2. /\ Answers(frames, frames', v)
      /\ Len(frames) = 1 => stage' = "ended" /\ result' = v
      /\ Len(frames) > 1 => UNCHANGED <<stage, result>>
  BY <1>1, ReturnAnswers
<1>3. v = Meaning[frames[Len(frames)].node]
  BY DEF Node, Top
<1>4. AllMean(program, Meaning, frames')
  BY <1>1, <1>2, <1>3, MeansAnswer
<1>5. verdict = "none" /\ stage = "running"
  BY DEF MeaningInv, Running
<1>6. Meaning' = Meaning
  BY MeaningKept
<1>7. CASE Len(frames) = 1
  <2>1. verdict' = "done"
    BY <1>7 DEF Return, End
  <2>2. frames[1].node = 1
    BY <1>1 DEF PathOf
  <2>3. result' = Meaning[1] /\ result' # Failure
    BY <1>2, <1>3, <1>7, <2>2
  <2>4. AnswersRight(Meaning)'
    BY <1>6, <2>1, <2>3, OtherVerdicts, Zenon DEF AnswersRight
  <2> QED
    BY <1>2, <1>4, <1>7, <2>4 DEF MeaningNext
<1>8. CASE Len(frames) # 1
  <2>1. Len(frames) \in Nat /\ Len(frames) > 1
    <3>1. Listed(frames)
      BY <1>1 DEF AllCalled
    <3> QED
      BY <1>8, <3>1, ListedProperties
  <2>2. verdict' = verdict /\ stage' = stage
    <3> DEFINE l == Len(frames)
    <3>1. l \in Nat /\ l > 1
      BY <2>1
    <3>2. l - 1 # 0 => verdict' = verdict /\ stage' = stage
      <4> SUFFICES ASSUME Len(frames) - 1 # 0 PROVE verdict' = verdict /\ stage' = stage
        BY DEF l
      <4> QED
        BY Zenon DEF Return
    <3> HIDE DEF l
    <3> QED
      BY <3>1, <3>2
  <2>3. AnswersRight(Meaning)'
    BY <1>5, <2>2, OtherVerdicts, Zenon DEF AnswersRight
  <2> QED
    BY <1>4, <1>5, <2>2, <2>3 DEF MeaningNext
<1> QED
  BY <1>7, <1>8

(* A call of && or || goes on to its right operand only when its left one  *)
(* has been looked at.                                                     *)
LEMMA NeedsGoesOn ==
  ASSUME PathInv, frames # <<>>, NeedsOperand, Len(Vals) >= 1
  PROVE GoesOn(program, Top)
<1> SUFFICES ASSUME IsLogical PROVE Vals[1] = EvaluateRightOf
  BY DEF GoesOn, Top, Vals, Node, IsLogical, Kind, EvaluateRightOf
<1>1. IsProgram(program) /\ Placed(program, Top) /\ Node \in Nodes
  BY TopPlaced
<1>2. ~IsFunction
  BY DEF IsLogical, IsFunction
<1>3. Len(Vals) < Len(Operands) /\ ~LeftDecides
  BY <1>2, Zenon DEF NeedsOperand
<1>4. Len(Operands) = 2
  <2>1. Len(Operands) \in OperandsOf(Kind)
    BY <1>1, ProgramOperands DEF Nodes, Operands, Kind
  <2> QED
    BY <2>1 DEF OperandsOf, IsLogical
<1>5. Len(Vals) \in Nat
  BY <1>1, ListedProperties DEF Placed, Vals
<1>6. Len(Vals) = 1
  <2> DEFINE l == Len(Vals)
  <2>1. l >= 1 /\ l < 2 /\ l \in Nat
    BY <1>3, <1>4, <1>5
  <2> HIDE DEF l
  <2>2. l = 1
    BY <2>1
  <2> QED
    BY <2>2 DEF l
<1> QED
  BY <1>3, <1>6, Zenon DEF LeftDecides

(* A call begins: only what has no ticket, and no meaning, is unresolved.  *)
LEMMA EnterMeans ==
  ASSUME MeaningInv, EnterRoot \/ EnterOperand
  PROVE MeaningNext
<1>1. PathInv /\ IsProgram(program) /\ PathOf(program, frames) /\ AllCalled(frames)
      /\ IsMeaning(Meaning) /\ AllMean(program, Meaning, frames)
      /\ LocalsMean(program, Meaning, locals)
  BY RunningMeans DEF MeaningInv
<1>2. PICK i : Running /\ Enter(i) /\ Following(program, frames, i)
               /\ (frames # <<>> => NeedsOperand)
  BY <1>1, NextFollows, Zenon DEF EnterRoot, EnterOperand, Following
<1>3. verdict = "none" /\ Operations \subseteq verified.tickets /\ stage = "running"
  BY <1>2 DEF MeaningInv, Running
<1> DEFINE new == [node |-> i, vals |-> <<>>, bound |-> FALSE]
           fs == Append(frames, new)
<1>4. i \in Nodes /\ PathOf(program, fs)
  BY <1>1, <1>2, PathPush DEF Nodes
<1>5. frames # <<>> /\ Len(frames[Len(frames)].vals) >= 1 => GoesOn(program, frames[Len(frames)])
  BY <1>1, <1>2, NeedsGoesOn DEF Top, Vals
<1>6. AllMean(program, Meaning, fs)
  <2>1. new.vals = <<>> /\ new.bound = FALSE
    OBVIOUS
  <2>2. Listed(frames)
    BY <1>1 DEF AllCalled
  <2> HIDE DEF new
  <2> QED
    BY <1>1, <1>5, <2>1, <2>2, MeansPush
<1>7. CASE AllHold(EntryChecks(i))
  <2>1. /\ frames' = fs /\ UNCHANGED <<inputs, locals, stage, verdict>>
    BY <1>2, <1>7, Zenon DEF Enter
  <2>2. AnswersRight(Meaning)'
    BY <1>3, <2>1, OtherVerdicts, Zenon DEF AnswersRight
  <2> QED
    BY <1>1, <1>3, <1>6, <2>1, <2>2, Zenon DEF MeaningNext
<1>8. CASE ~AllHold(EntryChecks(i))
  <2> DEFINE r == FirstFailure(EntryChecks(i))
  <2>1. Stop(r) /\ verdict' = r
    BY <1>2, <1>8, Zenon DEF Enter, Stop, End
  <2> HIDE DEF r
  <2>2. r # "done"
    <3>1. "done" # "arity" /\ "done" # "unresolved" /\ "none" # "done"
      BY Zenon
    <3> QED
      BY <1>2, <1>3, <2>1, <3>1, EnterVerdict, OtherVerdicts
  <2>3. ASSUME r \in ErrorVerdicts PROVE Meaning[1] = Failure
    <3>1. r \notin LimitVerdicts /\ r # "arity" /\ verdict # r
      BY <1>3, <2>3, OtherVerdicts, Zenon
    <3>2. r = "unresolved" /\ Dispatches(i) /\ i \notin verified.tickets
      BY <1>2, <2>1, <3>1, EnterVerdict, Zenon
    <3>3. Meaning[i] = Failure
      <4>1. Meaning[i] = MeaningAt(Meaning, i)
        BY <1>1, <1>4 DEF IsMeaning
      <4>2. program.kind[i] \in Dispatching /\ program.kind[i] \notin {"and", "or"}
        BY <1>3, <1>4, <3>2 DEF Dispatches, Operations
      <4>3. program.kind[i] # "literal" /\ program.kind[i] # "identifier"
        BY <4>2 DEF Dispatching
      <4> QED
        BY <3>2, <4>1, <4>2, <4>3, Zenon DEF MeaningAt
    <3>4. fs # <<>> /\ fs[Len(fs)].node = i
      <4>1. Listed(frames)
        BY <1>1 DEF AllCalled
      <4>2. new.node = i
        OBVIOUS
      <4> HIDE DEF new
      <4>3. Listed(fs) /\ Len(fs) = Len(frames) + 1 /\ fs[Len(frames) + 1] = new
        BY <4>1, AppendListed
      <4>4. Len(frames) \in Nat
        BY <4>1, ListedProperties
      <4> HIDE DEF fs
      <4>5. fs # <<>>
        BY <4>3, <4>4, EmptyLength
      <4> QED
        BY <4>2, <4>3, <4>5
    <3> HIDE DEF fs
    <3> QED
      BY <1>1, <1>4, <1>6, <3>3, <3>4, FailureRises
  <2> QED
    BY <2>1, <2>2, <2>3, StopMeans
<1> QED
  BY <1>7, <1>8

(* An expression function binds its arguments, which have their meaning.   *)
LEMMA BindMeans ==
  ASSUME MeaningInv, Bind
  PROVE MeaningNext
<1> DEFINE n == Len(frames)
           new == [node |-> Node, vals |-> Vals]
<1>1. /\ PathInv /\ IsProgram(program) /\ AllCalled(frames)
      /\ AllMean(program, Meaning, frames) /\ LocalsMean(program, Meaning, locals)
      /\ Listed(locals) /\ Listed(frames)
  BY RunningMeans, Zenon DEF MeaningInv, PathInv, CallsInv, FramesInv, AllCalled
<1>2. /\ Running /\ frames # <<>> /\ Unbound /\ locals' = Append(locals, new)
      /\ UNCHANGED <<inputs, stage, verdict, result>>
  BY Zenon DEF Bind
<1>3. Binds(frames, frames')
  BY <1>1, <1>2, BindBinds
<1>4. Placed(program, Top) /\ Node \in Nodes /\ n \in DOMAIN frames
  BY <1>1, <1>2, TopPlaced
<1>5. ~Top.bound /\ Len(Vals) = Len(Operands) - 1 /\ Means(program, Meaning, Top)
  BY <1>1, <1>2, <1>4, Zenon DEF Unbound, AllMean, Top
<1>6. PICK S : Owned(S)
  BY RunningMeans
<1> DEFINE vals == Vals
           m == Len(Operands) - 1
<1>7. vals \in Seq(S) /\ DOMAIN vals = 1 .. m
  <2>1. vals \in Seq(S)
    BY <1>4, <1>6 DEF Owned, Holding, Vals, Top
  <2> HIDE DEF vals
  <2>2. DOMAIN vals = 1 .. Len(vals)
    BY <2>1
  <2> QED
    BY <1>5, <2>1, <2>2 DEF vals
<1> HIDE DEF vals, m
<1>13. \A l \in 1 .. m : vals[l] \in S
  <2>1. vals \in [1 .. Len(vals) -> S]
    <3>1. vals \in Seq(S)
      BY <1>7
    <3> QED
      BY <3>1
  <2>2. Len(vals) = m
    BY <1>5 DEF vals, m
  <2> QED
    BY <2>1, <2>2
<1>8. ASSUME NEW l \in 1 .. m PROVE vals[l] = Meaning[Operands[l]] /\ vals[l] # Failure
  <2>1. vals[l] = Meaning[OperandAt(program, Top, l)]
    BY <1>5, <1>7 DEF Means, vals, Vals
  <2>2. OperandAt(program, Top, l) = Operands[1 + l - 1]
    BY <1>5, Zenon DEF OperandAt, Operands, Node
  <2>3. 1 + l - 1 = l
    OBVIOUS
  <2>4. vals[l] \in S
    BY <1>13
  <2>5. vals[l].bytes \in Nat \ {0}
    BY <1>6, <2>4, Zenon DEF Owned, HoldsParts
  <2>6. vals[l] # Failure
    BY <2>5, BoolTypes
  <2> QED
    BY <2>1, <2>2, <2>3, <2>6
<1>9. AllMean(program, Meaning, frames')
  <2>1. \A l \in 1 .. Len(program.kids[frames[n].node]) - 1 :
          Meaning[program.kids[frames[n].node][l]] # Failure
    BY <1>8 DEF m, Operands, Node, Top
  <2> QED
    BY <1>1, <1>2, <1>3, <2>1, MeansBind
<1>10. LocalsMean(program, Meaning, locals')
  <2>1. new.node = Node /\ new.vals = vals
    BY DEF vals
  <2> HIDE DEF new
  <2>2. \A l \in DOMAIN new.vals : new.vals[l] = Meaning[program.kids[new.node][l]]
    BY <1>7, <1>8, <2>1 DEF Operands
  <2> QED
    BY <1>1, <1>2, <2>2, LocalsMeanAppend
<1>11. verdict = "none"
  BY <1>2 DEF MeaningInv, Running
<1>12. AnswersRight(Meaning)'
  BY <1>2, <1>11, OtherVerdicts, Zenon DEF AnswersRight
<1> QED
  BY <1>2, <1>9, <1>10, <1>11, <1>12, Zenon DEF MeaningNext

(* An expression function returns what its body means.                     *)
LEMMA LeaveMeans ==
  ASSUME MeaningInv, LeaveFunction
  PROVE MeaningNext
<1>1. /\ PathInv /\ IsProgram(program) /\ IsMeaning(Meaning) /\ Listed(locals) /\ CallsInv
      /\ AllMean(program, Meaning, frames) /\ LocalsMean(program, Meaning, locals)
  BY RunningMeans, Zenon DEF MeaningInv, PathInv, CallsInv, FramesInv
<1>2. PICK S : Owned(S)
  BY RunningMeans
<1>3. /\ Running /\ frames # <<>> /\ Top.bound /\ Vals # <<>> /\ Return(Vals[1])
      /\ locals' = SubSeq(locals, 1, Len(locals) - 1) /\ UNCHANGED inputs
  BY Zenon DEF LeaveFunction
<1>4. Vals[1] = Meaning[Node]
  BY <1>1, <1>2, FunctionMeans
<1>5. Vals[1] # Failure
  <2> DEFINE vals == Vals
  <2>1. vals \in Seq(S)
    BY <1>1, <1>2, <1>3, TopPlaced DEF Owned, Holding, Vals, Top
  <2>2. vals # <<>>
    BY <1>3
  <2> HIDE DEF vals
  <2>3. vals[1] \in S
    BY <2>1, <2>2
  <2>4. vals[1].bytes \in Nat \ {0}
    BY <1>2, <2>3, Zenon DEF Owned, HoldsParts
  <2> QED
    BY <2>4, BoolTypes DEF vals
<1>6. LocalsMean(program, Meaning, locals')
  <2>1. locals # <<>>
    BY <1>1, <1>3, LocalsThere
  <2> QED
    BY <1>1, <1>3, <2>1, LocalsMeanFront
<1> DEFINE v == Vals[1]
<1> HIDE DEF v
<1>7. Return(v) /\ v = Meaning[Node] /\ v # Failure
  BY <1>3, <1>4, <1>5 DEF v
<1> QED
  BY <1>3, <1>6, <1>7, ReturnMeans

(* A node concludes with what it means, or stops because it means nothing, *)
(* or at a limit.                                                          *)
LEMMA ConclusionMeans ==
  ASSUME MeaningInv, Conclusion
  PROVE MeaningNext
<1>1. /\ PathInv /\ IsProgram(program) /\ PathOf(program, frames) /\ IsMeaning(Meaning)
      /\ DispatchInv /\ ScopeInv /\ SetsFit(sets)
      /\ AllMean(program, Meaning, frames) /\ LocalsMean(program, Meaning, locals)
  BY RunningMeans DEF MeaningInv
<1>2. PICK S : Owned(S)
  BY RunningMeans
<1>3. PICK made : Ready /\ Conclude(made) /\ Makes(made)
  BY ConclusionMakes
<1>4. Paid(made, S)
  BY <1>1, <1>2, <1>3, ConclusionPaid
<1>5. Listed(made.before) /\ Listed(made.after)
  BY <1>4 DEF Paid
<1>6. Gives(made, Meaning[Node])
  BY <1>1, <1>2, <1>3, <1>5, MadeGives
<1>7. Conclude(made)
  BY <1>3
<1>8. Running /\ frames # <<>> /\ verdict = "none"
  BY <1>3 DEF Ready, Running, MeaningInv
<1> DEFINE v == made.value
<1>9. CASE /\ Return(v) /\ UNCHANGED <<inputs, locals>>
           /\ AllHold(made.before) /\ AllHold(made.after)
  <2>1. Extends(S, v)
    BY <1>4, <1>9 DEF Paid
  <2>2. v = Meaning[Node]
    BY <1>6, <1>9 DEF Gives
  <2> HIDE DEF v
  <2>3. v.bytes \in Nat \ {0}
    BY <2>1, Zenon DEF Extends, HoldsParts
  <2>4. v # Failure
    BY <2>3, BoolTypes
  <2> QED
    BY <1>1, <1>8, <1>9, <2>2, <2>4, ReturnMeans
<1>10. ASSUME NEW reason, Stop(reason),
              \/ reason \in LimitVerdicts
              \/ Blames(made.before, reason) \/ Blames(made.after, reason)
       PROVE MeaningNext
  <2>2. reason \in ErrorVerdicts => Meaning[1] = Failure
    <3> SUFFICES ASSUME reason \in ErrorVerdicts PROVE Meaning[1] = Failure
      OBVIOUS
    <3>1. reason \notin LimitVerdicts
      BY OtherVerdicts, Zenon
    <3>2. Blames(made.before, reason) \/ Blames(made.after, reason)
      BY <1>10, <3>1
    <3>3. ~AllHold(made.before) \/ ~AllHold(made.after)
      BY <3>2, Zenon DEF Blames, AllHold
    <3>4. Meaning[frames[Len(frames)].node] = Failure
      BY <1>6, <3>3 DEF Gives, Node, Top
    <3> QED
      BY <1>1, <1>8, <3>4, FailureRises
  <2>3. reason # "done"
    <3> DEFINE done == "done"
    <3>1. done \notin LimitVerdicts /\ done \notin CallReasons /\ done # Missing
      BY Zenon DEF LimitVerdicts, CallReasons, Missing
    <3> HIDE DEF done
    <3>2. ~Blames(made.before, done) /\ ~Blames(made.after, done)
      BY <1>1, <1>2, <1>3, <3>1, MadeSilent DEF Silent
    <3> QED
      BY <1>10, <3>1, <3>2 DEF done
  <2> QED
    BY <1>10, <2>2, <2>3, StopMeans
<1> QED
  BY <1>5, <1>7, <1>9, <1>10, ConclusionEnds

(* Until a program runs, a request is only prepared or refused: whatever   *)
(* runs has the tickets of its operators, and no refusal is an answer.     *)
LEMMA EarlyMeans ==
  ASSUME MeaningInv, Prepare \/ Analyze \/ Verify
  PROVE /\ frames' = <<>> /\ locals' = <<>>
        /\ stage' # "ended" => verdict' = "none"
        /\ stage' \in {"verifying", "running"} => Operations \subseteq verified'.tickets
        /\ verdict' \notin ErrorVerdicts /\ verdict' # "done"
<1> DEFINE none == "none"
<1>1. /\ DispatchInv /\ ScopeInv /\ PathInv /\ request \in Requests /\ verdict = none
      /\ frames = <<>> /\ locals = <<>> /\ stage \in {"preparing", "analyzing", "verifying"}
  <2>1. DispatchInv /\ ScopeInv /\ PathInv /\ request \in Requests
    BY DEF MeaningInv, PaidInv, ScopeInv, PathInv
  <2>2. stage \in {"preparing", "analyzing", "verifying"}
    BY Zenon DEF Prepare, Analyze, Verify
  <2>3. stage # "ended"
    BY <2>2
  <2> QED
    BY <2>1, <2>2, <2>3 DEF MeaningInv, PathInv, CallsInv, EarlyInv
<1>2. none \notin ErrorVerdicts /\ none # "done"
  BY OtherVerdicts, Zenon
<1> HIDE DEF none
<1>3. frames' = <<>> /\ locals' = <<>>
  BY <1>1, Zenon DEF Prepare, Analyze, Verify, idle
<1>4. CASE Prepare
  <2> DEFINE configs == context.configs
             checks == SetChecks(configs, context.setLimits)
             r == FirstFailure(checks)
  <2>1. \/ stage' = "analyzing" /\ verdict' = verdict
        \/ ~AllHold(checks) /\ stage' = "ended" /\ verdict' = r
    BY <1>4, Zenon DEF Prepare, End
  <2>2. configs \in Seq(ToSet(configs))
    BY <1>1, ContextAssumption, Zenon DEF context
  <2>3. Listed(configs)
    BY <2>2 DEF Listed, Elements, ToSet
  <2> HIDE DEF configs
  <2>4. \A x \in ErrorVerdicts \cup {"done"} : Listed(checks) /\ ~Blames(checks, x)
    BY <2>3, SetsSilent, OtherVerdicts
  <2>5. Listed(checks)
    BY <2>4
  <2> HIDE DEF checks
  <2>6. ~AllHold(checks) => Blames(checks, r)
    BY <2>5, FirstBlamed
  <2> HIDE DEF r
  <2>7. CASE stage' = "analyzing" /\ verdict' = verdict
    BY <1>1, <1>2, <1>3, <2>7 DEF none
  <2>8. CASE ~AllHold(checks) /\ stage' = "ended" /\ verdict' = r
    BY <1>3, <2>4, <2>6, <2>8
  <2> QED
    BY <2>1, <2>7, <2>8
<1>5. CASE Analyze
  <2>1. \/ stage' = "verifying" /\ verdict' = verdict /\ verified' = VerifiedProgram
        \/ stage' = "ended" /\ verdict' = "refused"
    BY <1>5, Zenon DEF Analyze, End
  <2>2. Operations \subseteq VerifiedProgram.tickets
    BY DEF VerifiedProgram, Resolved
  <2> HIDE DEF none
  <2>3. "refused" # "done" /\ "verifying" # "ended" /\ "ended" \notin {"verifying", "running"}
    OBVIOUS
  <2> QED
    BY <1>1, <1>2, <1>3, <2>1, <2>2, <2>3, OtherVerdicts, Zenon DEF none
<1>6. CASE Verify
  <2>1. \/ stage' = "running" /\ verdict' = verdict
        \/ stage' = "ended" /\ verdict' = "capability"
    BY <1>6, Zenon DEF Verify, End
  <2>2. Operations \subseteq verified.tickets /\ verified' = verified
    BY <1>6 DEF MeaningInv, Verify, inputs
  <2>3. "capability" # "done" /\ "running" # "ended" /\ "ended" \notin {"verifying", "running"}
    OBVIOUS
  <2> QED
    BY <1>1, <1>2, <1>3, <2>1, <2>2, <2>3, OtherVerdicts, Zenon DEF none
<1> QED
  BY <1>4, <1>5, <1>6

(* At first nothing has been evaluated.                                    *)
LEMMA MeaningInit == Init => MeaningInv
<1> SUFFICES ASSUME Init PROVE MeaningInv
  OBVIOUS
<1>1. PaidInv
  BY PaidInit
<1>2. stage = "preparing" /\ verdict = "none" /\ frames = <<>> /\ locals = <<>>
  BY DEF Init
<1>3. AllMean(program, Meaning, frames) /\ LocalsMean(program, Meaning, locals)
  BY <1>2, MeansNone
<1>4. AnswersRight(Meaning)
  BY <1>2, OtherVerdicts, Zenon DEF AnswersRight
<1> QED
  BY <1>1, <1>2, <1>3, <1>4 DEF MeaningInv

(* Every step leaves the values of operands, arguments and the answer what *)
(* their nodes mean.                                                       *)
LEMMA MeaningStep ==
  ASSUME MeaningInv, [Next]_vars
  PROVE MeaningInv'
<1>1. PaidInv'
  BY PaidStep DEF MeaningInv
<1>2. CASE Prepare \/ Analyze \/ Verify
  <2>1. /\ frames' = <<>> /\ locals' = <<>>
        /\ stage' # "ended" => verdict' = "none"
        /\ stage' \in {"verifying", "running"} => Operations \subseteq verified'.tickets
        /\ verdict' \notin ErrorVerdicts /\ verdict' # "done"
    BY <1>2, EarlyMeans
  <2>2. request' = request
    BY <1>2, Zenon DEF Prepare, Analyze, Verify, inputs
  <2>3. program' = program
    BY <2>2 DEF program
  <2>4. Operations' = Operations
    BY <2>3 DEF Operations, Nodes
  <2>5. (AllMean(program, Meaning, frames) /\ LocalsMean(program, Meaning, locals))'
    BY <2>1, <2>3, MeansNone
  <2>6. AnswersRight(Meaning)'
    BY <2>1, Zenon DEF AnswersRight
  <2> QED
    BY <1>1, <2>1, <2>4, <2>5, <2>6 DEF MeaningInv
<1>3. CASE EnterRoot \/ EnterOperand \/ Bind \/ LeaveFunction \/ Conclusion
  <2>1. MeaningNext
    BY <1>3, EnterMeans, BindMeans, LeaveMeans, ConclusionMeans
  <2>2. UNCHANGED inputs
    BY <2>1 DEF MeaningNext
  <2>3. program' = program /\ verified' = verified /\ Meaning' = Meaning
    BY <2>2, MeaningKept DEF program, inputs
  <2>4. Operations' = Operations
    BY <2>3 DEF Operations, Nodes
  <2>5. (AllMean(program, Meaning, frames) /\ LocalsMean(program, Meaning, locals))'
    BY <2>1, <2>3 DEF MeaningNext
  <2>6. stage' # "ended" => stage' = stage /\ verdict' = "none"
    BY <2>1 DEF MeaningNext
  <2>7. stage' \in {"verifying", "running"} => Operations' \subseteq verified'.tickets
    BY <2>3, <2>4, <2>6 DEF MeaningInv
  <2>8. AnswersRight(Meaning)'
    BY <2>1 DEF MeaningNext
  <2> QED
    BY <1>1, <2>5, <2>6, <2>7, <2>8 DEF MeaningInv
<1>4. CASE UNCHANGED vars
  <2>1. UNCHANGED <<inputs, stage, verdict, frames, locals, result>>
    BY <1>4, Zenon DEF vars, inputs
  <2>2. program' = program /\ verified' = verified /\ Meaning' = Meaning
    BY <2>1, MeaningKept DEF program, inputs
  <2>3. Operations' = Operations
    BY <2>2 DEF Operations, Nodes
  <2>4. AnswersRight(Meaning)'
    BY <2>1, <2>2 DEF MeaningInv, AnswersRight
  <2>5. (AllMean(program, Meaning, frames) /\ LocalsMean(program, Meaning, locals))'
    BY <2>1, <2>2 DEF MeaningInv
  <2> QED
    BY <1>1, <2>1, <2>2, <2>3, <2>4, <2>5 DEF MeaningInv
<1> QED
  BY <1>2, <1>3, <1>4, Zenon DEF Next, Conclusion

-----------------------------------------------------------------------------
\* Counting what an evaluation visits.

(* A sequence that is higher in one place has a higher sum.                *)
LEMMA SumRaised ==
  ASSUME NEW n \in Nat, NEW s \in Seq(Nat), NEW t \in Seq(Nat), Len(s) = n, Len(t) = n,
         NEW m \in 1 .. n, NEW x \in Nat, t[m] = s[m] + x,
         \A k \in 1 .. n : k # m => t[k] = s[k]
  PROVE SumOf(t) = SumOf(s) + x
<1>1. n \in Nat /\ x \in Nat
  OBVIOUS
<1>2. PICK f : Sums(f, s)
  BY SumsExist
<1>3. PICK g : Sums(g, t)
  BY SumsExist
<1>4. SumOf(s) = f[n] /\ SumOf(t) = g[n]
  BY <1>2, <1>3, SumIs
<1>5. /\ f \in [0 .. n -> Nat] /\ f[0] = 0 /\ \A k \in 1 .. n : f[k] = f[k - 1] + s[k]
      /\ g \in [0 .. n -> Nat] /\ g[0] = 0 /\ \A k \in 1 .. n : g[k] = g[k - 1] + t[k]
  BY <1>2, <1>3 DEF Sums, SumsUpTo
<1>6. \A k \in 1 .. n : s[k] \in Nat
  OBVIOUS
<1>7. m \in 1 .. n /\ t[m] = s[m] + x /\ \A k \in 1 .. n : k # m => t[k] = s[k]
  OBVIOUS
<1> DEFINE At(k) == (k < m => g[k] = f[k]) /\ (~(k < m) => g[k] = f[k] + x)
           T == {k \in 0 .. n : At(k)}
<1>8. 0 \in T
  BY <1>1, <1>5, <1>7
<1>9. ASSUME NEW k \in 1 .. n, k - 1 \in T PROVE k \in T
  <2>1. /\ g[k] = g[k - 1] + t[k] /\ f[k] = f[k - 1] + s[k]
        /\ k - 1 < m => g[k - 1] = f[k - 1]
        /\ ~(k - 1 < m) => g[k - 1] = f[k - 1] + x
        /\ k - 1 \in 0 .. n /\ k \in 0 .. n
    <3>1. At(k - 1) /\ k - 1 \in 0 .. n /\ k \in 0 .. n
      BY <1>1, <1>9
    <3> QED
      BY <1>5, <3>1
  <2>2. f[k - 1] \in Nat /\ s[k] \in Nat
    BY <1>5, <1>6, <2>1
  <2>3. CASE k = m
    <3>1. t[k] = s[k] + x /\ k - 1 < m /\ ~(k < m)
      BY <1>1, <1>7, <2>3
    <3>2. g[k] = f[k] + x
      <4>1. g[k - 1] = f[k - 1]
        BY <2>1, <3>1
      <4>2. g[k] = f[k - 1] + (s[k] + x) /\ f[k] = f[k - 1] + s[k]
        BY <2>1, <3>1, <4>1
      <4> DEFINE a == f[k - 1]
                 b == s[k]
      <4>3. a \in Nat /\ b \in Nat /\ g[k] = a + (b + x) /\ f[k] = a + b
        BY <2>2, <4>2
      <4> HIDE DEF a, b
      <4> QED
        BY <1>1, <4>3
    <3> QED
      BY <2>1, <3>1, <3>2
  <2>4. CASE k # m
    <3>1. t[k] = s[k] /\ (k - 1 < m <=> k < m)
      BY <1>1, <1>7, <2>4
    <3> DEFINE a == f[k - 1]
               b == s[k]
               c == g[k - 1]
    <3>2. /\ a \in Nat /\ b \in Nat /\ g[k] = c + b /\ f[k] = a + b
          /\ (k < m => c = a) /\ (~(k < m) => c = a + x)
      BY <2>1, <2>2, <3>1
    <3> HIDE DEF a, b, c
    <3>3. At(k)
      BY <1>1, <3>2
    <3> QED
      BY <2>1, <3>3
  <2> QED
    BY <2>3, <2>4
<1> HIDE DEF T
<1>10. \A k \in 0 .. n : k \in T
  BY <1>1, <1>8, <1>9, UpTo
<1>11. n \in T
  BY <1>1, <1>10
<1> QED
  BY <1>1, <1>4, <1>7, <1>11 DEF T

(* A sequence of zeros adds up to nothing.                                 *)
LEMMA SumNothing ==
  ASSUME NEW s \in Seq(Nat), \A k \in 1 .. Len(s) : s[k] = 0
  PROVE SumOf(s) = 0
<1> DEFINE n == Len(s)
<1>1. n \in Nat
  OBVIOUS
<1>2. PICK f : Sums(f, s)
  BY SumsExist
<1>3. SumOf(s) = f[n]
  BY <1>2, SumIs
<1>4. f[0] = 0 /\ \A k \in 1 .. n : f[k] = f[k - 1] + s[k]
  BY <1>2 DEF Sums, SumsUpTo
<1>5. \A k \in 1 .. n : s[k] = 0
  OBVIOUS
<1> HIDE DEF n
<1> DEFINE T == {k \in 0 .. n : f[k] = 0}
<1>6. 0 \in T /\ \A k \in 1 .. n : k - 1 \in T => k \in T
  BY <1>1, <1>4, <1>5
<1> HIDE DEF T
<1>7. \A k \in 0 .. n : k \in T
  BY <1>1, <1>6, UpTo
<1> QED
  BY <1>1, <1>3, <1>7 DEF T

(* Nothing is visited, nothing is counted.                                 *)
LEMMA TallyNone ==
  ASSUME NEW p, IsProgram(p), NEW C
  PROVE Tally(p, C, {}) = 0
<1> DEFINE s == [i \in DOMAIN p.kind |-> IF i \in {} THEN C[i] ELSE 0]
           n == Len(p.kind)
<1>1. n \in Nat /\ DOMAIN p.kind = 1 .. n
  BY ProgramOperands
<1>2. s \in [1 .. n -> Nat] /\ \A k \in 1 .. n : s[k] = 0
  BY <1>1
<1> HIDE DEF s, n
<1>3. s \in Seq(Nat) /\ Len(s) = n
  BY <1>1, <1>2, SeqDef
<1>4. SumOf(s) = 0
  BY <1>2, <1>3, SumNothing
<1> QED
  BY <1>4 DEF Tally, s

(* A node more adds what it costs.                                         *)
LEMMA TallyMore ==
  ASSUME NEW p, IsProgram(p), NEW C, NEW X, NEW m \in DOMAIN p.kind, m \notin X,
         NEW Y, Y = X \cup {m}, \A i \in Y : C[i] \in Nat
  PROVE Tally(p, C, Y) = Tally(p, C, X) + C[m]
<1> DEFINE s == [i \in DOMAIN p.kind |-> IF i \in X THEN C[i] ELSE 0]
           t == [i \in DOMAIN p.kind |-> IF i \in Y THEN C[i] ELSE 0]
           n == Len(p.kind)
           x == C[m]
<1>1. n \in Nat /\ DOMAIN p.kind = 1 .. n /\ m \in 1 .. n /\ x \in Nat
  BY ProgramOperands
<1>2. /\ s \in [1 .. n -> Nat] /\ t \in [1 .. n -> Nat] /\ t[m] = s[m] + x
      /\ \A k \in 1 .. n : k # m => t[k] = s[k]
  BY <1>1
<1> HIDE DEF s, t, n, x
<1>3. s \in Seq(Nat) /\ Len(s) = n /\ t \in Seq(Nat) /\ Len(t) = n
  BY <1>1, <1>2, SeqDef
<1>4. \A k \in 1 .. n : k # m => t[k] = s[k]
  BY <1>2
<1>5. n \in Nat /\ s \in Seq(Nat) /\ t \in Seq(Nat) /\ Len(s) = n /\ Len(t) = n
      /\ m \in 1 .. n /\ x \in Nat /\ t[m] = s[m] + x
  BY <1>1, <1>2, <1>3
<1>6. SumOf(t) = SumOf(s) + x
  BY <1>4, <1>5, SumRaised
<1> QED
  BY <1>6 DEF Tally, s, t, x

(* A node is reached if it is the root, or from its parent.                *)
LEMMA ReachedIs ==
  ASSUME IsProgram(program)
  PROVE /\ Reached \subseteq Nodes /\ 1 \in Reached
        /\ \A i \in Nodes \ {1} :
             i \in Reached <=> Parent(i) \in Reached /\ ReachedFrom(i, Meaning)
<1> DEFINE n == Len(program.kind)
           Solves(g) ==
             g = [i \in Nodes |->
                    IF i = 1 THEN TRUE
                    ELSE LET j == Parent(i)
                             left == program.kids[j][1]
                         IN  /\ g[j]
                             /\ program.kind[j] \in {"and", "or"} /\ i # left =>
                                  Meaning[left] = Bool(program.kind[j] = "and")]
           r == CHOOSE g : Solves(g)
           up == [i \in 2 .. n |-> Parent(i)]
           step == [i \in 2 .. n |-> [v \in BOOLEAN |-> v /\ ReachedFrom(i, Meaning)]]
<1>1. Nodes = 1 .. n /\ n \in Nat /\ 1 \in Nodes
  BY ProgramOperands DEF Nodes
<1>2. \A i \in 2 .. n : up[i] = Parent(i) /\ Parent(i) \in 1 .. i - 1 /\ i \in Nodes /\ i # 1
                        /\ Parent(i) \in Nodes
  <2> SUFFICES ASSUME NEW i \in 2 .. n PROVE Parent(i) \in 1 .. i - 1
    BY <1>1
  <2>1. i \in Nodes \ {1}
    BY <1>1
  <2> QED
    BY <2>1, ParentBefore
<1>3. \A i \in 2 .. n : \A v \in BOOLEAN : step[i][v] \in BOOLEAN
                                           /\ (step[i][v] <=> v /\ ReachedFrom(i, Meaning))
  OBVIOUS
<1>4. \A i \in 2 .. n : up[i] \in 1 .. i - 1
  BY <1>2
<1> HIDE DEF up, step, n
<1>5. PICK f \in [1 .. n -> BOOLEAN] :
        \A i \in 1 .. n : f[i] = IF i = 1 THEN TRUE ELSE step[i][f[up[i]]]
  <2>1. \E f : PassesDown(f, n, BOOLEAN, TRUE, up, step)
    BY <1>1, <1>3, <1>4, PassedDown
  <2> QED
    BY <2>1, Zenon DEF PassesDown
<1>6. f[1] = TRUE
  BY <1>1, <1>5
<1>7. \A i \in Nodes \ {1} : f[i] = (f[Parent(i)] /\ ReachedFrom(i, Meaning))
  <2> SUFFICES ASSUME NEW i \in Nodes \ {1} PROVE f[i] = (f[Parent(i)] /\ ReachedFrom(i, Meaning))
    OBVIOUS
  <2>1. i \in 2 .. n
    BY <1>1
  <2>2. f[i] = step[i][f[Parent(i)]] /\ f[Parent(i)] \in BOOLEAN /\ f[i] \in BOOLEAN
    <3>1. up[i] = Parent(i) /\ Parent(i) \in 1 .. n /\ i \in 1 .. n /\ i # 1
      BY <1>1, <1>2, <2>1
    <3> QED
      BY <1>5, <3>1
  <2> QED
    BY <1>3, <2>1, <2>2
<1>8. Solves(f)
  <2>1. \A i \in Nodes :
          f[i] = IF i = 1 THEN TRUE
                 ELSE LET j == Parent(i)
                          left == program.kids[j][1]
                      IN  /\ f[j]
                          /\ program.kind[j] \in {"and", "or"} /\ i # left =>
                               Meaning[left] = Bool(program.kind[j] = "and")
    BY <1>6, <1>7, Zenon DEF ReachedFrom
  <2>2. f \in [Nodes -> BOOLEAN]
    BY <1>1, <1>5
  <2> QED
    BY <2>1, <2>2, Zenon
<1>9. Solves(r)
  <2> HIDE DEF Solves
  <2> QED
    BY <1>8, Zenon
<1>10. Reached = {i \in Nodes : r[i]}
  BY Zenon DEF Reached
<1> HIDE DEF r
<1>11. r[1] /\ \A i \in Nodes \ {1} : r[i] <=> r[Parent(i)] /\ ReachedFrom(i, Meaning)
  BY <1>1, <1>9, Zenon DEF ReachedFrom
<1>12. \A i \in Nodes \ {1} : Parent(i) \in Nodes
  BY <1>1, <1>2
<1> QED
  BY <1>1, <1>10, <1>11, <1>12, Zenon

(* A node is begun.                                                        *)
LEMMA CoversPush ==
  ASSUME NEW p, IsProgram(p), NEW fs, Listed(fs), NEW R, NEW E, NEW D, Covers(p, fs, R, E, D),
         NEW i \in R, i \in DOMAIN p.kind, i \notin E,
         NEW f, f.node = i, f.vals = <<>>, f.bound = FALSE
  PROVE Covers(p, Append(fs, f), R, E \cup {i}, D)
<1> DEFINE gs == Append(fs, f)
           n == Len(fs)
<1>1. /\ Listed(gs) /\ Len(gs) = n + 1 /\ \A k \in DOMAIN fs : gs[k] = fs[k]
      /\ gs[n + 1] = f
  BY AppendListed
<1>2. DOMAIN gs = 1 .. n + 1 /\ n \in Nat /\ DOMAIN fs = 1 .. n
  BY <1>1, ListedProperties
<1>3. \A q \in DOMAIN p.kids[i] : ~(q < Position(p, f))
  <2>1. Len(f.vals) = 0
    BY EmptyLength
  <2>2. Position(p, f) = 1
    BY <2>1 DEF Position
  <2>3. DOMAIN p.kids[i] = 1 .. Len(p.kids[i])
    BY ProgramOperands
  <2> QED
    BY <2>2, <2>3
<1> HIDE DEF gs, n
<1>4. \A k \in DOMAIN gs : (k \in DOMAIN fs /\ gs[k] = fs[k]) \/ (k = n + 1 /\ gs[k] = f)
  <2>1. \A k \in 1 .. n + 1 : k \in 1 .. n \/ k = n + 1
    BY <1>2
  <2> QED
    BY <1>1, <1>2, <2>1
<1>5. n + 1 \in DOMAIN gs /\ \A k \in DOMAIN fs : k \in DOMAIN gs
  BY <1>2
<1>6. /\ D \subseteq E /\ E \subseteq R
      /\ \A j \in E : j \in D \/ \E k \in DOMAIN fs : j = fs[k].node
      /\ \A k \in DOMAIN fs :
           /\ fs[k].node \in E /\ fs[k].node \notin D
           /\ \A q \in DOMAIN p.kids[fs[k].node] :
                q < Position(p, fs[k]) => p.kids[fs[k].node][q] \in E
      /\ \A j \in D : \A q \in DOMAIN p.kids[j] : p.kids[j][q] \in R => p.kids[j][q] \in E
  BY DEF Covers
<1>7. \A j \in E \cup {i} : j \in D \/ \E k \in DOMAIN gs : j = gs[k].node
  <2> SUFFICES ASSUME NEW j \in E \cup {i}, j \notin D PROVE \E k \in DOMAIN gs : j = gs[k].node
    OBVIOUS
  <2>1. CASE j = i
    BY <1>1, <1>5, <2>1
  <2>2. CASE j # i
    <3>1. PICK k \in DOMAIN fs : j = fs[k].node
      BY <1>6, <2>2
    <3> QED
      BY <1>1, <1>5, <3>1
  <2> QED
    BY <2>1, <2>2
<1>8. ASSUME NEW k \in DOMAIN gs
      PROVE /\ gs[k].node \in E \cup {i} /\ gs[k].node \notin D
            /\ \A q \in DOMAIN p.kids[gs[k].node] :
                 q < Position(p, gs[k]) => p.kids[gs[k].node][q] \in E \cup {i}
  <2>1. CASE k \in DOMAIN fs /\ gs[k] = fs[k]
    BY <1>6, <2>1
  <2>2. CASE gs[k] = f
    BY <1>3, <1>6, <2>2
  <2> QED
    BY <1>4, <2>1, <2>2
<1>9. Covers(p, gs, R, E \cup {i}, D)
  <2>1. D \subseteq E \cup {i} /\ E \cup {i} \subseteq R
    BY <1>6
  <2>2. \A j \in D : \A q \in DOMAIN p.kids[j] :
          p.kids[j][q] \in R => p.kids[j][q] \in E \cup {i}
    BY <1>6
  <2> QED
    BY <1>7, <1>8, <2>1, <2>2 DEF Covers
<1> QED
  BY <1>9 DEF gs

(* Arguments are bound.                                                    *)
LEMMA CoversBind ==
  ASSUME NEW p, IsProgram(p), NEW fs, PathOf(p, fs), fs # <<>>, NEW gs, Binds(fs, gs),
         ~fs[Len(fs)].bound, Len(fs[Len(fs)].vals) = Len(p.kids[fs[Len(fs)].node]) - 1,
         NEW R, NEW E, NEW D, Covers(p, fs, R, E, D)
  PROVE Covers(p, gs, R, E, D)
<1>1. /\ DOMAIN gs = DOMAIN fs
      /\ \A k \in DOMAIN gs : gs[k].node = fs[k].node /\ Position(p, gs[k]) = Position(p, fs[k])
  BY PositionsBind
<1> QED
  BY <1>1 DEF Covers

(* The last call is done, with all that was to visit of its operands.      *)
LEMMA CoversAnswer ==
  ASSUME NEW p, IsProgram(p), NEW fs, PathOf(p, fs), fs # <<>>,
         NEW gs, NEW v, Answers(fs, gs, v), NEW last, Ahead(p, fs, last),
         NEW R, NEW E, NEW D, Covers(p, fs, R, E, D),
         NEW top, top = fs[Len(fs)].node,
         \A q \in DOMAIN p.kids[top] : p.kids[top][q] \in R => p.kids[top][q] \in E
  PROVE Covers(p, gs, R, E, D \cup {top})
<1> DEFINE n == Len(fs)
           m == n - 1
<1>1. /\ DOMAIN gs = 1 .. m
      /\ \A k \in DOMAIN gs :
           /\ k \in DOMAIN fs /\ k # n /\ gs[k].node = fs[k].node
           /\ Position(p, fs[k]) \in Nat
           /\ k # m => gs[k] = fs[k]
           /\ k = m => Position(p, gs[k]) = Position(p, fs[k]) + 1
  BY PositionsAnswer
<1>2. Listed(fs) /\ \A k \in DOMAIN fs : Placed(p, fs[k])
  BY DEF PathOf
<1>3. n \in Nat /\ DOMAIN fs = 1 .. n /\ n > 0
  BY <1>2, ListedProperties
<1>4. top = fs[n].node /\ n \in DOMAIN fs
  BY <1>3
<1>5. \A k \in DOMAIN fs : k # Len(fs) => Awaits(p, fs[k]) /\ fs[k + 1].node = Awaited(p, fs[k])
  BY DEF PathOf
<1>6. \A k, l \in DOMAIN fs : k < l => fs[k].node < fs[l].node
  BY DEF Ahead
<1>7. /\ D \subseteq E /\ E \subseteq R
      /\ \A j \in E : j \in D \/ \E k \in DOMAIN fs : j = fs[k].node
      /\ \A k \in DOMAIN fs :
           /\ fs[k].node \in E /\ fs[k].node \notin D
           /\ \A q \in DOMAIN p.kids[fs[k].node] :
                q < Position(p, fs[k]) => p.kids[fs[k].node][q] \in E
      /\ \A j \in D : \A q \in DOMAIN p.kids[j] : p.kids[j][q] \in R => p.kids[j][q] \in E
  BY DEF Covers
<1> HIDE DEF n
<1>8. \A k \in DOMAIN gs : k \in DOMAIN fs /\ gs[k].node = fs[k].node /\ gs[k].node # top
  <2> SUFFICES ASSUME NEW k \in DOMAIN gs PROVE gs[k].node # top
    BY <1>1
  <2>1. k < n /\ k \in DOMAIN fs /\ gs[k].node = fs[k].node
    BY <1>1, <1>3
  <2>2. fs[k].node < fs[n].node
    BY <1>4, <1>6, <2>1
  <2>3. fs[k].node \in Nat
    BY <1>2, <2>1, ProgramOperands DEF Placed
  <2> QED
    BY <1>4, <2>1, <2>2, <2>3
<1>9. \A j \in E : j \in D \cup {top} \/ \E k \in DOMAIN gs : j = gs[k].node
  <2> SUFFICES ASSUME NEW j \in E, j \notin D, j # top PROVE \E k \in DOMAIN gs : j = gs[k].node
    OBVIOUS
  <2>1. PICK k \in DOMAIN fs : j = fs[k].node
    BY <1>7
  <2>2. k # n
    BY <1>4, <2>1
  <2>3. k \in DOMAIN gs
    BY <1>1, <1>3, <2>2
  <2> QED
    BY <1>8, <2>1, <2>3
<1>10. ASSUME NEW k \in DOMAIN gs, NEW q \in DOMAIN p.kids[gs[k].node], q < Position(p, gs[k])
       PROVE p.kids[gs[k].node][q] \in E
  <2> DEFINE f == fs[k]
             at == Position(p, f)
  <2>1. k \in DOMAIN fs /\ gs[k].node = f.node /\ k # n /\ at \in Nat
    BY <1>1
  <2>2. q \in Nat
    <3>1. f.node \in DOMAIN p.kind
      BY <1>2, <2>1 DEF Placed
    <3>2. DOMAIN p.kids[f.node] = 1 .. Len(p.kids[f.node])
      BY <3>1, ProgramOperands
    <3> QED
      BY <1>10, <2>1, <3>2
  <2>3. CASE q < at
    BY <1>7, <1>10, <2>1, <2>3
  <2>4. CASE ~(q < at)
    <3>1. k = m /\ q = at
      <4>1. k # m => Position(p, gs[k]) = at
        BY <1>1
      <4>2. k = m => Position(p, gs[k]) = at + 1
        BY <1>1
      <4> HIDE DEF at
      <4> QED
        BY <1>10, <2>1, <2>2, <2>4, <4>1, <4>2
    <3>2. k + 1 = n
      BY <1>3, <3>1
    <3>3. fs[n].node = Awaited(p, f)
      BY <1>5, <2>1, <3>2 DEF n
    <3>4. fs[n].node \in E
      BY <1>4, <1>7
    <3> QED
      BY <2>1, <3>1, <3>3, <3>4 DEF Awaited
  <2> QED
    BY <2>3, <2>4
<1>11. \A k \in DOMAIN gs : gs[k].node \in E /\ gs[k].node \notin D \cup {top}
  BY <1>7, <1>8
<1>12. D \cup {top} \subseteq E
  BY <1>4, <1>7
<1>13. \A j \in D \cup {top} : \A q \in DOMAIN p.kids[j] :
         p.kids[j][q] \in R => p.kids[j][q] \in E
  BY <1>7
<1> QED
  BY <1>7, <1>9, <1>10, <1>11, <1>12, <1>13 DEF Covers

(* At first nothing has been begun.                                        *)
LEMMA CountedNone ==
  ASSUME NEW p, IsProgram(p), NEW fs, fs = <<>>, NEW R, NEW C
  PROVE Counted(p, fs, R, C, 0, 0)
<1>1. DOMAIN fs = {}
  BY EmptyLength
<1>2. Ahead(p, fs, 0)
  BY <1>1 DEF Ahead
<1>3. 0 \in 0 .. Len(p.kind)
  BY ProgramOperands
<1> DEFINE none == {}
<1>4. Covers(p, fs, R, none, none) /\ none \subseteq 1 .. 0 /\ \A i \in none : C[i] \in Nat
  BY <1>1 DEF Covers
<1>5. Cardinality(none) = 0 /\ Tally(p, C, none) = 0
  BY FS_EmptySet, TallyNone
<1> HIDE DEF none
<1>6. CountedTo(p, fs, R, C, 0, 0, 0)
  BY <1>4, <1>5 DEF CountedTo
<1> QED
  BY <1>2, <1>3, <1>6 DEF Counted

(* A node more is begun.                                                   *)
LEMMA CountedPush ==
  ASSUME NEW p, IsProgram(p), NEW fs, PathOf(p, fs), NEW i, Following(p, fs, i),
         NEW R, i \in R, NEW C, NEW n, NEW b, Counted(p, fs, R, C, n, b)
  PROVE Counted(p, Append(fs, [node |-> i, vals |-> <<>>, bound |-> FALSE]), R, C, n + 1, b)
<1> DEFINE new == [node |-> i, vals |-> <<>>, bound |-> FALSE]
           gs == Append(fs, new)
<1>1. PICK last \in 0 .. Len(p.kind) :
        Ahead(p, fs, last) /\ (fs = <<>> => last = 0) /\ CountedTo(p, fs, R, C, n, b, last)
  BY DEF Counted
<1>2. last \in Nat
  BY <1>1, ProgramOperands
<1>3. last < i /\ i \in DOMAIN p.kind /\ Ahead(p, gs, i)
  <2> HIDE DEF gs, new
  <2> QED
    BY <1>1, <1>2, AheadPush DEF gs, new
<1>4. PICK E, D :
        /\ E \subseteq 1 .. last /\ Covers(p, fs, R, E, D)
        /\ n = Cardinality(E) /\ b = Tally(p, C, D) /\ \A k \in D : C[k] \in Nat
  BY <1>1 DEF CountedTo
<1>5. i \in Nat /\ i \in 0 .. Len(p.kind)
  BY <1>3, ProgramOperands
<1>6. i \notin E /\ E \cup {i} \subseteq 1 .. i
  <2>1. \A k \in E : k \in 1 .. last
    BY <1>4
  <2>2. i \notin 1 .. last /\ i \in 1 .. i /\ \A k \in 1 .. last : k \in 1 .. i
    BY <1>2, <1>3, <1>5
  <2> QED
    BY <2>1, <2>2, Zenon
<1>7. Listed(fs)
  BY DEF PathOf
<1>8. new.node = i /\ new.vals = <<>> /\ new.bound = FALSE
  OBVIOUS
<1> HIDE DEF new
<1>9. Covers(p, gs, R, E \cup {i}, D)
  BY <1>3, <1>4, <1>6, <1>7, <1>8, CoversPush
<1>10. n + 1 = Cardinality(E \cup {i})
  <2>1. IsFiniteSet(1 .. last)
    <3>1. 1 \in Int /\ last \in Int
      BY <1>2
    <3> QED
      BY <3>1, FS_Interval
  <2>2. IsFiniteSet(E)
    BY <1>4, <2>1, FS_Subset
  <2> QED
    BY <1>4, <1>6, <2>2, FS_AddElement
<1>11. gs # <<>>
  <2>1. Listed(gs) /\ Len(gs) = Len(fs) + 1 /\ Len(fs) \in Nat
    BY <1>7, AppendListed, ListedProperties
  <2> HIDE DEF gs
  <2> QED
    BY <2>1, EmptyLength
<1> HIDE DEF gs
<1>12. CountedTo(p, gs, R, C, n + 1, b, i)
  BY <1>4, <1>6, <1>9, <1>10 DEF CountedTo
<1>13. Counted(p, gs, R, C, n + 1, b)
  BY <1>3, <1>5, <1>11, <1>12 DEF Counted
<1> QED
  BY <1>13 DEF gs, new

(* Arguments are bound.                                                    *)
LEMMA CountedBind ==
  ASSUME NEW p, IsProgram(p), NEW fs, PathOf(p, fs), fs # <<>>, NEW gs, Binds(fs, gs),
         ~fs[Len(fs)].bound, Len(fs[Len(fs)].vals) = Len(p.kids[fs[Len(fs)].node]) - 1,
         NEW R, NEW C, NEW n, NEW b, Counted(p, fs, R, C, n, b)
  PROVE Counted(p, gs, R, C, n, b)
<1>1. PICK last \in 0 .. Len(p.kind) : Ahead(p, fs, last) /\ CountedTo(p, fs, R, C, n, b, last)
  BY DEF Counted
<1>2. Ahead(p, gs, last)
  BY <1>1, AheadBind
<1>3. PICK E, D :
        /\ E \subseteq 1 .. last /\ Covers(p, fs, R, E, D)
        /\ n = Cardinality(E) /\ b = Tally(p, C, D) /\ \A k \in D : C[k] \in Nat
  BY <1>1 DEF CountedTo
<1>4. Covers(p, gs, R, E, D)
  BY <1>3, CoversBind
<1>5. gs # <<>>
  <2>1. Listed(gs) /\ Len(gs) = Len(fs) /\ Listed(fs)
    BY DEF Binds, PathOf
  <2> QED
    BY <2>1, ListedProperties
<1>6. CountedTo(p, gs, R, C, n, b, last)
  BY <1>3, <1>4 DEF CountedTo
<1> QED
  BY <1>2, <1>5, <1>6 DEF Counted

(* A node more is done.                                                    *)
LEMMA CountedAnswer ==
  ASSUME NEW p, IsProgram(p), NEW fs, PathOf(p, fs), fs # <<>>,
         NEW gs, gs # <<>>, NEW v, Answers(fs, gs, v),
         NEW R, Finished(p, fs, R), NEW C, NEW n, NEW b, Counted(p, fs, R, C, n, b),
         C[fs[Len(fs)].node] \in Nat
  PROVE Counted(p, gs, R, C, n, b + C[fs[Len(fs)].node])
<1> DEFINE top == fs[Len(fs)].node
<1>1. PICK last \in 0 .. Len(p.kind) : Ahead(p, fs, last) /\ CountedTo(p, fs, R, C, n, b, last)
  BY DEF Counted
<1>2. Ahead(p, gs, last)
  BY <1>1, AheadAnswer
<1>3. PICK E, D :
        /\ E \subseteq 1 .. last /\ Covers(p, fs, R, E, D)
        /\ n = Cardinality(E) /\ b = Tally(p, C, D) /\ \A k \in D : C[k] \in Nat
  BY <1>1 DEF CountedTo
<1>4. Listed(fs) /\ Len(fs) \in DOMAIN fs /\ top \in DOMAIN p.kind
  <2>1. Listed(fs)
    BY DEF PathOf
  <2>2. Len(fs) \in DOMAIN fs
    BY <2>1, ListedProperties
  <2> QED
    BY <2>1, <2>2 DEF PathOf, Placed
<1>5. /\ top \notin D
      /\ \A q \in DOMAIN p.kids[top] : q < Position(p, fs[Len(fs)]) => p.kids[top][q] \in E
  BY <1>3, <1>4 DEF Covers
<1>6. \A q \in DOMAIN p.kids[top] : p.kids[top][q] \in R => p.kids[top][q] \in E
  BY <1>5, Zenon DEF Finished
<1> HIDE DEF top
<1>7. Covers(p, gs, R, E, D \cup {top})
  BY <1>1, <1>3, <1>6, CoversAnswer DEF top
<1>8. \A k \in D \cup {top} : C[k] \in Nat
  BY <1>3 DEF top
<1>9. Tally(p, C, D \cup {top}) = b + C[top]
  <2> DEFINE Y == D \cup {top}
  <2>1. Y = D \cup {top} /\ top \in DOMAIN p.kind /\ top \notin D /\ \A k \in Y : C[k] \in Nat
    BY <1>4, <1>5, <1>8
  <2> HIDE DEF Y
  <2>2. Tally(p, C, Y) = Tally(p, C, D) + C[top]
    BY <2>1, TallyMore
  <2> QED
    BY <1>3, <2>2 DEF Y
<1>10. CountedTo(p, gs, R, C, n, b + C[top], last)
  BY <1>3, <1>7, <1>8, <1>9 DEF CountedTo
<1> QED
  BY <1>2, <1>10 DEF Counted, top

(* When the first call is done, everything has been visited.               *)
LEMMA CountedAll ==
  ASSUME NEW p, IsProgram(p), NEW fs, PathOf(p, fs), Len(fs) = 1,
         NEW R, R \subseteq DOMAIN p.kind, Finished(p, fs, R),
         NEW C, NEW n, NEW b, Counted(p, fs, R, C, n, b), C[1] \in Nat,
         \A i \in R : i # 1 =>
           \E j \in R : \E q \in DOMAIN p.kids[j] : i = p.kids[j][q]
  PROVE n = Cardinality(R) /\ b + C[1] = Tally(p, C, R)
<1>1. PICK last \in 0 .. Len(p.kind) : CountedTo(p, fs, R, C, n, b, last)
  BY DEF Counted
<1>2. PICK E, D :
        /\ E \subseteq 1 .. last /\ Covers(p, fs, R, E, D)
        /\ n = Cardinality(E) /\ b = Tally(p, C, D) /\ \A k \in D : C[k] \in Nat
  BY <1>1 DEF CountedTo
<1>3. DOMAIN fs = {1} /\ fs[1].node = 1 /\ 1 \in DOMAIN p.kind
  <2>1. Listed(fs)
    BY DEF PathOf
  <2>2. DOMAIN fs = 1 .. 1
    BY <2>1, ListedProperties
  <2>3. 1 .. 1 = {1} /\ 1 .. 1 # {}
    OBVIOUS
  <2>4. fs # <<>>
    BY <2>2, <2>3, EmptyLength
  <2> QED
    BY <2>2, <2>3, <2>4 DEF PathOf, Placed
<1>4. /\ D \subseteq E /\ E \subseteq R
      /\ \A i \in E : i \in D \/ i = 1
      /\ 1 \in E /\ 1 \notin D
      /\ \A q \in DOMAIN p.kids[1] : q < Position(p, fs[1]) => p.kids[1][q] \in E
      /\ \A i \in D : \A q \in DOMAIN p.kids[i] : p.kids[i][q] \in R => p.kids[i][q] \in E
  BY <1>2, <1>3 DEF Covers
<1>5. \A q \in DOMAIN p.kids[1] : p.kids[1][q] \in R => p.kids[1][q] \in E
  BY <1>3, <1>4 DEF Finished
<1>6. \A i \in E : \A q \in DOMAIN p.kids[i] : p.kids[i][q] \in R => p.kids[i][q] \in E
  BY <1>4, <1>5
<1> DEFINE m == Len(p.kind)
           T == {k \in 0 .. m : \A i \in 1 .. k : i \in R => i \in E}
<1>7. m \in Nat /\ DOMAIN p.kind = 1 .. m
  BY ProgramOperands
<1>8. \A j \in R : \A q \in DOMAIN p.kids[j] : p.kids[j][q] \in j + 1 .. m /\ j \in Nat
  BY ProgramOperands
<1> HIDE DEF m
<1>9. 0 \in T
  BY <1>7
<1>10. ASSUME NEW k \in 1 .. m, k - 1 \in T PROVE k \in T
  <2>1. \A i \in 1 .. k - 1 : i \in R => i \in E
    BY <1>10
  <2>2. k \in R => k \in E
    <3> SUFFICES ASSUME k \in R, k # 1 PROVE k \in E
      BY <1>4
    <3>1. PICK j \in R : \E q \in DOMAIN p.kids[j] : k = p.kids[j][q]
      OBVIOUS
    <3>2. PICK q \in DOMAIN p.kids[j] : k = p.kids[j][q]
      BY <3>1
    <3>3. k \in j + 1 .. m /\ j \in Nat /\ j \in 1 .. m
      BY <1>7, <1>8, <3>2
    <3>4. j \in 1 .. k - 1
      BY <1>7, <3>3
    <3> QED
      BY <1>6, <2>1, <3>2, <3>4
  <2> QED
    BY <1>7, <2>1, <2>2
<1>11. \A k \in 0 .. m : k \in T
  <2> HIDE DEF T
  <2> QED
    BY <1>7, <1>9, <1>10, UpTo
<1>12. m \in T
  BY <1>7, <1>11
<1>13. R = E /\ R = D \cup {1}
  BY <1>4, <1>7, <1>12
<1>14. \A k \in D \cup {1} : C[k] \in Nat
  BY <1>2
<1>15. Tally(p, C, D \cup {1}) = b + C[1]
  <2> DEFINE Y == D \cup {1}
  <2>1. Y = D \cup {1} /\ 1 \in DOMAIN p.kind /\ 1 \notin D /\ \A k \in Y : C[k] \in Nat
    BY <1>3, <1>4, <1>14
  <2> HIDE DEF Y
  <2>2. Tally(p, C, Y) = Tally(p, C, D) + C[1]
    BY <2>1, TallyMore
  <2> QED
    BY <1>2, <2>2 DEF Y
<1> QED
  BY <1>2, <1>13, <1>15

(* A program reaches the same nodes, at the same costs, as long as its     *)
(* request and what was compiled and verified are the same.                *)
LEMMA ReachedKept ==
  ASSUME UNCHANGED inputs
  PROVE Reached' = Reached /\ Costs' = Costs /\ program' = program
<1>1. request' = request /\ sets' = sets /\ verified' = verified
  BY DEF inputs
<1>2. Meaning' = Meaning
  BY MeaningKept
<1> QED
  BY <1>1, <1>2 DEF Reached, Costs, Charge, Arguments, CallOf, Handled, OperatorCall, Entry,
     Registered, Ticket, Receivers, Calls, Nodes, Parent, program, context, limits

(* The facts that the counting rests on.                                   *)
LEMMA CountFacts ==
  ASSUME CountInv, Running
  PROVE /\ IsProgram(program) /\ PathOf(program, frames) /\ AllCalled(frames) /\ PathInv
        /\ DispatchInv /\ ScopeInv /\ SetsFit(sets) /\ verdict = "none"
        /\ AllMean(program, Meaning, frames) /\ LocalsMean(program, Meaning, locals)
        /\ IsMeaning(Meaning) /\ processed \in Nat
        /\ Counted(program, frames, Reached, Costs, steps, processed)
        /\ result.bytes = 0
<1>1. MeaningInv /\ Counted(program, frames, Reached, Costs, steps, processed)
  BY DEF CountInv
<1>2. PICK S : Solvent(frames, locals, result, stage, history.worked, processed, limits.total, S)
  BY <1>1 DEF MeaningInv, PaidInv
<1>3. processed \in Nat /\ result.bytes = 0
  BY <1>2 DEF Solvent, Running
<1>4. verdict = "none" /\ AllMean(program, Meaning, frames) /\ LocalsMean(program, Meaning, locals)
  BY <1>1 DEF MeaningInv, Running
<1> QED
  BY <1>1, <1>3, <1>4, RunningMeans

(* The node of a call is reached.                                          *)
LEMMA TopReached ==
  ASSUME CountInv, Running, frames # <<>>
  PROVE Node \in Reached
<1>1. Len(frames) \in DOMAIN frames /\ Counted(program, frames, Reached, Costs, steps, processed)
  BY CountFacts, TopPlaced
<1>2. PICK E, D : Covers(program, frames, Reached, E, D)
  BY <1>1 DEF Counted, CountedTo
<1> QED
  BY <1>1, <1>2 DEF Covers, Node, Top

(* What is evaluated next is reached.                                      *)
LEMMA NextReached ==
  ASSUME CountInv, Running, NEW i, Following(program, frames, i),
         frames # <<>> => NeedsOperand
  PROVE i \in Reached
<1>1. /\ IsProgram(program) /\ PathOf(program, frames) /\ PathInv
      /\ AllMean(program, Meaning, frames)
  BY CountFacts
<1>2. CASE frames = <<>>
  BY <1>1, <1>2, ReachedIs DEF Following
<1>3. CASE frames # <<>>
  <2> DEFINE at == Position(program, Top)
  <2>1. Placed(program, Top) /\ Node \in Nodes /\ Len(frames) \in DOMAIN frames
    BY <1>1, <1>3, TopPlaced
  <2>2. Awaits(program, Top) /\ i = Operands[at] /\ at \in DOMAIN Operands
    <3>1. Awaits(program, Top) /\ i = Awaited(program, Top)
      BY <1>3 DEF Following, Top
    <3>2. at \in DOMAIN program.kids[Top.node]
      BY <1>1, <2>1, <3>1, AwaitedOperand
    <3> QED
      BY <3>1, <3>2 DEF Awaited, Operands, Node
  <2>3. i \in Nodes \ {1} /\ Parent(i) = Node
    BY <1>1, <2>1, <2>2, ParentOfOperand DEF Operands
  <2>4. Node \in Reached
    BY <1>3, TopReached
  <2>5. ReachedFrom(i, Meaning)
    <3> SUFFICES ASSUME IsLogical, i # Operands[1]
                 PROVE Meaning[Operands[1]] = Bool(Kind = "and")
      BY <2>3, Zenon DEF ReachedFrom, IsLogical, Kind, Operands
    <3>1. Len(Vals) \in Nat /\ Listed(Vals)
      BY <2>1, ListedProperties DEF Placed, Vals
    <3>2. ~Top.bound
      BY <2>1 DEF Placed, FunctionNode, IsLogical, Kind, Node
    <3>3. at = 1 + Len(Vals)
      BY <3>2, Zenon DEF Position, Vals
    <3>4. Len(Vals) >= 1 /\ 1 \in DOMAIN Vals
      <4> DEFINE l == Len(Vals)
      <4>1. l \in Nat /\ at = 1 + l /\ at # 1
        BY <2>2, <3>1, <3>3
      <4>2. DOMAIN Vals = 1 .. l
        BY <3>1, ListedProperties
      <4> HIDE DEF l, at
      <4>3. l >= 1
        BY <4>1
      <4>4. 1 \in 1 .. l
        BY <4>1, <4>3
      <4> QED
        BY <4>2, <4>3, <4>4 DEF l
    <3>5. Vals[1] = Bool(Kind = "and")
      <4>1. GoesOn(program, Top)
        BY <1>1, <1>3, <3>4, NeedsGoesOn
      <4> QED
        BY <4>1, Zenon DEF GoesOn, IsLogical, Kind, Node, Vals
    <3>6. Vals[1] = Meaning[OperandAt(program, Top, 1)]
      BY <1>1, <2>1, <3>4 DEF AllMean, Means, Vals, Top
    <3>7. OperandAt(program, Top, 1) = Operands[1 + 1 - 1]
      BY <3>2, Zenon DEF OperandAt, Operands, Node
    <3> QED
      BY <3>5, <3>6, <3>7
  <2> QED
    BY <1>1, <2>3, <2>4, <2>5, ReachedIs
<1> QED
  BY <1>2, <1>3

(* A node that has its value has all that is reached of its operands.      *)
LEMMA ReadyFinished ==
  ASSUME CountInv, Ready
  PROVE Finished(program, frames, Reached)
<1>1. Running /\ frames # <<>> /\ ~NeedsOperand /\ ~IsFunction
  BY DEF Ready
<1>2. /\ IsProgram(program) /\ PathOf(program, frames) /\ PathInv
      /\ AllMean(program, Meaning, frames)
  BY <1>1, CountFacts
<1>3. Placed(program, Top) /\ Node \in Nodes
  BY <1>1, <1>2, TopPlaced
<1>4. Len(Vals) \in Nat
  BY <1>3, ListedProperties DEF Placed, Vals
<1>5. ~Top.bound
  BY <1>1, <1>3 DEF Placed, FunctionNode, IsFunction, Kind, Node
<1>6. Position(program, Top) = 1 + Len(Vals)
  BY <1>5, Zenon DEF Position, Vals
<1>7. DOMAIN Operands = 1 .. Len(Operands) /\ Len(Operands) \in Nat
  BY <1>2, <1>3, ProgramOperands DEF Nodes, Operands
<1> SUFFICES ASSUME NEW q \in DOMAIN Operands, Operands[q] \in Reached
             PROVE q < 1 + Len(Vals)
  BY <1>6 DEF Finished, Operands, Node, Top
<1>8. CASE ~(Len(Vals) < Len(Operands))
  <2> DEFINE l == Len(Vals)
             m == Len(Operands)
  <2>1. l \in Nat /\ m \in Nat /\ ~(l < m) /\ q \in 1 .. m
    BY <1>4, <1>7, <1>8
  <2> HIDE DEF l, m
  <2>2. q < 1 + l
    BY <2>1
  <2> QED
    BY <2>2 DEF l
<1>9. CASE LeftDecides
  <2>1. IsLogical /\ Len(Vals) = 1 /\ Vals[1] # EvaluateRightOf
    BY <1>9, Zenon DEF LeftDecides
  <2>2. q \in Nat /\ q >= 1
    BY <1>7
  <2>3. CASE q = 1
    BY <2>1, <2>3
  <2>4. CASE q # 1
    <3>1. 1 \in DOMAIN Operands /\ 1 < q
      BY <1>7, <2>2, <2>4
    <3>2. Operands[1] < Operands[q] /\ Operands[1] \in Nat
      BY <1>2, <1>3, <3>1, OperandOrder, ProgramOperands DEF Nodes, Operands
    <3>3. Operands[q] \in Nodes \ {1} /\ Parent(Operands[q]) = Node
      BY <1>2, <1>3, ParentOfOperand DEF Operands
    <3>4. ReachedFrom(Operands[q], Meaning)
      BY <1>2, <3>3, ReachedIs
    <3>5. Meaning[Operands[1]] = EvaluateRightOf
      <4>1. Operands[q] # Operands[1]
        BY <3>2
      <4> QED
        BY <2>1, <3>3, <3>4, <4>1, Zenon
           DEF ReachedFrom, IsLogical, Kind, Operands, EvaluateRightOf
    <3>6. PICK S : Owned(S)
      BY RunningMeans DEF CountInv
    <3>7. Vals[1] = Meaning[Operands[1]]
      <4>1. 1 \in DOMAIN Vals
        <5>1. DOMAIN Vals = 1 .. Len(Vals)
          BY <1>2, <3>6, ReadyMeans
        <5> QED
          BY <2>1, <5>1
      <4> QED
        BY <1>2, <3>6, <4>1, ReadyMeans
    <3> QED
      BY <2>1, <3>5, <3>7
  <2> QED
    BY <2>3, <2>4
<1> QED
  BY <1>1, <1>8, <1>9, Zenon DEF NeedsOperand

(* So has an expression function that returns what its body did.           *)
LEMMA LeaveFinished ==
  ASSUME CountInv, LeaveFunction
  PROVE Finished(program, frames, Reached)
<1>1. Running /\ frames # <<>> /\ Top.bound /\ Vals # <<>>
  BY Zenon DEF LeaveFunction
<1>2. IsProgram(program) /\ PathInv
  BY <1>1, CountFacts
<1>3. Placed(program, Top) /\ Node \in Nodes
  BY <1>1, <1>2, TopPlaced
<1> DEFINE l == Len(Vals)
           m == Len(Operands)
<1>4. l \in Nat /\ l > 0
  <2>1. Listed(Vals)
    BY <1>3 DEF Placed, Vals
  <2> QED
    BY <1>1, <2>1, ListedProperties
<1>5. Position(program, Top) = m + l
  BY <1>1, Zenon DEF Position, Vals, Operands, Node
<1>6. DOMAIN Operands = 1 .. m /\ m \in Nat
  BY <1>2, <1>3, ProgramOperands DEF Nodes, Operands
<1> HIDE DEF l, m
<1>7. \A q \in DOMAIN Operands : q < Position(program, Top)
  BY <1>4, <1>5, <1>6
<1> QED
  BY <1>7 DEF Finished, Operands, Node, Top

(* A node whose checks hold costs its value and the work that it charged.  *)
LEMMA MadeCosts ==
  ASSUME CountInv, Ready, NEW made, Makes(made), NEW S, Owned(S), Paid(made, S),
         AllHold(made.before), AllHold(made.after)
  PROVE /\ Costs[Node] = made.value.bytes + made.work
        /\ made.value.bytes \in Nat \ {0} /\ made.work \in Nat
<1>1. Running /\ frames # <<>> /\ ~IsFunction
  BY DEF Ready
<1>2. /\ PathInv /\ DispatchInv /\ ScopeInv /\ IsMeaning(Meaning)
      /\ AllMean(program, Meaning, frames) /\ LocalsMean(program, Meaning, locals)
  BY <1>1, CountFacts
<1>3. Node \in Nodes
  BY <1>1, <1>2, TopPlaced
<1>4. Listed(made.before) /\ Listed(made.after) /\ made.work \in Nat /\ Extends(S, made.value)
  BY DEF Paid
<1>5. Gives(made, Meaning[Node])
  BY <1>2, <1>4, MadeGives
<1>6. made.value = Meaning[Node]
  BY <1>5 DEF Gives
<1>7. made.value.bytes \in Nat \ {0}
  <2> DEFINE v == made.value
  <2>1. Extends(S, v)
    BY <1>4
  <2> HIDE DEF v
  <2>2. v.bytes \in Nat \ {0}
    BY <2>1, Zenon DEF Extends, HoldsParts
  <2> QED
    BY <2>2 DEF v
<1>8. Costs[Node] = Charge(Node)
  BY <1>3 DEF Costs
<1> DEFINE bytes == Meaning[Node].bytes
<1>9. CASE Kind \in {"literal", "identifier", "and", "or"}
  <2>1. \E holds, reason, value : made = Given(holds, reason, value)
    <3>1. /\ Kind # "array" /\ Kind # "member" /\ Kind \notin {"function", "method"}
          /\ Kind \notin {"unary", "binary"}
      BY <1>9
    <3> DEFINE IsGiven(x) == \E holds, reason, value : x = Given(holds, reason, value)
               name == program.name[Node]
               literal == Given(TRUE, "", program.literal[Node])
               local == Given(TRUE, "", LocalValue(name))
               variable == Given(name \in DOMAIN context.variables, "unknown variable",
                                 context.variables[name])
               logical == Simple(Vals[Len(Vals)].ty = "bool", Vals[Len(Vals)])
    <3>2. IsGiven(literal) /\ IsGiven(local) /\ IsGiven(variable) /\ IsGiven(logical)
      BY Zenon DEF Simple
    <3>3. made \in {literal, local, variable, logical}
      BY <3>1, Zenon DEF Makes
    <3> HIDE DEF IsGiven, literal, local, variable, logical
    <3>4. IsGiven(made)
      BY <3>2, <3>3
    <3> QED
      BY <3>4, Zenon DEF IsGiven
  <2>2. made.work = 0
    BY <2>1 DEF Given, Call
  <2>3. Charge(Node) = bytes
    <3>1. Kind # "expression function"
      BY <1>1, Zenon DEF IsFunction
    <3> QED
      BY <1>9, <3>1, Zenon DEF Charge, Kind
  <2> HIDE DEF bytes
  <2>4. bytes \in Nat /\ bytes = made.value.bytes
    BY <1>6, <1>7 DEF bytes
  <2>5. bytes + 0 = bytes
    BY <2>4
  <2> QED
    BY <1>4, <1>7, <1>8, <2>2, <2>3, <2>4, <2>5
<1>10. CASE Kind \notin {"literal", "identifier", "and", "or"}
  <2>1. made = CallOf(Node, Vals)
    BY <1>3, <1>10, MadeCall
  <2>2. Arguments(Meaning, Node) = Vals
    <3>1. ~IsLogical
      BY <1>10 DEF IsLogical
    <3> QED
      BY <1>2, <3>1, ReadyMeans
  <2> DEFINE work == CallOf(Node, Arguments(Meaning, Node)).work
  <2>3. Charge(Node) = bytes + work
    <3>1. Kind # "expression function"
      BY <1>1, Zenon DEF IsFunction
    <3> QED
      BY <1>10, <3>1, Zenon DEF Charge, Kind
  <2>4. work = made.work
    BY <2>1, <2>2
  <2> HIDE DEF work, bytes
  <2>5. bytes = made.value.bytes
    BY <1>6 DEF bytes
  <2> QED
    BY <1>4, <1>7, <1>8, <2>3, <2>4, <2>5
<1> QED
  BY <1>9, <1>10

(* The call of an expression function costs nothing.                       *)
LEMMA LeaveCosts ==
  ASSUME Node \in Nodes, IsFunction
  PROVE Costs[Node] = 0
<1>1. Costs[Node] = Charge(Node)
  BY DEF Costs
<1>2. Charge(Node) = 0
  BY Zenon DEF Charge, IsFunction, Kind
<1> QED
  BY <1>1, <1>2

(* The last call returns, at what its node costs.                          *)
LEMMA CountReturn ==
  ASSUME CountInv, Running, frames # <<>>, NEW v, Return(v),
         Finished(program, frames, Reached), UNCHANGED <<inputs, steps>>,
         Costs[Node] \in Nat, processed' = processed + Costs[Node]
  PROVE CountNext
<1>1. /\ IsProgram(program) /\ PathOf(program, frames) /\ AllCalled(frames)
      /\ Counted(program, frames, Reached, Costs, steps, processed) /\ verdict = "none"
  BY CountFacts
<1>2. /\ Answers(frames, frames', v)
      /\ Len(frames) = 1 => stage' = "ended" /\ result' = v
      /\ Len(frames) > 1 => UNCHANGED <<stage, result>>
  BY <1>1, ReturnAnswers
<1>3. Reached' = Reached /\ Costs' = Costs /\ program' = program
  BY ReachedKept
<1>4. Listed(frames) /\ Len(frames) \in Nat /\ Len(frames) > 0
  <2>1. Listed(frames)
    BY <1>1 DEF AllCalled
  <2> QED
    BY <2>1, ListedProperties
<1> DEFINE c == Costs[Node]
<1>5. c = Costs[frames[Len(frames)].node]
  BY DEF Node, Top
<1>6. CASE Len(frames) = 1
  <2>1. stage' = "ended" /\ ~Running'
    BY <1>2, <1>6 DEF Running
  <2>2. Node = 1
    BY <1>1, <1>4, <1>6 DEF PathOf, Node, Top
  <2>3. Reached \subseteq DOMAIN program.kind
    BY <1>1, ReachedIs DEF Nodes
  <2>4. ASSUME NEW i \in Reached, i # 1
        PROVE \E j \in Reached : \E q \in DOMAIN program.kids[j] : i = program.kids[j][q]
    <3>1. i \in Nodes \ {1}
      BY <1>1, <2>4, ReachedIs
    <3>2. PICK j \in Nodes : i \in ToSet(program.kids[j])
      BY <1>1, <3>1, Zenon DEF IsProgram, Nodes
    <3>3. PICK q \in DOMAIN program.kids[j] : i = program.kids[j][q]
      BY <3>2 DEF ToSet
    <3>4. Parent(i) = j
      BY <1>1, <3>3, ParentOfOperand
    <3>5. j \in Reached
      BY <1>1, <3>1, <3>4, ReachedIs
    <3> QED
      BY <3>3, <3>5
  <2>5. Costs[1] \in Nat /\ c = Costs[1]
    BY <2>2
  <2>6. steps = Cardinality(Reached) /\ processed + Costs[1] = Tally(program, Costs, Reached)
    <3> DEFINE R == Reached
               C == Costs
    <3>1. /\ R \subseteq DOMAIN program.kind /\ Finished(program, frames, R)
          /\ Counted(program, frames, R, C, steps, processed) /\ C[1] \in Nat
          /\ \A i \in R : i # 1 => \E j \in R : \E q \in DOMAIN program.kids[j] :
               i = program.kids[j][q]
      BY <1>1, <2>3, <2>4, <2>5
    <3> HIDE DEF R, C
    <3>2. steps = Cardinality(R) /\ processed + C[1] = Tally(program, C, R)
      BY <1>1, <1>6, <3>1, CountedAll
    <3> QED
      BY <3>2 DEF R, C
  <2>7. steps' = Cardinality(Reached) /\ processed' = Tally(program, Costs, Reached)
    BY <2>5, <2>6
  <2>8. CountsRight(Reached, Costs)'
    BY <1>3, <2>7 DEF CountsRight
  <2> QED
    BY <2>1, <2>8 DEF CountNext
<1>7. CASE Len(frames) # 1
  <2>1. stage' = stage /\ Len(frames) > 1
    <3> DEFINE l == Len(frames)
    <3>1. l \in Nat /\ l > 0 /\ l # 1
      BY <1>4, <1>7
    <3> HIDE DEF l
    <3>2. l > 1
      BY <3>1
    <3> QED
      BY <1>2, <3>2, Zenon DEF l
  <2>2. frames' # <<>>
    <3>1. Listed(frames') /\ Len(frames') = Len(frames) - 1
      BY <1>2 DEF Answers
    <3> QED
      BY <1>4, <2>1, <3>1, ListedProperties
  <2>3. Counted(program, frames', Reached, Costs, steps, processed + c)
    <3> DEFINE R == Reached
               C == Costs
               gs == frames'
    <3>1. /\ Finished(program, frames, R) /\ Counted(program, frames, R, C, steps, processed)
          /\ C[frames[Len(frames)].node] \in Nat /\ gs # <<>> /\ Answers(frames, gs, v)
      BY <1>1, <1>2, <1>5, <2>2
    <3> HIDE DEF R, C, gs
    <3>2. Counted(program, gs, R, C, steps, processed + C[frames[Len(frames)].node])
      BY <1>1, <3>1, CountedAnswer
    <3> QED
      BY <1>5, <3>2 DEF R, C, gs
  <2>4. verdict' = verdict
    <3> DEFINE l == Len(frames)
    <3>1. l - 1 # 0 => verdict' = verdict
      <4> SUFFICES ASSUME Len(frames) - 1 # 0 PROVE verdict' = verdict
        BY DEF l
      <4> QED
        BY Zenon DEF Return
    <3>2. l \in Nat /\ l > 1
      BY <1>4, <2>1
    <3> HIDE DEF l
    <3> QED
      BY <3>1, <3>2
  <2>5. CountsRight(Reached, Costs)'
    BY <1>1, <2>4 DEF CountsRight
  <2>6. stage' = "running"
    BY <2>1 DEF Running
  <2>7. Counted(program, frames', Reached, Costs, steps', processed')
    BY <2>3
  <2> QED
    BY <2>5, <2>6, <2>7 DEF CountNext
<1> QED
  BY <1>6, <1>7

(* An error counts nothing.                                                *)
LEMMA CountStop ==
  ASSUME NEW reason, Stop(reason), verdict' # "done"
  PROVE CountNext
<1>1. stage' = "ended" /\ UNCHANGED inputs
  BY DEF Stop, End
<1>2. ~Running'
  BY <1>1 DEF Running
<1>3. CountsRight(Reached, Costs)'
  BY DEF CountsRight
<1> QED
  BY <1>1, <1>2, <1>3 DEF CountNext

(* A call begins: a node more is counted.                                  *)
LEMMA CountEnter ==
  ASSUME CountInv, EnterRoot \/ EnterOperand
  PROVE CountNext
<1>1. Running
  BY DEF EnterRoot, EnterOperand
<1>2. /\ IsProgram(program) /\ PathOf(program, frames) /\ PathInv /\ verdict = "none"
      /\ Counted(program, frames, Reached, Costs, steps, processed)
  BY <1>1, CountFacts
<1>3. PICK i : Enter(i) /\ Following(program, frames, i) /\ (frames # <<>> => NeedsOperand)
  BY <1>2, NextFollows, Zenon DEF EnterRoot, EnterOperand, Following
<1>4. i \in Reached
  BY <1>1, <1>3, NextReached
<1> DEFINE new == [node |-> i, vals |-> <<>>, bound |-> FALSE]
           fs == Append(frames, new)
<1>5. CASE AllHold(EntryChecks(i))
  <2>1. /\ frames' = fs /\ UNCHANGED <<inputs, stage, verdict, processed>> /\ steps' = steps + 1
    BY <1>3, <1>5, Zenon DEF Enter
  <2>2. Counted(program, fs, Reached, Costs, steps + 1, processed)
    <3> DEFINE R == Reached
               C == Costs
    <3>1. i \in R /\ Counted(program, frames, R, C, steps, processed)
      BY <1>2, <1>4
    <3> HIDE DEF R, C
    <3>2. Counted(program, fs, R, C, steps + 1, processed)
      BY <1>2, <1>3, <3>1, CountedPush
    <3> QED
      BY <3>2 DEF R, C
  <2>3. Counted(program, frames', Reached, Costs, steps', processed')
    BY <2>1, <2>2
  <2>4. CountsRight(Reached, Costs)'
    BY <1>2, <2>1 DEF CountsRight
  <2>5. stage' = "running"
    BY <1>1, <2>1 DEF Running
  <2> QED
    BY <2>1, <2>3, <2>4, <2>5 DEF CountNext
<1>6. CASE ~AllHold(EntryChecks(i))
  <2>1. \E reason : Stop(reason)
    BY <1>3, <1>6, Zenon DEF Enter
  <2>2. verdict' # "done"
    <3>1. "done" # "arity" /\ "done" # "unresolved" /\ "none" # "done"
      BY Zenon
    <3>2. verdict # "done"
      BY <1>2, <3>1, Zenon
    <3> QED
      BY <1>3, <3>1, <3>2, EnterVerdict, OtherVerdicts
  <2> QED
    BY <2>1, <2>2, CountStop
<1> QED
  BY <1>5, <1>6

(* Binding arguments counts nothing.                                       *)
LEMMA CountBind ==
  ASSUME CountInv, Bind
  PROVE CountNext
<1>1. /\ Running /\ frames # <<>> /\ Unbound
      /\ UNCHANGED <<inputs, steps, processed, stage, verdict>>
  BY Zenon DEF Bind
<1>2. /\ IsProgram(program) /\ PathOf(program, frames) /\ AllCalled(frames) /\ verdict = "none"
      /\ Counted(program, frames, Reached, Costs, steps, processed)
  BY <1>1, CountFacts
<1>3. Binds(frames, frames')
  BY <1>2, BindBinds
<1>4. /\ ~frames[Len(frames)].bound
      /\ Len(frames[Len(frames)].vals) = Len(program.kids[frames[Len(frames)].node]) - 1
  BY <1>1, Zenon DEF Unbound, Operands, Vals, Node, Top
<1>5. Counted(program, frames', Reached, Costs, steps, processed)
  <2> DEFINE R == Reached
             C == Costs
             gs == frames'
  <2>1. Counted(program, frames, R, C, steps, processed) /\ Binds(frames, gs)
    BY <1>2, <1>3
  <2> HIDE DEF R, C, gs
  <2>2. Counted(program, gs, R, C, steps, processed)
    BY <1>1, <1>2, <1>4, <2>1, CountedBind
  <2> QED
    BY <2>2 DEF R, C, gs
<1>6. CountsRight(Reached, Costs)' /\ stage' = "running"
  BY <1>1, <1>2 DEF CountsRight, Running
<1>7. Counted(program, frames', Reached, Costs, steps', processed')
  BY <1>1, <1>5
<1> QED
  BY <1>1, <1>6, <1>7 DEF CountNext

(* An expression function that returns is done, at no cost.                *)
LEMMA CountLeave ==
  ASSUME CountInv, LeaveFunction
  PROVE CountNext
<1> DEFINE v == Vals[1]
<1>1. /\ Running /\ frames # <<>> /\ IsFunction /\ Return(v)
      /\ UNCHANGED <<inputs, steps, processed>>
  BY Zenon DEF LeaveFunction
<1>2. PathInv /\ processed \in Nat
  BY <1>1, CountFacts
<1>3. Node \in Nodes
  BY <1>1, <1>2, TopPlaced
<1>4. Costs[Node] = 0
  BY <1>1, <1>3, LeaveCosts
<1>5. Costs[Node] \in Nat /\ processed' = processed + Costs[Node]
  BY <1>1, <1>2, <1>4
<1>6. Finished(program, frames, Reached)
  BY LeaveFinished
<1> HIDE DEF v
<1> QED
  BY <1>1, <1>5, <1>6, CountReturn

(* A node that concludes is done at what it costs, or nothing is counted.  *)
LEMMA CountConclusion ==
  ASSUME CountInv, Conclusion
  PROVE CountNext
<1>1. PICK made : Ready /\ Conclude(made) /\ Makes(made)
  BY ConclusionMakes
<1>2. Running /\ frames # <<>>
  BY <1>1 DEF Ready
<1>3. /\ DispatchInv /\ ScopeInv /\ PathInv /\ SetsFit(sets) /\ verdict = "none"
      /\ processed \in Nat
      /\ AllCalled(frames) /\ result.bytes = 0
  BY <1>2, CountFacts
<1>4. PICK S : Owned(S)
  BY RunningMeans DEF CountInv
<1>5. Paid(made, S)
  BY <1>1, <1>3, <1>4, ConclusionPaid
<1>6. Listed(made.before) /\ Listed(made.after)
  BY <1>5 DEF Paid
<1>7. Charges(made)
  BY <1>1, <1>5, ConcludeCharges
<1> DEFINE v == made.value
<1>8. CASE /\ Return(v) /\ UNCHANGED <<inputs, locals>>
           /\ AllHold(made.before) /\ AllHold(made.after)
           /\ processed' = processed + made.work + v.bytes
  <2>1. Costs[Node] = v.bytes + made.work /\ v.bytes \in Nat \ {0} /\ made.work \in Nat
    BY <1>1, <1>4, <1>5, <1>8, MadeCosts
  <2> DEFINE a == v.bytes
             b == made.work
             c == Costs[Node]
  <2>2. a \in Nat /\ b \in Nat /\ c = a + b /\ processed' = processed + b + a
    BY <1>8, <2>1
  <2> HIDE DEF a, b, c
  <2>3. c \in Nat /\ processed' = processed + c
    BY <1>3, <2>2
  <2>4. steps' = steps
    BY <1>1, Zenon DEF Conclude
  <2>5. Finished(program, frames, Reached)
    BY <1>1, ReadyFinished
  <2> HIDE DEF v
  <2> QED
    BY <1>2, <1>8, <2>3, <2>4, <2>5, CountReturn DEF c
<1>9. ASSUME NEW reason, Stop(reason) PROVE CountNext
  <2>1. result' = result /\ verdict' = reason
    BY <1>9 DEF Stop, End
  <2>2. CASE /\ Return(v) /\ AllHold(made.before) /\ AllHold(made.after)
    <3>1. v.bytes \in Nat \ {0}
      BY <1>1, <1>4, <1>5, <2>2, MadeCosts
    <3>2. v # result
      BY <1>3, <3>1
    <3>3. verdict' # "done"
      <4> HIDE DEF v
      <4>1. verdict' = verdict \/ result' = v
        BY <2>2, Zenon DEF Return
      <4>2. "none" # "done"
        OBVIOUS
      <4> QED
        BY <1>3, <2>1, <3>2, <4>1, <4>2, Zenon
    <3> QED
      BY <1>9, <3>3, CountStop
  <2>3. ASSUME NEW cause, Stop(cause),
               \/ cause \in LimitVerdicts
               \/ Blames(made.before, cause) \/ Blames(made.after, cause)
        PROVE CountNext
    <3>1. verdict' = cause
      BY <2>3 DEF Stop, End
    <3>2. cause # "done"
      <4> DEFINE done == "done"
      <4>1. done \notin LimitVerdicts /\ done \notin CallReasons /\ done # Missing
        BY Zenon DEF LimitVerdicts, CallReasons, Missing
      <4> HIDE DEF done
      <4>2. ~Blames(made.before, done) /\ ~Blames(made.after, done)
        BY <1>1, <1>3, <1>4, <4>1, MadeSilent DEF Silent
      <4> QED
        BY <2>3, <4>1, <4>2 DEF done
    <3> QED
      BY <2>3, <3>1, <3>2, CountStop
  <2> HIDE DEF v
  <2> QED
    BY <1>1, <1>6, <2>2, <2>3, ConclusionEnds DEF v
<1> QED
  BY <1>7, <1>8, <1>9, Zenon DEF Charges

(* At first nothing has been counted.                                      *)
LEMMA CountInit == Init => CountInv
<1> SUFFICES ASSUME Init PROVE CountInv
  OBVIOUS
<1>1. MeaningInv
  BY MeaningInit
<1>2. stage = "preparing" /\ verdict = "none" /\ steps = 0 /\ processed = 0
  BY DEF Init
<1>3. ~Running /\ CountsRight(Reached, Costs)
  BY <1>2 DEF Running, CountsRight
<1> QED
  BY <1>1, <1>2, <1>3 DEF CountInv

(* Every step counts the nodes it begins and charges those that are done.  *)
LEMMA CountStep ==
  ASSUME CountInv, [Next]_vars
  PROVE CountInv'
<1>1. MeaningInv'
  BY MeaningStep DEF CountInv
<1>2. CASE Prepare \/ Analyze \/ Verify
  <2>1. frames' = <<>> /\ verdict' # "done"
    BY <1>2, EarlyMeans DEF CountInv
  <2>2. steps = 0 /\ processed = 0
    BY <1>2 DEF CountInv, Early, Prepare, Analyze, Verify
  <2>3. steps' = 0 /\ processed' = 0
    BY <1>2, <2>2 DEF Prepare, Analyze, Verify, idle
  <2>4. IsProgram(program')
    <3>1. request' \in Requests
      BY <1>1 DEF MeaningInv, PaidInv, ScopeInv, PathInv
    <3> QED
      BY <3>1, ProgramAssumption, Zenon DEF program
  <2>5. Running' => Counted(program', frames', Reached', Costs', steps', processed')
    <3> DEFINE p == program'
               fs == frames'
               R == Reached'
               C == Costs'
    <3>1. IsProgram(p) /\ fs = <<>>
      BY <2>1, <2>4
    <3> HIDE DEF p, fs, R, C
    <3>2. Counted(p, fs, R, C, 0, 0)
      BY <3>1, CountedNone
    <3> QED
      BY <2>3, <3>2 DEF p, fs, R, C
  <2>6. CountsRight(Reached, Costs)'
    BY <2>1 DEF CountsRight
  <2> QED
    BY <1>1, <2>3, <2>5, <2>6 DEF CountInv
<1>3. CASE EnterRoot \/ EnterOperand \/ Bind \/ LeaveFunction \/ Conclusion
  <2>1. CountNext
    BY <1>3, CountEnter, CountBind, CountLeave, CountConclusion
  <2>2. Reached' = Reached /\ Costs' = Costs /\ program' = program
    BY <2>1, ReachedKept DEF CountNext
  <2>3. ~Early'
    BY <2>1 DEF CountNext, Early
  <2>4. Running' => Counted(program', frames', Reached', Costs', steps', processed')
    BY <2>1, <2>2 DEF CountNext
  <2> QED
    BY <1>1, <2>1, <2>3, <2>4 DEF CountInv, CountNext
<1>4. CASE UNCHANGED vars
  <2>1. UNCHANGED <<inputs, stage, verdict, frames, steps, processed>>
    BY <1>4, Zenon DEF vars, inputs
  <2>2. Reached' = Reached /\ Costs' = Costs /\ program' = program
    BY <2>1, ReachedKept
  <2>3. Running' => Counted(program', frames', Reached', Costs', steps', processed')
    BY <2>1, <2>2 DEF CountInv, Running
  <2>4. CountsRight(Reached, Costs)'
    BY <2>1, <2>2 DEF CountInv, CountsRight
  <2> QED
    BY <1>1, <2>1, <2>3, <2>4 DEF CountInv, Early
<1> QED
  BY <1>2, <1>3, <1>4, Zenon DEF Next, Conclusion

(* eval computes what the tree of its program means (evaluator.rs): the    *)
(* value, the steps and the processed bytes of an answer are those of the  *)
(* nodes that a reading of the tree without stacks reaches, and only a     *)
(* program that means nothing ends in an error that is not a limit's.      *)
THEOREM ResultTheorem == Spec => []ResultExact
<1>1. Init => CountInv
  BY CountInit
<1>2. CountInv /\ [Next]_vars => CountInv'
  BY CountStep
<1>3. CountInv => ResultExact
  <2> SUFFICES ASSUME CountInv PROVE ResultExact
    OBVIOUS
  <2>1. AnswersRight(Meaning) /\ CountsRight(Reached, Costs)
    BY DEF CountInv, MeaningInv
  <2>2. Tally(program, Costs, Reached) =
          SumOf([i \in Nodes |-> IF i \in Reached THEN Charge(i) ELSE 0])
    <3>1. [i \in DOMAIN program.kind |-> IF i \in Reached THEN Costs[i] ELSE 0]
            = [i \in Nodes |-> IF i \in Reached THEN Charge(i) ELSE 0]
      BY DEF Costs, Nodes
    <3> QED
      BY <3>1, Zenon DEF Tally
  <2> QED
    BY <2>1, <2>2, Zenon DEF AnswersRight, CountsRight, ResultExact
<1> QED
  BY <1>1, <1>2, <1>3, PTL DEF Spec
=============================================================================
