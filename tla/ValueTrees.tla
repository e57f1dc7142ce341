----------------------------- MODULE ValueTrees -----------------------------
(***************************************************************************)
(* The finite trees the runtime admits: a host Value (value.rs) or a JSON  *)
(* document.  A tree is a record; its nodes are numbers and node 1 is the  *)
(* root.                                                                   *)
(*                                                                         *)
(*   kids[i]   the nodes an array or object holds, in order                *)
(*   level[i]  the nodes from the root down to i, both counted             *)
(*   kind[i]   "scalar", "string", "array", "object", or "bad" for a leaf  *)
(*             that can never be admitted (a non-finite float, or a JSON   *)
(*             integer outside i64)                                        *)
(*   text[i]   the payload bytes: of a string, or of an object's keys      *)
(*             together; 0 for the other kinds                             *)
(*                                                                         *)
(* Measure is the reference: what a whole tree weighs, with no traversal.  *)
(***************************************************************************)
EXTENDS Checks, Integers, Sequences, FiniteSets, SequencesExt

\* value.rs MAX_VALUE_DEPTH is 128; a small ceiling keeps deep trees small.
CONSTANT DepthCeiling
ASSUME DepthCeilingAssumption == DepthCeiling \in Nat

Kinds == {"scalar", "string", "array", "object", "bad"}
Containers == {"array", "object"}

NodesOf(t) == DOMAIN t.kids
IsContainer(t, i) == t.kind[i] \in Containers

\* The places in the tree: a container and a position among what it holds.
PlacesIn(t, S) == UNION {{i} \X DOMAIN t.kids[i] : i \in S}
At(t, place) == t.kids[place[1]][place[2]]

HasFields(t) ==
  /\ IsFiniteSet(NodesOf(t)) /\ NodesOf(t) \subseteq Nat /\ 1 \in NodesOf(t)
  /\ t.kids \in [NodesOf(t) -> Seq(NodesOf(t))]
  /\ t.level \in [NodesOf(t) -> Nat \ {0}]
  /\ t.kind \in [NodesOf(t) -> Kinds]
  /\ t.text \in [NodesOf(t) -> Nat]

\* A tree: every node but the root is in one place, one level below its holder;
\* only containers hold anything, only strings and objects have a payload.
IsTree(t) ==
  /\ HasFields(t)
  /\ t.level[1] = 1
  /\ \A p \in PlacesIn(t, NodesOf(t)) : t.level[At(t, p)] = t.level[p[1]] + 1
  /\ \A p, q \in PlacesIn(t, NodesOf(t)) : At(t, p) = At(t, q) => p = q
  /\ \A j \in NodesOf(t) \ {1} : \E p \in PlacesIn(t, NodesOf(t)) : At(t, p) = j
  /\ \A i \in NodesOf(t) : /\ t.kids[i] # <<>> => IsContainer(t, i)
                           /\ t.text[i] # 0 => t.kind[i] \in {"string", "object"}

\* A set of nodes that holds what its nodes hold.
Closed(t, S) == \A i \in S : ToSet(t.kids[i]) \subseteq S

\* The nodes of the subtree rooted at i.
Subtree(t, i) ==
  {j \in NodesOf(t) :
     \A S \in SUBSET NodesOf(t) : i \in S /\ Closed(t, S) => j \in S}

\* The bytes some nodes are charged: one of tag each and those of the payload.
BytesIn(t, S) == UNION {{i} \X (0 .. t.text[i]) : i \in S}

\* What ValueMetrics counts of some nodes: every child is an item.
Weight(t, S) ==
  [depth |-> Max({0} \cup {t.level[i] : i \in S}),
   nodes |-> Cardinality(S),
   items |-> Cardinality(PlacesIn(t, S)),
   bytes |-> Cardinality(BytesIn(t, S))]

Measure(t) == Weight(t, NodesOf(t))

DepthLimit(l) == IF l.depth < DepthCeiling THEN l.depth ELSE DepthCeiling

\* The ways a whole tree can be over its limits, by the name of the limit.
Overruns(t, l) ==
  LET m == Measure(t)
      over == [depth |-> m.depth > DepthLimit(l),
               nodes |-> m.nodes > l.nodes,
               items |-> m.items > l.items,
               bytes |-> m.bytes > l.bytes,
               string |-> \E i \in NodesOf(t) :
                            t.kind[i] = "string" /\ t.text[i] > l.string,
               leaf |-> \E i \in NodesOf(t) : t.kind[i] = "bad"]
  IN  {r \in DOMAIN over : over[r]}
=============================================================================
