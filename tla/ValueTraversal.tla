--------------------------- MODULE ValueTraversal ---------------------------
(***************************************************************************)
(* validate_value (runtime.rs): the iterative walk that admits a Value     *)
(* before the runtime clones it, compares it or hands it to a handler.     *)
(* The stack of pending nodes replaces recursion, so the walk rejects a    *)
(* container BEFORE its children are scheduled, from a lower bound on what *)
(* they will cost: one node and one byte each.                             *)
(***************************************************************************)
EXTENDS ValueTrees

CONSTANTS Trees, LimitSets   \* the graphs and the limits a caller may pass

ASSUME TreeAssumption == \A t \in Trees : IsTree(t)
ASSUME LimitAssumption ==
  \A l \in LimitSets : l \in [depth : Nat, nodes : Nat, items : Nat,
                              bytes : Nat, string : Nat]

VARIABLES
  tree,      \* the value under admission
  limits,    \* RuntimeResourceLimits, with max_string_bytes
  pending,   \* Vec<(&Value, usize)>: the top of the stack is its last element
  metrics,   \* ValueMetrics: depth, nodes, items, bytes counted so far
  verdict    \* "running", "accepted", or the limit the walk stopped at

vars == <<tree, limits, pending, metrics, verdict>>

\* The root is scheduled before anything is checked.
RootEntry == <<1, 1>>

Init ==
  /\ tree \in Trees
  /\ limits \in LimitSets
  /\ pending = <<RootEntry>>
  /\ metrics = [depth |-> 0, nodes |-> 0, items |-> 0, bytes |-> 0]
  /\ verdict = "running"

Running == verdict = "running" /\ pending # <<>>
Node == pending[Len(pending)][1]
Depth == pending[Len(pending)][2]
Rest == SubSeq(pending, 1, Len(pending) - 1)

\* The counters after the node itself is charged.
Charged ==
  [depth |-> IF Depth > metrics.depth THEN Depth ELSE metrics.depth,
   nodes |-> metrics.nodes + 1,
   items |-> metrics.items,
   bytes |-> metrics.bytes + 1]

\* Mutant of Weighed: the payload is checked, never counted.
WeighedUnpaid(items, bytes) ==
  [Charged EXCEPT !.items = @ + items]

\* ... and after its items and payload bytes are.
Weighed(items, bytes) ==
  [depth |-> Charged.depth,
   nodes |-> Charged.nodes,
   items |-> Charged.items + items,
   bytes |-> Charged.bytes + bytes]

\* Mutant of HeaderChecks: a limit that is reached exactly is exceeded.
HeaderChecksStrict ==
  <<<<Charged.nodes < limits.nodes, "nodes">>,
    <<Charged.bytes <= limits.bytes, "bytes">>,
    <<Charged.depth <= DepthLimit(limits), "depth">>>>

\* Every node is charged before its kind is looked at.
HeaderChecks ==
  <<<<Charged.nodes <= limits.nodes, "nodes">>,
    <<Charged.bytes <= limits.bytes, "bytes">>,
    <<Charged.depth <= DepthLimit(limits), "depth">>>>

\* Null, booleans, integers and finite floats end here; a non-finite float is
\* refused.
LeafChecks == <<<<tree.kind[Node] # "bad", "leaf">>>>

StringChecks ==
  <<<<tree.text[Node] <= limits.string, "string">>,
    <<Charged.bytes + tree.text[Node] <= limits.bytes, "bytes">>>>

\* Mutant of ReserveChecks: children are counted when they are visited.
ReserveChecksLate ==
  <<<<Charged.items + Len(tree.kids[Node]) <= limits.items, "items">>,
    <<Charged.bytes + tree.text[Node] <= limits.bytes, "bytes">>>>

\* reserve_value_children: the children are paid for as items, and the walk
\* stops unless they and everything already scheduled can still fit.
ReserveChecks ==
  LET children == Len(tree.kids[Node])
      scheduled == Len(Rest) + children
  IN  <<<<Charged.items + children <= limits.items, "items">>,
        <<children = 0 \/ Depth + 1 <= DepthLimit(limits), "depth">>,
        <<children = 0 \/ Charged.nodes + scheduled <= limits.nodes, "nodes">>,
        <<children = 0 \/ Charged.bytes + scheduled <= limits.bytes, "bytes">>,
        <<Charged.bytes + tree.text[Node] <= limits.bytes, "bytes">>>>

KindChecks ==
  IF IsContainer(tree, Node) THEN ReserveChecks
  ELSE IF tree.kind[Node] = "string" THEN StringChecks
  ELSE LeafChecks

VisitLeaf ==
  /\ Running
  /\ ~IsContainer(tree, Node)
  /\ AllHold(HeaderChecks) /\ AllHold(KindChecks)
  /\ metrics' = Weighed(0, tree.text[Node])
  /\ pending' = Rest
  /\ UNCHANGED <<tree, limits, verdict>>

VisitContainer ==
  /\ Running
  /\ IsContainer(tree, Node)
  /\ AllHold(HeaderChecks) /\ AllHold(KindChecks)
  /\ LET children == Reverse(tree.kids[Node])
     IN  /\ metrics' = Weighed(Len(children), tree.text[Node])
         /\ pending' = Rest \o [i \in DOMAIN children |->
                                   <<children[i], Depth + 1>>]
  /\ UNCHANGED <<tree, limits, verdict>>

RejectNode ==
  /\ Running
  /\ ~AllHold(HeaderChecks)
  /\ verdict' = FirstFailure(HeaderChecks)
  /\ UNCHANGED <<tree, limits, pending, metrics>>

RejectPayload ==
  /\ Running
  /\ AllHold(HeaderChecks) /\ ~AllHold(KindChecks)
  /\ verdict' = FirstFailure(KindChecks)
  /\ UNCHANGED <<tree, limits, pending, metrics>>

Accept ==
  /\ verdict = "running"
  /\ pending = <<>>
  /\ verdict' = "accepted"
  /\ UNCHANGED <<tree, limits, pending, metrics>>

Next == VisitLeaf \/ VisitContainer \/ RejectNode \/ RejectPayload \/ Accept

\* The walk is one synchronous call: it runs to its answer.
Spec == Init /\ [][Next]_vars /\ WF_vars(Next)

-----------------------------------------------------------------------------
(* Properties *)

\* The admission of an untrusted graph must not itself need unbounded memory:
\* the visited nodes and the scheduled ones together stay within
\* max_value_nodes (the root is scheduled before any check, hence the 1).
WorklistBounded ==
  metrics.nodes + Len(pending) <= (IF limits.nodes > 1 THEN limits.nodes ELSE 1)

\* An accepted walk returns the weight of the whole graph, the number
\* EvalState.charge and the cumulative limit build on.
MetricsExact == verdict = "accepted" => metrics = Measure(tree)

\* Early rejection is exact: the walk gives the verdict a look at the whole
\* graph would give, with a limit the whole graph does overrun, and it answers.
Admission == INSTANCE GraphAdmission WITH
  tree <- tree, limits <- limits, verdict <- verdict, Overruns <- Overruns

Exact == Admission!Spec
=============================================================================
