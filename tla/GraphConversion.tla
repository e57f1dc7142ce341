--------------------------- MODULE GraphConversion ---------------------------
(***************************************************************************)
(* The two owned conversions between JSON and runtime values: JsonValue-   *)
(* Converter (value.rs) and ValueJsonConverter (value/to_json.rs).  They   *)
(* are the same machine: a stack of pending work, where a container leaves *)
(* a Finish marker below its children, a stack of finished values the      *)
(* marker collects, and a counter of the values still pending.  A rejected *)
(* input is taken apart without recursion: what the converter holds at     *)
(* that moment goes to the drain, or a deep graph would be left to the     *)
(* recursive destructor of its type.                                       *)
(*                                                                         *)
(* A finished value keeps its kind, the leaf or key set it was made from   *)
(* (label; 0 for a non-empty array, which has neither), its parts and the  *)
(* leaves inside it, which are what a drain has to reach.                  *)
(***************************************************************************)
EXTENDS ValueTrees

CONSTANTS Trees, LimitSets
ASSUME TreeAssumption == \A t \in Trees : IsTree(t)
ASSUME LimitAssumption ==
  \A l \in LimitSets : l \in [depth : Nat, nodes : Nat, items : Nat,
                              bytes : Nat, string : Nat]

VARIABLES
  tree, limits,
  pending,        \* Vec<JsonConversionWork>, top of the stack last
  pendingValues,  \* how many Value items the converter believes are pending
  values,         \* finished values, top last
  metrics,        \* ValueGraphMeter.metrics
  drained,        \* the leaves handed to the iterative drain by reject
  verdict         \* "running", "accepted", or why the input was rejected

vars == <<tree, limits, pending, pendingValues, values, metrics, drained, verdict>>

ValueWork(i, depth) == [work |-> "value", node |-> i, depth |-> depth]

FinishWork(start, i) == [work |-> "finish", start |-> start, node |-> i]

Init ==
  /\ tree \in Trees
  /\ limits \in LimitSets
  /\ pending = <<ValueWork(1, 1)>>
  /\ pendingValues = 1
  /\ values = <<>>
  /\ metrics = [depth |-> 0, nodes |-> 0, items |-> 0, bytes |-> 0]
  /\ drained = {}
  /\ verdict = "running"

Top == pending[Len(pending)]
Rest == SubSeq(pending, 1, Len(pending) - 1)
OnValue == verdict = "running" /\ pending # <<>> /\ Top.work = "value"

-----------------------------------------------------------------------------
(* ValueGraphMeter *)

\* validate, as the checks of a sequence: depth, nodes, items, then bytes.
Validate(m) ==
  <<<<m.depth <= DepthLimit(limits), "depth">>,
    <<m.nodes <= limits.nodes, "nodes">>,
    <<m.items <= limits.items, "items">>,
    <<m.bytes <= limits.bytes, "bytes">>>>

AddNode(m, depth) ==
  [m EXCEPT !.nodes = @ + 1, !.bytes = @ + 1,
            !.depth = IF depth > @ THEN depth ELSE @]

\* Mutant of ReserveChildren: the container is still counted as pending.
ReserveChildrenTwice(m, children, depth, others) ==
  Validate(m) \o
  <<<<depth + 1 <= DepthLimit(limits), "depth">>,
    <<m.nodes + others + 1 + children <= limits.nodes, "nodes">>,
    <<m.bytes + others + 1 + children <= limits.bytes, "bytes">>>>

\* reserve_children, given the values still pending beside this container.
ReserveChildren(m, children, depth, others) ==
  Validate(m) \o
  <<<<depth + 1 <= DepthLimit(limits), "depth">>,
    <<m.nodes + others + children <= limits.nodes, "nodes">>,
    <<m.bytes + others + children <= limits.bytes, "bytes">>>>

-----------------------------------------------------------------------------
(* The work loop *)

Kids == tree.kids[Top.node]
Noded == AddNode(metrics, Top.depth)
Itemed == [Noded EXCEPT !.items = @ + Len(Kids)]
Weighed(m) == [m EXCEPT !.bytes = @ + tree.text[Top.node]]

\* Mutant of Taken: the value in hand stays counted.
TakenNot == pendingValues

\* The pending values without the one in hand.
Taken == pendingValues - 1

\* Mutant of ChildWork: the children are pushed in source order.
ChildWorkUnreversed ==
  [i \in DOMAIN Kids |-> ValueWork(Kids[i], Top.depth + 1)]

\* The children go on the stack last first, to be converted in order.
ChildWork ==
  LET children == Reverse(Kids)
  IN  [i \in DOMAIN children |-> ValueWork(children[i], Top.depth + 1)]

\* convert_value for a leaf or an empty container (which reserves nothing).
LeafChecks ==
  <<<<pendingValues >= 1, "underflow">>>> \o Validate(Noded) \o
  <<<<tree.kind[Top.node] # "bad", "leaf">>>> \o Validate(Weighed(Noded))

\* schedule_array and schedule_object: the key bytes are charged after the
\* children are reserved.
ContainerChecks ==
  <<<<pendingValues >= 1, "underflow">>>> \o Validate(Noded) \o
  ReserveChildren(Itemed, Len(Kids), Top.depth, Taken) \o
  Validate(Weighed(Itemed))

Checks == IF Kids = <<>> THEN LeafChecks ELSE ContainerChecks

ConvertLeaf ==
  /\ OnValue /\ Kids = <<>>
  /\ AllHold(Checks)
  /\ pending' = Rest
  /\ pendingValues' = Taken
  /\ values' = Append(values, [kind |-> tree.kind[Top.node], label |-> Top.node,
                               kids |-> <<>>, leaves |-> {Top.node}])
  /\ metrics' = Weighed(Noded)
  /\ UNCHANGED <<tree, limits, drained, verdict>>

Schedule ==
  /\ OnValue /\ Kids # <<>>
  /\ AllHold(Checks)
  /\ pending' = Append(Rest, FinishWork(Len(values), Top.node)) \o ChildWork
  /\ pendingValues' = Taken + Len(Kids)
  /\ metrics' = Weighed(Itemed)
  /\ UNCHANGED <<tree, limits, values, drained, verdict>>

\* FinishArray and FinishObject collect what was pushed since start; the keys
\* of an object are zipped with the collected values.
Finish ==
  /\ verdict = "running" /\ pending # <<>> /\ Top.work = "finish"
  /\ LET collected == SubSeq(values, Top.start + 1, Len(values))
         kind == tree.kind[Top.node]
         keys == Len(tree.kids[Top.node])
         parts == IF kind = "array" THEN collected ELSE SubSeq(collected, 1, keys)
         made == [kind |-> kind,
                  label |-> IF kind = "array" THEN 0 ELSE Top.node,
                  kids |-> parts,
                  leaves |-> UNION {parts[k].leaves : k \in DOMAIN parts}]
     IN  values' = Append(SubSeq(values, 1, Top.start), made)
  /\ pending' = Rest
  /\ UNCHANGED <<tree, limits, pendingValues, metrics, drained, verdict>>

LeavesUnder(i) == {j \in Subtree(tree, i) : tree.kids[j] = <<>>}

\* Pending and finished values, which reject drains; Finish markers own keys only.
Owned ==
  LET waiting == {k \in DOMAIN Rest : Rest[k].work = "value"}
  IN  (UNION {LeavesUnder(Rest[k].node) : k \in waiting})
        \cup (UNION {values[k].leaves : k \in DOMAIN values})

\* Mutant of Current: a container that is refused is not put back.
CurrentUntilTaken == IF ~AllHold(Validate(Noded)) THEN {Top.node} ELSE {}

\* self.current: the value in hand until the node is counted, then nothing,
\* until a container that is refused is put back. A leaf never is.
Current == IF Kids # <<>> \/ ~AllHold(Validate(Noded)) THEN {Top.node} ELSE {}

\* A value that is not in current is dropped where it is. On an underflow it has
\* not got there, and value.rs returns without reject, to_json.rs by it.
Reject ==
  /\ OnValue
  /\ ~AllHold(Checks)
  /\ verdict' = FirstFailure(Checks)
  /\ IF pendingValues >= 1 THEN drained' = Owned \cup UNION {LeavesUnder(i) : i \in Current}
     ELSE drained' \in {{}, Owned}
  /\ pending' = <<>> /\ values' = <<>>
  /\ UNCHANGED <<tree, limits, pendingValues, metrics>>

\* The loop ends with exactly one finished value, which is the result; any other
\* number of them is rejected.
Deliver ==
  /\ verdict = "running" /\ pending = <<>>
  /\ verdict' = IF Len(values) = 1 THEN "accepted" ELSE "stack"
  /\ drained' = IF Len(values) = 1 THEN drained ELSE Owned
  /\ UNCHANGED <<tree, limits, pending, pendingValues, values, metrics>>

Next == ConvertLeaf \/ Schedule \/ Finish \/ Reject \/ Deliver

\* One synchronous call: it runs to its answer.
Spec == Init /\ [][Next]_vars /\ WF_vars(Next)

-----------------------------------------------------------------------------
(* Properties *)

\* The counter the lower bounds are computed from is the number of values that
\* really are pending: were it low the bound would admit too much, were it high
\* it would refuse graphs that fit.
PendingValuesExact ==
  verdict = "running" =>
    pendingValues = Cardinality({k \in DOMAIN pending : pending[k].work = "value"})

\* What each node of a tree is to become.
Image(t) ==
  LET image[i \in NodesOf(t)] ==
        LET parts == [k \in DOMAIN t.kids[i] |-> image[t.kids[i][k]]]
        IN  [kind |-> t.kind[i],
             label |-> IF t.kind[i] = "array" /\ t.kids[i] # <<>> THEN 0 ELSE i,
             kids |-> parts,
             leaves |-> IF t.kids[i] = <<>> THEN {i}
                        ELSE UNION {parts[k].leaves : k \in DOMAIN parts}]
  IN  image

\* The converted value has the shape of the input: every child under its own
\* container, in order, every object with its own keys.
ResultExact == verdict = "accepted" => values = <<Image(tree)[1]>>

\* A rejected graph is taken apart without recursion: all that is pending or
\* finished when it is rejected, and all of a container in hand, reaches the
\* iterative drain. At most one leaf is dropped in place, the one in hand: a
\* number that cannot be converted or a string over the limit (value.rs:316).
RejectDrainsContainers ==
  [][verdict = "running" /\ verdict' \notin {"running", "accepted"} =>
       LeavesUnder(1) \ drained' \subseteq {Top.node}]_vars

\* The conversions have no limit on a single string.
Refusals(t, l) == Overruns(t, l) \ {"string"}

\* Both conversions answer, and as a look at the whole graph would: accepted
\* exactly when no limit is overrun, rejected for a limit that is.
Admission == INSTANCE GraphAdmission WITH
  tree <- tree, limits <- limits, verdict <- verdict, Overruns <- Refusals

Exact == Admission!Spec
=============================================================================
