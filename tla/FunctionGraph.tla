---------------------------- MODULE FunctionGraph ----------------------------
(***************************************************************************)
(* validate_function_cycles (sema/analyzer/functions.rs): the calls in the *)
(* bodies of all expression functions are resolved, each in the scope of   *)
(* its own function, and an iterative depth-first search with explicit     *)
(* exit entries looks for recursion.  Every later pass of the analyzer     *)
(* inlines or frames calls on the strength of it.  Messages go through     *)
(* push_function_diagnostic, which drops those that do not fit.            *)
(***************************************************************************)
EXTENDS Integers, Sequences, SequencesExt

CONSTANTS
  Schemas,       \* the schemas: <<scope, name>> -> [params, calls]; a call is
                 \* [name, arity], in the order function_calls lists them;
                 \* a name is its place in the order of strings
  Hosts,         \* the <<name, arity>> pairs the host declares
  AllowUnknown,  \* CompileOptions::allow_unknown_functions
  Limits,        \* the <<messages, bytes>> limits on function diagnostics
  Bytes          \* the length of a message of each kind

\* ExpressionFunctionScope and String order the keys of the map.
Rank(scope) == IF scope = "Global" THEN 0 ELSE 1
Before(k, l) ==
  Rank(k[1]) < Rank(l[1]) \/ (k[1] = l[1] /\ k[2] < l[2])
First(S) == CHOOSE k \in S : \A l \in S \ {k} : Before(k, l)

Kinds == {"arity", "unknown", "recursive", "budget"}

FunctionKeys == {"Global", "Local"} \X Nat
FunctionType == [params : Nat, calls : Seq([name : Nat, arity : Nat])]

ASSUME SchemaAssumption ==
  \A s \in Schemas : DOMAIN s \subseteq FunctionKeys
                     /\ s \in [DOMAIN s -> FunctionType]
ASSUME BytesAssumption == Bytes \in [Kinds -> Nat]
ASSUME LimitsAssumption == Limits \subseteq Nat \X Nat

VARIABLES
  schema,       \* the functions, fixed for one analysis
  limit,        \* the limits in force
  edges,        \* adjacency, of the functions resolved so far
  stack,        \* the <<key, exiting>> entries of the search
  active, permanent,
  diagnostics,  \* the kinds of the messages kept
  reported      \* history: the functions a back edge led to

vars == <<schema, limit, edges, stack, active, permanent, diagnostics,
          reported>>

Keys == DOMAIN schema

\* The messages of the dialect, pushed before, are left out: with one of them
\* the analysis fails whatever the search finds.
Init ==
  /\ schema \in Schemas
  /\ limit \in Limits
  /\ edges = <<>>
  /\ stack = <<>>
  /\ active = {} /\ permanent = {}
  /\ diagnostics = <<>>
  /\ reported = {}

-----------------------------------------------------------------------------
(* Diagnostics *)

BytesOf(kept) == MapThenSumSet(LAMBDA i : Bytes[kept[i]], DOMAIN kept)

\* Mutant of PushMessage: what does not fit is dropped, even the only message.
PushMessageOrDrop(kept, kind) ==
  IF Len(kept) < limit[1] /\ BytesOf(kept) + Bytes[kind] <= limit[2]
  THEN Append(kept, kind) ELSE kept

\* push_function_diagnostic: one that does not fit is dropped, but something
\* is always said.
PushMessage(kept, kind) ==
  IF Len(kept) < limit[1] /\ BytesOf(kept) + Bytes[kind] <= limit[2]
  THEN Append(kept, kind)
  ELSE IF kept = <<>> THEN <<"budget">> ELSE kept

PushAll(kinds) ==
  LET kept[i \in 0 .. Len(kinds)] ==
        IF i = 0 THEN diagnostics ELSE PushMessage(kept[i - 1], kinds[i])
  IN  kept[Len(kinds)]

-----------------------------------------------------------------------------
(* Resolution *)

\* The elements of s that are in S, in their order.
Keep(s, S) ==
  LET kept[i \in 0 .. Len(s)] ==
        IF i = 0 THEN <<>>
        ELSE IF s[i] \in S THEN Append(kept[i - 1], s[i]) ELSE kept[i - 1]
  IN  kept[Len(s)]

\* expression_function_for_scope: where a call would be found.
Callee(name, scope) ==
  IF scope = "Local" /\ <<"Local", name>> \in Keys
  THEN <<"Local", name>> ELSE <<"Global", name>>

Resolved(call, scope) == Callee(call.name, scope) \in Keys

\* validate_host_function_call, of a call no expression function answers.
HostFault(call) ==
  IF <<call.name, call.arity>> \in Hosts THEN "none"
  ELSE IF \E h \in Hosts : h[1] = call.name THEN "arity"
  ELSE IF AllowUnknown THEN "none" ELSE "unknown"

CallFault(call, scope) ==
  IF ~Resolved(call, scope) THEN HostFault(call)
  ELSE IF schema[Callee(call.name, scope)].params # call.arity THEN "arity"
  ELSE "none"

FaultsOf(key) ==
  LET calls == schema[key].calls
  IN  Keep([i \in DOMAIN calls |-> CallFault(calls[i], key[1])], Kinds)

\* Mutant of EdgesOf: calls resolve in the scope programs are analyzed in.
EdgesOfLocal(key) ==
  LET calls == schema[key].calls
  IN  Keep([i \in DOMAIN calls |-> Callee(calls[i].name, "Local")], Keys)

\* A call of the wrong arity is reported and still an edge.
EdgesOf(key) ==
  LET calls == schema[key].calls
  IN  Keep([i \in DOMAIN calls |-> Callee(calls[i].name, key[1])], Keys)

\* One round of the first loop.
Resolve ==
  /\ DOMAIN edges # Keys
  /\ LET key == First(Keys \ DOMAIN edges)
     IN  /\ edges' = [k \in DOMAIN edges \cup {key} |->
                        IF k = key THEN EdgesOf(key) ELSE edges[k]]
         /\ diagnostics' = PushAll(FaultsOf(key))
  /\ UNCHANGED <<schema, limit, stack, active, permanent, reported>>

-----------------------------------------------------------------------------
(* Search *)

Searching == DOMAIN edges = Keys
Top == Last(stack)
Key == Top[1]

\* The functions before the start of a search are permanent by then.
Start ==
  /\ Searching /\ stack = <<>>
  /\ Keys # permanent
  /\ stack' = <<<<First(Keys \ permanent), FALSE>>>>
  /\ active' = {}
  /\ UNCHANGED <<schema, limit, edges, permanent, diagnostics, reported>>

\* Mutant of Left: a function stays active when it is left.
LeftActive == active

Left == active \ {Key}

Exit ==
  /\ stack # <<>> /\ Top[2]
  /\ stack' = Front(stack)
  /\ active' = Left
  /\ permanent' = permanent \cup {Key}
  /\ UNCHANGED <<schema, limit, edges, diagnostics, reported>>

Skip ==
  /\ stack # <<>> /\ ~Top[2]
  /\ Key \in permanent
  /\ stack' = Front(stack)
  /\ UNCHANGED <<schema, limit, edges, active, permanent, diagnostics, reported>>

\* Mutant of Path: only a function that calls itself is seen to be recursive.
PathOfOne(key) == {key}

Path(key) == active \cup {key}

Entries(key, deeper) ==
  <<<<key, TRUE>>>> \o [i \in DOMAIN deeper |-> <<deeper[i], FALSE>>]

\* The entry of an active function never comes to the top of the stack, so
\* there is no action for the code's branch on it: the search would deadlock.
Visit ==
  /\ stack # <<>> /\ ~Top[2]
  /\ Key \notin permanent /\ Key \notin active
  /\ LET last == Reverse(edges[Key])
         back == Keep(last, Path(Key))
         deeper == Keep(last, Keys \ (Path(Key) \cup permanent))
     IN  /\ stack' = Front(stack) \o Entries(Key, deeper)
         /\ diagnostics' = PushAll([i \in DOMAIN back |-> "recursive"])
         /\ reported' = reported \cup ToSet(back)
  /\ active' = active \cup {Key}
  /\ UNCHANGED <<schema, limit, edges, permanent>>

Done == Searching /\ stack = <<>> /\ Keys = permanent
Finished == Done /\ UNCHANGED vars

Next == Resolve \/ Start \/ Exit \/ Skip \/ Visit \/ Finished

Spec == Init /\ [][Next]_vars /\ WF_vars(Next)

-----------------------------------------------------------------------------
(* Properties *)

\* The calls between expression functions, read off the schema.
CallGraph ==
  [key \in Keys |->
     {Callee(c.name, key[1]) : c \in ToSet(schema[key].calls)} \cap Keys]

\* A set of functions that holds all they call.
Closed(graph, S) == \A k \in S : graph[k] \subseteq S

\* Calls lead from k to l when every closed set that holds what k calls holds l.
Reaches(graph, k, l) ==
  \A S \in SUBSET DOMAIN graph : graph[k] \subseteq S /\ Closed(graph, S) => l \in S

Recursive(graph, k) == Reaches(graph, k, k)

\* Among functions without recursion some function calls none of the others.
Acyclic(graph, S) ==
  \A T \in (SUBSET S) \ {{}} : \E k \in T : graph[k] \cap T = {}

Exits == {i \in DOMAIN stack : stack[i][2]}

\* The active functions are those with an exit entry on the stack, one each, and
\* in the order they were entered they are a chain of calls.
ActiveIsPath ==
  /\ active = {stack[i][1] : i \in Exits}
  /\ \A i, j \in Exits : stack[i][1] = stack[j][1] => i = j
  /\ \A i, j \in Exits :
       i < j /\ (\A l \in Exits : l <= i \/ j <= l)
         => stack[j][1] \in CallGraph[stack[i][1]]

\* Nothing is called recursive that is not, and a set of functions that was
\* searched without a report has no recursion in it.
ReportsExact ==
  /\ \A k \in reported : Recursive(CallGraph, k)
  /\ Acyclic(CallGraph, permanent \ reported)

\* Whatever the limits leave of the messages, the graph is accepted when no
\* function is recursive, every call resolves, and in no other case.
VerdictExact ==
  Done => (diagnostics = <<>>
             <=> /\ Acyclic(CallGraph, Keys)
                 /\ \A k \in Keys : \A c \in ToSet(schema[k].calls) :
                      CallFault(c, k[1]) = "none")

\* Recursion in the schema never keeps the search from ending.
Terminates == <>Done
=============================================================================
