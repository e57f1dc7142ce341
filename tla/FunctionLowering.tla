-------------------------- MODULE FunctionLowering --------------------------
(***************************************************************************)
(* The two recursive walks that expand expression functions: the dry run   *)
(* preflight_lowering (sema/analyzer/limits.rs), which only counts, and    *)
(* analyze_expression (sema/analyzer.rs, sema/analyzer/functions.rs),      *)
(* which builds the verified program.  Both keep a stack of active         *)
(* functions and, inlining, a stack of borrowed bindings: a parameter is   *)
(* looked up in the last frame only, and its argument is walked with that  *)
(* frame taken off and put back.  The recursion of the code is a stack of  *)
(* tasks here.                                                             *)
(***************************************************************************)
EXTENDS Checks
LOCAL INSTANCE SequencesExt
LOCAL INSTANCE FiniteSetsExt

CONSTANTS
  Programs,   \* [root, functions]: a tree and <<scope, name>> -> [params, body];
              \* a tree is [kind, name, args], of kind "literal", "name",
              \* "operator" or "call"
  LimitSets   \* the [nodes, depth, scalars] limits: max_ast_nodes,
              \* max_call_depth and MAX_LOWERED_SCALAR_BYTES

LimitType == [nodes : Nat, depth : Nat, scalars : Nat]
ASSUME LimitAssumption == LimitSets \subseteq LimitType

Modes == {"Inline", "CallFrame"}

VARIABLES
  program, limits, mode,  \* fixed for one analysis
  pass,         \* "preflight", "analysis", "done" or "rejected"
  tasks,        \* what is left to walk, the next task last
  active,       \* active_functions: the functions entered and not left
  bindings,     \* inline_bindings: the [params, args] frames
  locals,       \* local_bindings: the parameters of the frames entered
  nodes, scalars,  \* charged by this pass
  counted,      \* what the preflight charged
  problems,     \* the kinds of the messages
  lowered       \* the verified program, in preorder

vars == <<program, limits, mode, pass, tasks, active, bindings, locals,
          nodes, scalars, counted, problems, lowered>>

\* Tasks: walk a tree, enter a function whose arguments are walked, leave the
\* last one, put a frame back.
Walk(e, depth) == <<"walk", e, depth>>
Enter(key, depth) == <<"enter", key, depth>>
Leave == <<"leave">>
Restore(frame) == <<"restore", frame>>

Init ==
  /\ program \in Programs /\ limits \in LimitSets /\ mode \in Modes
  /\ pass = "preflight"
  /\ tasks = <<Walk(program.root, 0)>>
  /\ active = <<>> /\ bindings = <<>> /\ locals = <<>>
  /\ nodes = 0 /\ scalars = 0
  /\ counted = <<0, 0>>
  /\ problems = {}
  /\ lowered = <<>>

-----------------------------------------------------------------------------
(* Resolution *)

Functions == program.functions
Keys == DOMAIN Functions

\* expression_function_for_scope
Callee(name, scope) ==
  IF scope = "Local" /\ <<"Local", name>> \in Keys
  THEN <<"Local", name>> ELSE <<"Global", name>>

\* Mutant of Scope: every call is resolved as the program's own are.
ScopeOfProgram == "Local"

\* current_function_scope: of the function entered last; a program is analyzed
\* with the scope "Local".
Scope == IF active = <<>> THEN "Local" ELSE Last(active)[1]

\* inline_binding: only the last frame is looked at.
Bound(e) ==
  /\ e.kind = "name" /\ bindings # <<>>
  /\ e.name \in ToSet(Last(bindings).params)

Argument(name, frame) ==
  frame.args[Min({i \in DOMAIN frame.params : frame.params[i] = name})]

\* A call some expression function answers, with the right arguments or not.
Expands(e) == e.kind = "call" /\ Callee(e.name, Scope) \in Keys
FunctionOf(e) == Functions[Callee(e.name, Scope)]
Fitting(e) == Len(FunctionOf(e).params) = Len(e.args)
Recurs(e) == Callee(e.name, Scope) \in ToSet(active)

-----------------------------------------------------------------------------
(* Charges *)

\* expression_scalar_bytes, names and literals being one byte long.
Scalars(e) == IF e.kind = "operator" THEN 0 ELSE 1

\* Mutant of FrameScalars: the parameters a program owns cost it nothing.
FrameScalarsInPreflight(e) ==
  IF mode = "CallFrame" /\ pass = "preflight" /\ Expands(e) /\ Fitting(e) /\ ~Recurs(e)
  THEN Len(FunctionOf(e).params) ELSE 0

\* The parameters of a frame are charged by the preflight once the call is
\* known not to recur, by the analysis before that is known.
FrameScalars(e) ==
  IF /\ mode = "CallFrame" /\ Expands(e) /\ Fitting(e)
     /\ pass = "analysis" \/ ~Recurs(e)
  THEN Len(FunctionOf(e).params) ELSE 0

FitsNodes == nodes + 1 <= limits.nodes
FitsScalars(e) == scalars + Scalars(e) <= limits.scalars
FitsFrame(e) == scalars + Scalars(e) + FrameScalars(e) <= limits.scalars

\* Mutant of DepthCheck: the effective depth limit is exclusive in one pass.
DepthCheckByPass(depth) ==
  <<IF pass = "analysis" THEN depth < limits.depth ELSE depth <= limits.depth,
    "depth">>

DepthCheck(depth) == <<depth <= limits.depth, "depth">>

\* In the order each pass makes them.
Charges(e, depth) ==
  <<DepthCheck(depth)>>
    \o (IF pass = "preflight"
        THEN <<<<FitsScalars(e), "scalars">>, <<FitsNodes, "nodes">>>>
        ELSE <<<<FitsNodes, "nodes">>, <<FitsScalars(e), "scalars">>>>)
    \o <<<<FitsFrame(e), "scalars">>>>
Charged(e, depth) == AllHold(Charges(e, depth))

-----------------------------------------------------------------------------
(* One task *)

Task == Last(tasks)
Rest == Front(tasks)
Running == pass \in {"preflight", "analysis"} /\ tasks # <<>>
Walking(e, depth) == Running /\ Task = Walk(e, depth)

WalkAll(es, depth) == [i \in DOMAIN es |-> Walk(Reverse(es)[i], depth)]

\* The preflight counts, the analysis builds.
Emit(token) == lowered' = IF pass = "analysis" THEN Append(lowered, token)
                          ELSE lowered
Report(problem) == problems' = IF pass = "analysis" THEN problems \cup {problem}
                               ELSE problems
Token(e) ==
  IF e.kind = "name" /\ \E i \in DOMAIN locals : e.name \in locals[i]
  THEN <<"local", e.name, 0>> ELSE <<e.kind, e.name, Len(e.args)>>
Null == <<"literal", "null", 0>>

Charge(e) ==
  /\ nodes' = nodes + 1
  /\ scalars' = scalars + Scalars(e) + FrameScalars(e)

Fixed == UNCHANGED <<program, limits, mode, counted>>
Stacks == UNCHANGED <<active, bindings, locals>>

\* Mutant of Frames: an argument is walked in the frame it is the argument of.
FramesKept == bindings

\* The frames an argument is walked under.
Frames == Front(bindings)

\* A parameter stands for its argument and costs nothing itself.
WalkParameter(e, depth) ==
  /\ Walking(e, depth)
  /\ AllHold(<<DepthCheck(depth)>>) /\ Bound(e)
  /\ LET frame == Last(bindings)
     IN  /\ tasks' = Rest \o <<Restore(frame), Walk(Argument(e.name, frame), depth)>>
         /\ bindings' = Frames
  /\ UNCHANGED <<pass, active, locals, nodes, scalars, problems, lowered>>
  /\ Fixed

RestoreFrame ==
  /\ Running /\ Task[1] = "restore"
  /\ tasks' = Rest
  /\ bindings' = Append(bindings, Task[2])
  /\ UNCHANGED <<pass, active, locals, nodes, scalars, problems, lowered>>
  /\ Fixed

Refused(e, depth) ==
  /\ Walking(e, depth)
  /\ ~Charged(e, depth)
  /\ AllHold(<<DepthCheck(depth)>>) => ~Bound(e)
  /\ problems' = problems \cup {FirstFailure(Charges(e, depth))}
  /\ Fixed

\* The preflight stops at the first charge that does not fit.
RefusePreflight(e, depth) ==
  /\ pass = "preflight" /\ Refused(e, depth)
  /\ pass' = "rejected"
  /\ tasks' = <<>> /\ active' = <<>> /\ bindings' = <<>>
  /\ UNCHANGED <<locals, nodes, scalars, lowered>>

\* The analysis puts a null there and goes on; what did fit stays charged.
RefuseAnalysis(e, depth) ==
  /\ pass = "analysis" /\ Refused(e, depth)
  /\ nodes' = IF depth <= limits.depth /\ FitsNodes THEN nodes + 1 ELSE nodes
  /\ scalars' = IF depth <= limits.depth /\ FitsNodes
                THEN Min({limits.scalars, scalars + Scalars(e) + FrameScalars(e)})
                ELSE scalars
  /\ tasks' = Rest
  /\ Emit(Null)
  /\ UNCHANGED pass /\ Stacks

Accepted(e, depth) ==
  /\ Walking(e, depth)
  /\ Charged(e, depth) /\ ~Bound(e)
  /\ Charge(e)
  /\ UNCHANGED pass /\ Fixed

\* Literals, variables, operators, and calls of the host.
WalkPlain(e, depth) ==
  /\ Accepted(e, depth)
  /\ ~Expands(e)
  /\ tasks' = Rest \o WalkAll(e.args, depth + 1)
  /\ Emit(Token(e))
  /\ UNCHANGED problems /\ Stacks

\* The preflight leaves it to the analysis to report these two.
RefuseArity(e, depth) ==
  /\ Accepted(e, depth)
  /\ Expands(e) /\ ~Fitting(e)
  /\ Report("arity") /\ Emit(Null)
  /\ tasks' = Rest /\ Stacks

RefuseRecursion(e, depth) ==
  /\ Accepted(e, depth)
  /\ Expands(e) /\ Fitting(e) /\ Recurs(e)
  /\ Report("recursive") /\ Emit(Null)
  /\ tasks' = Rest /\ Stacks

ExpandInline(e, depth) ==
  /\ mode = "Inline" /\ Accepted(e, depth)
  /\ Expands(e) /\ Fitting(e) /\ ~Recurs(e)
  /\ active' = Append(active, Callee(e.name, Scope))
  /\ bindings' = Append(bindings,
                        [params |-> FunctionOf(e).params, args |-> e.args])
  /\ tasks' = Rest \o <<Leave, Walk(FunctionOf(e).body, depth + 1)>>
  /\ UNCHANGED <<locals, problems, lowered>>

\* The arguments are walked before the function becomes active.
ExpandFrame(e, depth) ==
  /\ mode = "CallFrame" /\ Accepted(e, depth)
  /\ Expands(e) /\ Fitting(e) /\ ~Recurs(e)
  /\ tasks' = Rest \o <<Enter(Callee(e.name, Scope), depth + 1)>>
                   \o WalkAll(e.args, depth + 1)
  /\ Emit(<<"frame", e.name, Len(e.args)>>)
  /\ UNCHANGED problems /\ Stacks

EnterFrame ==
  /\ Running /\ Task[1] = "enter"
  /\ LET function == Functions[Task[2]]
     IN  /\ tasks' = Rest \o <<Leave, Walk(function.body, Task[3])>>
         /\ locals' = IF pass = "analysis" THEN Append(locals, ToSet(function.params))
                      ELSE locals
  /\ active' = Append(active, Task[2])
  /\ UNCHANGED <<pass, bindings, nodes, scalars, problems, lowered>>
  /\ Fixed

Left == Front(active)

LeaveFunction ==
  /\ Running /\ Task = Leave
  /\ tasks' = Rest
  /\ active' = Left
  /\ bindings' = IF mode = "Inline" THEN Front(bindings) ELSE bindings
  /\ locals' = IF mode = "CallFrame" /\ pass = "analysis" THEN Front(locals)
               ELSE locals
  /\ UNCHANGED <<pass, nodes, scalars, problems, lowered>>
  /\ Fixed

Analyze ==
  /\ pass = "preflight" /\ tasks = <<>>
  /\ pass' = "analysis"
  /\ tasks' = <<Walk(program.root, 0)>>
  /\ nodes' = 0 /\ scalars' = 0
  /\ counted' = <<nodes, scalars>>
  /\ UNCHANGED <<program, limits, mode, problems, lowered>>
  /\ Stacks

\* A program with any message is no program.
Finish ==
  /\ pass = "analysis" /\ tasks = <<>>
  /\ pass' = IF problems = {} THEN "done" ELSE "rejected"
  /\ UNCHANGED <<tasks, nodes, scalars, problems, lowered>>
  /\ Fixed /\ Stacks

Step(e, depth) ==
  \/ WalkParameter(e, depth) \/ WalkPlain(e, depth)
  \/ RefusePreflight(e, depth) \/ RefuseAnalysis(e, depth)
  \/ RefuseArity(e, depth) \/ RefuseRecursion(e, depth)
  \/ ExpandInline(e, depth) \/ ExpandFrame(e, depth)

Next ==
  \/ Running /\ Task[1] = "walk" /\ Step(Task[2], Task[3])
  \/ RestoreFrame \/ EnterFrame \/ LeaveFunction
  \/ Analyze \/ Finish

Spec == Init /\ [][Next]_vars

-----------------------------------------------------------------------------
(* What an expansion should be *)

\* The frame a task of the stack stands for: entered, or set aside while an
\* argument is walked.
TasksOf(kind) == Cardinality({i \in DOMAIN tasks : tasks[i][1] = kind})

\* A name is bound where it is written: to a tree with the bindings and the
\* scope of the place that tree was written at.
RECURSIVE Expansion(_, _, _)
Expansion(e, env, scope) ==
  IF e.kind = "name" /\ e.name \in DOMAIN env
  THEN Expansion(env[e.name].tree, env[e.name].env, env[e.name].scope)
  ELSE LET key == IF scope = "Local" /\ <<"Local", e.name>> \in Keys
                  THEN <<"Local", e.name>> ELSE <<"Global", e.name>>
           Parts == FlattenSeq([i \in DOMAIN e.args |-> Expansion(e.args[i], env, scope)])
       IN  IF e.kind = "call" /\ key \in Keys
           THEN LET f == Functions[key]
                    closure == [x \in ToSet(f.params) |->
                                  [tree |-> e.args[CHOOSE i \in DOMAIN f.params :
                                                     f.params[i] = x],
                                   env |-> env, scope |-> scope]]
                IN  Expansion(f.body, closure, key[1])
           ELSE <<<<e.kind, e.name, Len(e.args)>>>> \o Parts

\* A call frame keeps its arguments apart; the parameters of every frame are
\* in reach of the body, as they are when it is evaluated.
RECURSIVE Framed(_, _, _)
Framed(e, names, scope) ==
  LET key == IF scope = "Local" /\ <<"Local", e.name>> \in Keys
             THEN <<"Local", e.name>> ELSE <<"Global", e.name>>
      Parts == FlattenSeq([i \in DOMAIN e.args |-> Framed(e.args[i], names, scope)])
  IN  IF e.kind = "name" /\ e.name \in names THEN <<<<"local", e.name, 0>>>>
      ELSE IF e.kind = "call" /\ key \in Keys
      THEN <<<<"frame", e.name, Len(e.args)>>>> \o Parts
             \o Framed(Functions[key].body,
                       names \cup ToSet(Functions[key].params), key[1])
      ELSE <<<<e.kind, e.name, Len(e.args)>>>> \o Parts

RECURSIVE CalledBy(_)
CalledBy(e) == (IF e.kind = "call" THEN {e.name} ELSE {})
                 \cup UNION {CalledBy(e.args[i]) : i \in DOMAIN e.args}

OneScope == Cardinality({k[1] : k \in Keys}) <= 1

\* Some function of the schema reaches itself.
CalleesOf(key) == {Callee(n, key[1]) : n \in CalledBy(Functions[key].body)} \cap Keys
Cyclic == \E S \in (SUBSET Keys) \ {{}} : \A k \in S : CalleesOf(k) \cap S # {}

-----------------------------------------------------------------------------
(* Properties *)

\* Every function entered is left, its frame is on the stack of bindings or
\* set aside, and nothing stays behind at the end of a walk.
FramesBalanced ==
  /\ Len(active) = TasksOf("leave")
  /\ mode = "Inline" => Len(bindings) + TasksOf("restore") = Len(active)
  /\ mode = "CallFrame" =>
       /\ bindings = <<>>
       /\ Len(locals) = IF pass = "analysis" THEN Len(active) ELSE 0
  /\ Cardinality(ToSet(active)) = Len(active)

\* The dry run is no guess: what it accepted the analysis never finds too deep
\* or too large.  Only the parameters of a recursive call, which the analysis
\* charges and the dry run does not, can exceed the scalars.
PreflightCovers ==
  pass = "analysis" =>
    /\ problems \cap {"depth", "nodes"} = {}
    /\ "scalars" \in problems => Cyclic

\* ... and a program is charged exactly what the dry run counted.
MetersAgree == pass = "done" => counted = <<nodes, scalars>>

\* The program that comes out is the expansion of the one that went in, with
\* parameters bound where they are written and calls resolved in the scope
\* they are written in; inlining, only if all functions have one scope.
LoweredExact ==
  pass = "done" =>
    /\ mode = "CallFrame" => lowered = Framed(program.root, {}, "Local")
    /\ mode = "Inline" /\ OneScope => lowered = Expansion(program.root, <<>>, "Local")

\* What the code documents of scopes, with no such condition: the calls of the
\* program itself find local functions first.
CallsResolveWhereWritten ==
  pass = "done" /\ mode = "Inline" => lowered = Expansion(program.root, <<>>, "Local")

\* The recursion of the code, which costs stack: one call for each level of
\* depth and one for each argument walked in place of a parameter.  The
\* limit does not count the second kind, but there are no more of them than functions
\* being expanded, whatever their parameters are bound to: a frame is on the
\* stack of bindings or set aside, and none stays behind.
RecursionBounded ==
  /\ FramesBalanced
  /\ TasksOf("leave") <= limits.depth + 1
  /\ TasksOf("restore") <= limits.depth + 1
=============================================================================
