------------------------------ MODULE Evaluator ------------------------------
(***************************************************************************)
(* A request from its pattern sets to its answer: RuntimePatternSets::     *)
(* compile_with_limits, Analyzer::analyze and, if the program is accepted, *)
(* evaluate_verified_with_resource_limits (runtime.rs, runtime/evaluator.  *)
(* rs) over a RuntimeContext.  The recursion of eval is a stack of frames, *)
(* one per call of eval under way, each with the operand values it holds;  *)
(* the locals of expression functions are the separate stack they are in   *)
(* the code, searched from the innermost frame to the outermost.           *)
(*                                                                         *)
(* A context is [variables, registry, configs, setLimits, bodies]: the     *)
(* registry is the sequence of registrations [ticket, meta, handler];      *)
(* bodies says which of the host's values are data of a body, and of what  *)
(* access: [target, access, value].  An object that has a body among its   *)
(* members, such as the whole Request, is none.                            *)
(*                                                                         *)
(* validate_value is abstracted to the two limits whose state lives here:  *)
(* the bytes of a value and its longest string (ValueTraversal has all).   *)
(***************************************************************************)
EXTENDS Analysis

CONSTANTS
  Requests,
  HostValues   \* the values of literals and variables, with all their parts

ASSUME ValueAssumption == HoldsParts(HostValues)

\* EvalLimits and the two RuntimeResourceLimits that matter here.
LimitType == [steps : Nat, depth : Nat, items : Nat, string : Nat,
              value : Nat, total : Nat]
ASSUME LimitAssumption == \A r \in Requests : r.limits \in LimitType

ASSUME ProgramAssumption ==
  \A p \in {r.program : r \in Requests} :
    /\ IsProgram(p)
    /\ \A i \in DOMAIN p.kind : p.kind[i] = "literal" => p.literal[i] \in HostValues

\* The bounds of the analysis are numbers, and so is the cost of a capability.
ASSUME AnalysisAssumption ==
  \A r \in Requests :
    /\ {r.profile.depth, r.profile.nodes, r.profile.cost} \subseteq Nat
    /\ \A t \in DOMAIN r.schema.capabilities : r.schema.capabilities[t].cost \in Nat

\* The handlers that read the characters of their arguments are methods: they
\* are given at least a receiver, and two of them one argument.
Reads(does) == does \in {"lower_ascii", "upper_ascii", "containsAny", "matches"}
ASSUME ContextAssumption ==
  \A c \in {r.context : r \in Requests} :
    /\ \A name \in DOMAIN c.variables : c.variables[name] \in HostValues
    /\ c.registry \in Seq(ToSet(c.registry))
    /\ \A e \in ToSet(c.registry) :
         /\ e.handler.does \in HandlerNames /\ e.handler.work \in Nat
         /\ Reads(e.handler.does) => e.ticket[1] = "method"
         /\ e.handler.does \in {"containsAny", "matches"} => e.ticket[3] = 1
    /\ c.configs \in Seq(ToSet(c.configs))
    /\ \A g \in ToSet(c.configs) :
         /\ g.patterns \in Seq(ToSet(g.patterns))
         /\ \A text \in ToSet(g.patterns) : text \in Seq(ToSet(text))

VARIABLES
  stage,       \* "preparing", "analyzing", "verifying", "running" or "ended"
  verdict,     \* "none", at the end "done" or the reason of the error
  sets,        \* the compiled pattern sets
  verified,    \* the VerifiedProgram
  frames,      \* the calls of eval under way: [node, vals, bound]
  locals,      \* EvalState.locals: [node, vals], innermost last
  steps,       \* EvalState.steps
  processed,   \* EvalState.processed_bytes, shared with the handlers
  result,      \* the value of the program, once done
  history      \* what was spent (by the metadata of what is dispatched to),
               \* worked (by handlers), read (of bodies), looked (up, of
               \* variables), dispatched (ticket and metadata)

vars == <<request, stage, verdict, sets, verified, frames, locals, steps, processed,
          result, history>>
inputs == <<request, sets, verified>>

NoProgram == [tickets |-> {}, required |-> <<>>, need |-> <<>>, nodes |-> 0,
              cost |-> 0, cache |-> {}]

Init ==
  /\ request \in Requests
  /\ stage = "preparing" /\ verdict = "none"
  /\ sets = <<>>
  /\ verified = NoProgram
  /\ frames = <<>> /\ locals = <<>>
  /\ steps = 0 /\ processed = 0
  /\ result = Failure
  /\ history = [spent |-> 0, worked |-> 0, read |-> {}, looked |-> {}, dispatched |-> {}]

idle == <<frames, locals, steps, processed, result, history>>

End(reason) == stage' = "ended" /\ verdict' = reason

\* The host compiles the pattern sets its registry is given.
Prepare ==
  /\ stage = "preparing"
  /\ LET checks == SetChecks(context.configs, context.setLimits)
     IN  IF AllHold(checks)
         THEN stage' = "analyzing" /\ sets' = CompiledSets(context.configs) /\ UNCHANGED verdict
         ELSE End(FirstFailure(checks)) /\ UNCHANGED sets
  /\ UNCHANGED <<request, verified, idle>>

\* It analyzes the program.
Analyze ==
  /\ stage = "analyzing"
  /\ IF Accepted
     THEN stage' = "verifying" /\ verified' = VerifiedProgram /\ UNCHANGED verdict
     ELSE End("refused") /\ UNCHANGED verified
  /\ UNCHANGED <<request, sets, idle>>

-----------------------------------------------------------------------------
(* The registry *)

IsOperator(ticket) == ticket[1] \in {"unary", "binary"}
Registered(ticket) ==
  {k \in DOMAIN context.registry : context.registry[k].ticket = ticket}

\* Operators are kept in a map, so the last registration wins; functions and
\* methods in a list that is searched from its start.
Entry(ticket) ==
  context.registry[IF IsOperator(ticket) THEN Max(Registered(ticket))
                   ELSE Min(Registered(ticket))]

\* capability_for_ticket: the capability a call will be dispatched to, as far
\* as one is registered.
MetadataOf(ticket) ==
  IF Registered(ticket) # {} THEN Entry(ticket).meta ELSE DefaultMeta

\* Mutant of Verified: a capability of the same name is good enough.
VerifiedByName ==
  \A t \in DOMAIN verified.required : IsOperator(t) \/ Registered(t) # {}

\* verify_runtime_capabilities, over every capability the program requires.
Verified ==
  \A t \in DOMAIN verified.required :
    /\ IsOperator(t) \/ Registered(t) # {}
    /\ MetadataOf(t) = verified.required[t]

-----------------------------------------------------------------------------
(* Control *)

\* Mutant of Stop: the locals of the calls it returns through stay behind.
StopKeepingLocals(reason) ==
  /\ End(reason)
  /\ frames' = <<>>
  /\ UNCHANGED <<inputs, locals, result>>

\* An error returns through every call of eval; each pops its locals.
Stop(reason) ==
  /\ End(reason)
  /\ frames' = <<>> /\ locals' = <<>>
  /\ UNCHANGED <<inputs, result>>

Verify ==
  /\ stage = "verifying"
  /\ IF Verified THEN stage' = "running" /\ UNCHANGED verdict ELSE End("capability")
  /\ UNCHANGED <<inputs, idle>>

Running == stage = "running"
Top == frames[Len(frames)]
Node == Top.node
Vals == Top.vals
Kind == program.kind[Node]
Operands == program.kids[Node]

IsFunction == Kind = "expression function"
IsLogical == Kind \in {"and", "or"}
EvaluateRightOf == Bool(Kind = "and")

\* Mutant of LeftDecides: || evaluates both.
LeftDecidesAnd == Kind = "and" /\ Len(Vals) = 1 /\ Vals[1] # EvaluateRightOf

\* && and || look at the left operand before the right one is evaluated.
LeftDecides == IsLogical /\ Len(Vals) = 1 /\ Vals[1] # EvaluateRightOf

\* An expression function binds its arguments before its body.
Unbound == IsFunction /\ ~Top.bound /\ Len(Vals) = Len(Operands) - 1

\* Mutant of NeedsOperand: nothing is evaluated after the arguments are bound.
NeedsOperandUnbound ==
  ~Top.bound /\ ~Unbound /\ Len(Vals) < Len(Operands) /\ ~LeftDecides

NeedsOperand ==
  IF IsFunction
  THEN ~Unbound /\ (Top.bound => Vals = <<>>)
  ELSE Len(Vals) < Len(Operands) /\ ~LeftDecides

\* Mutant of NextOperand: the last operand is evaluated again.
NextOperandAgain ==
  Operands[IF Top.bound THEN Len(Operands)
           ELSE IF Vals = <<>> THEN 1 ELSE Len(Vals)]

NextOperand ==
  Operands[IF Top.bound THEN Len(Operands) ELSE Len(Vals) + 1]

Dispatching == {"function", "method", "unary", "binary", "and", "or"}

\* The checks of eval before it evaluates an operand of node i: the step is
\* counted before the depth is looked at, and a dispatch ticket is demanded
\* before any argument is evaluated.
EntryChecks(i) ==
  LET kind == program.kind[i]
      arity == Len(program.params[i])
  IN  <<<<steps + 1 <= limits.steps, "steps">>,
        <<Len(frames) <= limits.depth, "depth">>,
        <<kind = "array" => Len(program.kids[i]) <= limits.items, "items">>,
        <<kind \in Dispatching => i \in verified.tickets, "unresolved">>,
        <<kind = "expression function" => arity + 1 = Len(program.kids[i]), "arity">>>>

CostAtRuntime(i) == IF i \in verified.tickets THEN MetadataOf(Ticket(i)).cost ELSE 1

\* eval of node i begins.
Enter(i) ==
  /\ steps' = steps + 1
  /\ IF AllHold(EntryChecks(i))
     THEN /\ frames' = Append(frames, [node |-> i, vals |-> <<>>, bound |-> FALSE])
          /\ history' = [history EXCEPT !.spent = @ + CostAtRuntime(i)]
          /\ UNCHANGED <<inputs, locals, stage, verdict, result>>
     ELSE Stop(FirstFailure(EntryChecks(i))) /\ UNCHANGED history
  /\ UNCHANGED processed

EnterRoot == Running /\ frames = <<>> /\ Enter(1)
EnterOperand == Running /\ frames # <<>> /\ NeedsOperand /\ Enter(NextOperand)

\* eval_expression_function: the arguments, evaluated in the caller's locals,
\* move into a frame of their own.
Bind ==
  /\ Running /\ frames # <<>> /\ Unbound
  /\ locals' = Append(locals, [node |-> Node, vals |-> Vals])
  /\ frames' = [frames EXCEPT ![Len(frames)].vals = <<>>,
                              ![Len(frames)].bound = TRUE]
  /\ UNCHANGED <<inputs, steps, processed, stage, verdict, result, history>>

\* What of the bodies is among the values.
BodyData(values) ==
  {<<b.target, b.access>> : b \in {c \in context.bodies : c.value \in values}}

\* The value reaches the host only from the root.
Handed(v) == IF Len(frames) = 1 THEN {v} ELSE {}

\* The top call of eval returns v to the call below it.
Return(v) ==
  LET below == Len(frames) - 1
      rest == SubSeq(frames, 1, below)
  IN  IF below = 0
      THEN frames' = <<>> /\ result' = v /\ End("done")
      ELSE /\ frames' = [rest EXCEPT ![below].vals = Append(@, v)]
           /\ UNCHANGED <<result, stage, verdict>>

\* An expression function returns what its body did: it was admitted there.
LeaveFunction ==
  /\ Running /\ frames # <<>> /\ IsFunction /\ Top.bound /\ Vals # <<>>
  /\ locals' = SubSeq(locals, 1, Len(locals) - 1)
  /\ Return(Vals[1])
  /\ history' = [history EXCEPT !.read = @ \cup BodyData(Handed(Vals[1]))]
  /\ UNCHANGED <<inputs, steps, processed>>

-----------------------------------------------------------------------------
(* Results: the checks a kind of node makes once its operands are there,   *)
(* its value, and the work its handler charges before that is admitted.    *)

Ready == Running /\ frames # <<>> /\ ~NeedsOperand /\ ~IsFunction

\* Mutant of Charged: a value costs its node, not what it holds.
ChargedShallow(value, work) == processed + work + 1

\* charge, after the work a handler charged.
Charged(value, work) == processed + work + value.bytes

\* The operands, looked at by anything but a member access.
Used == IF Kind \in ConsumerKinds THEN ToSet(Vals) ELSE {}

\* The registered handler that the node finds.
DispatchedTo ==
  IF Kind \in Dispatching \ {"and", "or"} /\ Registered(Ticket(Node)) # {}
  THEN {<<Ticket(Node), MetadataOf(Ticket(Node))>>} ELSE {}

\* The locals of that name, and the one it stands for.
Bindings(name) ==
  {k \in DOMAIN locals : name \in ToSet(program.params[locals[k].node])}

\* Mutant of Found: the outermost frame wins.
FoundOutermost(name) == Min(Bindings(name))

Found(name) == Max(Bindings(name))

\* The variables of the context that are looked up.
LookedUp ==
  {n \in {program.name[Node]} : Kind = "identifier" /\ Bindings(n) = {}}

\* admit and clone_admitted, after the call, which is made once: validate, then
\* charge.
Conclude(made) == \E call \in {made} :
  LET value == call.value
      charging == call.before \o <<<<processed + call.work <= limits.total, "work">>>>
      checks == charging \o call.after \o
                  <<<<value.longest <= limits.string, "string">>,
                    <<value.bytes <= limits.value, "value">>,
                    <<Charged(value, call.work) <= limits.total, "total">>>>
      good == AllHold(checks)
  IN  /\ IF good THEN Return(value) /\ UNCHANGED <<inputs, locals>>
         ELSE Stop(FirstFailure(checks))
      /\ processed' = IF good THEN Charged(value, call.work)
                      ELSE IF AllHold(charging) THEN processed + call.work ELSE processed
      /\ history' =
           [spent |-> history.spent,
            worked |-> history.worked + (IF AllHold(charging) THEN call.done ELSE 0),
            read |-> history.read \cup BodyData(Used \cup (IF good THEN Handed(value) ELSE {})),
            looked |-> history.looked \cup LookedUp,
            dispatched |-> history.dispatched \cup DispatchedTo]
      /\ UNCHANGED steps

ReturnLiteral ==
  /\ Ready /\ Kind = "literal"
  /\ Conclude(Given(TRUE, "", program.literal[Node]))

\* eval_identifier: the innermost local of that name, else a variable.
LocalValue(name) ==
  LET frame == locals[Found(name)]
  IN  frame.vals[IndexIn(program.params[frame.node], name)]

ReturnIdentifier ==
  /\ Ready /\ Kind = "identifier"
  /\ LET name == program.name[Node]
     IN  Conclude(IF Bindings(name) # {} THEN Given(TRUE, "", LocalValue(name))
                  ELSE Given(name \in DOMAIN context.variables, "unknown variable",
                             context.variables[name]))

ReturnArray ==
  /\ Ready /\ Kind = "array"
  /\ Conclude(Given(TRUE, "", List(Vals)))

MemberCall(object, name) ==
  Given(object.ty = "object" /\ name \in ToSet(object.payload), "no member",
        object.parts[IndexIn(object.payload, name)])

ReturnMember ==
  /\ Ready /\ Kind = "member"
  /\ Conclude(MemberCall(Vals[1], program.name[Node]))

\* The handler that a ticket finds.
Handled(ticket, args) ==
  HandlerCall(Entry(ticket).handler, args, sets, verified.cache, limits.string)

\* call_function and call_method.
ReturnCall ==
  /\ Ready /\ Kind \in {"function", "method"}
  /\ Conclude(Handled(Ticket(Node), Vals))

\* eval_unary and eval_binary: a registered operator replaces the built-in one.
OperatorCall(ticket, args) ==
  IF Registered(ticket) # {} THEN Handled(ticket, args)
  ELSE BuiltinCall(ticket[2], args, limits.string)

ReturnOperator ==
  /\ Ready /\ Kind \in {"unary", "binary"}
  /\ Conclude(OperatorCall(Ticket(Node), Vals))

\* && and ||: the last operand evaluated is the result, if it is a boolean.
ReturnLogical ==
  /\ Ready /\ IsLogical
  /\ Conclude(Simple(Vals[Len(Vals)].ty = "bool", Vals[Len(Vals)]))

Next ==
  \/ Prepare \/ Analyze \/ Verify
  \/ EnterRoot \/ EnterOperand \/ Bind \/ LeaveFunction
  \/ ReturnLiteral \/ ReturnIdentifier \/ ReturnArray \/ ReturnMember
  \/ ReturnCall \/ ReturnOperator \/ ReturnLogical

\* One synchronous call after another: each runs to its answer.
Spec == Init /\ [][Next]_vars /\ WF_vars(Next)

-----------------------------------------------------------------------------
(* The reference: what a program means, read off its tree with no stacks.  *)

\* The value of a call, if it has one.
ValueOf(call) == IF AllHold(call.before \o call.after) THEN call.value ELSE Failure

\* What node i does with args, the values of its operands.
CallOf(i, args) ==
  CASE program.kind[i] = "array" -> Given(TRUE, "", List(args))
    [] program.kind[i] = "expression function" -> Given(TRUE, "", Last(args))
    [] program.kind[i] = "member" -> MemberCall(args[1], program.name[i])
    [] i \in Calls -> Handled(Ticket(i), args)
    [] OTHER -> OperatorCall(Ticket(i), args)

Arguments(meaning, i) == [k \in DOMAIN program.kids[i] |-> meaning[program.kids[i][k]]]

\* What node i means, of what the others do.
MeaningAt(value, i) ==
  LET kind == program.kind[i]
      name == program.name[i]
      args == Arguments(value, i)
  IN  CASE kind = "literal" -> program.literal[i]
        [] kind = "identifier" ->
             IF ~IsVariable(i) THEN value[Binder(name)[i]]
             ELSE IF name \in DOMAIN context.variables THEN context.variables[name]
             ELSE Failure
        [] kind \in {"and", "or"} ->
             IF args[1].ty # "bool" THEN Failure
             ELSE IF args[1] # Bool(kind = "and") THEN args[1]
             ELSE IF args[2].ty = "bool" THEN args[2] ELSE Failure
        [] OTHER ->
             IF /\ kind \in Dispatching => i \in verified.tickets
                /\ \A k \in DOMAIN args : args[k] # Failure
             THEN ValueOf(CallOf(i, args)) ELSE Failure

Meaning ==
  LET value[i \in Nodes] == MeaningAt(value, i)
  IN  value

\* The nodes a successful evaluation visits: all but the right operands that
\* the left ones decide, with what lies under them.
Reached ==
  LET reached[i \in Nodes] ==
        IF i = 1 THEN TRUE
        ELSE LET j == Parent(i)
                 left == program.kids[j][1]
             IN  /\ reached[j]
                 /\ program.kind[j] \in {"and", "or"} /\ i # left =>
                      Meaning[left] = Bool(program.kind[j] = "and")
  IN  {i \in Nodes : reached[i]}

\* What node i adds to the processed bytes: its value, and its handler's work;
\* nothing for the call of an expression function.
Charge(i) ==
  CASE program.kind[i] = "expression function" -> 0
    [] program.kind[i] \in {"literal", "identifier", "and", "or"} -> Meaning[i].bytes
    [] OTHER -> Meaning[i].bytes + CallOf(i, Arguments(Meaning, i)).work

-----------------------------------------------------------------------------
(* Properties *)

SetVerdicts == {"sets", "name", "blank name", "patterns", "pattern", "names",
                "duplicate", "pattern bytes", "compiled", "invalid regex"}
LimitVerdicts == {"steps", "depth", "items", "string", "value", "total", "work"}
ErrorVerdicts == {"unresolved", "unknown variable", "no member", "handler", "type",
                  "unknown set", "regex missing", "division by zero", "overflow",
                  "not finite"}

\* Every value the evaluation holds, operand, local or result, and all the work
\* of handlers was paid for: both are within the processed bytes, and these
\* within max_total_value_bytes.  A pattern-set method pays for all it may
\* compare, and never compares more.
HeldBy(calls) == SumOf([k \in DOMAIN calls |-> Bytes(calls[k].vals)])
Held == HeldBy(frames) + HeldBy(locals) + result.bytes
HeldIsPaid == Held + history.worked <= processed /\ processed <= limits.total

\* What the analysis promises of an accepted program bounds its evaluation: the
\* steps are within the nodes it counted, the cost of what is dispatched, by the
\* metadata of the registry, within its static bound, and the calls of eval
\* under way within the call depth, however often a parameter is used and
\* whatever functions call each other.
StaticBounds ==
  verified # NoProgram =>
    /\ steps <= verified.nodes /\ verified.nodes <= profile.nodes
    /\ history.spent <= verified.cost /\ verified.cost <= profile.cost
    /\ Len(frames) <= DepthLimit + 1

\* The calls of eval that are evaluating the body of an expression function.
Bound(fs) == {k \in DOMAIN fs : fs[k].bound}

\* The locals are those of the expression functions whose bodies are being
\* evaluated, in order; an argument is evaluated before its frame is pushed,
\* and no frame outlives the call, whether it returns or fails.
Follow(ls, fs) ==
  \E at \in [DOMAIN ls -> Bound(fs)] :
    /\ \A j, k \in DOMAIN ls : j < k => at[j] < at[k]
    /\ \A b \in Bound(fs) : \E k \in DOMAIN ls : at[k] = b
    /\ \A k \in DOMAIN ls : ls[k].node = fs[at[k]].node
LocalsFollowCalls == Follow(locals, frames)

\* Every handler that runs is the one whose metadata the analysis saw, however
\* often its name was registered, and may run in this phase and profile.
DispatchVerified ==
  \A d \in history.dispatched :
    /\ d[1] \in DOMAIN verified.required /\ verified.required[d[1]] = d[2]
    /\ Available(d[2].phases)
    /\ profile.deterministic => d[2].deterministic /\ d[2].pure

\* Evaluation reads no more of the bodies than the analysis announced and the
\* profile allows: nothing under MitigationField, nothing of the request's body
\* in stream phase, unless a rule of the schema allows a size.  Parameters and
\* members pass bodies on through any number of calls.
ReadsAdmitted ==
  \A r \in history.read :
    /\ r[2] <= verified.need[r[1]] /\ r[2] <= profile.body[r[1]]
    /\ profile.id = "MitigationField" => r[2] = 1
    /\ \/ \E p \in DOMAIN schema.paths : schema.paths[p] = r
       \/ profile.id # "MitigationField" /\ ~(r[1] = "Request" /\ ActivePhase("Stream"))

\* The stack of locals, searched from its innermost frame, finds for a name what
\* the analysis read off the tree: the argument of the nearest call that has
\* the parameter and whose body is being evaluated, whatever calls of other
\* functions and arguments still under way lie between; else no local at all.
Source(name) ==
  IF Bindings(name) = {} THEN 0
  ELSE LET call == locals[Found(name)].node
       IN  program.kids[call][IndexIn(program.params[call], name)]
ScopesAgree ==
  Ready /\ Kind = "identifier" => Source(program.name[Node]) = Binder(program.name[Node])[Node]

\* The context is asked for no variable but those the schema has or the options
\* allow, in their phases, whichever parameters hide or no longer hide them.
LookupsAdmitted ==
  \A name \in history.looked :
    /\ VariableAvailable(name)
    /\ name \in DOMAIN schema.variables \/ "variable" \in request.allowed

\* Names mean at run time what the analysis took them to mean: the locals are
\* those of the calls under way, the innermost that has a name is the one the
\* tree binds it to, and what is no local is an admitted variable.
NamesResolve == LocalsFollowCalls /\ ScopesAgree /\ LookupsAdmitted

\* A handler whose regex argument is declared finds the pattern it is called
\* with compiled, under the policy that demands literals.
Declared ==
  \A k \in DOMAIN context.registry :
    LET entry == context.registry[k]
    IN  entry.handler.does = "matches" =>
          <<0, entry.handler.flavor>> \in ToSet(entry.meta.regex)
RegexesFound == profile.regex = "literal" /\ Declared => verdict # "regex missing"

\* Of any two numbers a binary operator is reached with, comparisons agree with
\* each other, with equality and with the numbers, and the results of integer
\* arithmetic belong together and stay in range.
NumbersConsistent ==
  Ready /\ Kind = "binary" /\ BothNumbers(Vals[1], Vals[2]) =>
    /\ OrderSound(Vals[1], Vals[2])
    /\ {Vals[1].ty, Vals[2].ty} = {"int"} => DivisionSound(Vals[1], Vals[2])

\* Evaluation computes what the tree means: the value, the steps and the bytes
\* are those of the nodes it reaches, and only a program that has no meaning
\* ends in an error that is not a limit's.
ResultExact ==
  /\ verdict = "done" =>
       /\ result = Meaning[1] /\ result # Failure
       /\ steps = Cardinality(Reached)
       /\ processed = SumOf([i \in Nodes |-> IF i \in Reached THEN Charge(i) ELSE 0])
  /\ verdict \in ErrorVerdicts => Meaning[1] = Failure

\* A request is answered.
Answered == stage = "ended"
Terminates == <>Answered
=============================================================================
