------------------------- MODULE EvaluatorInvariants -------------------------
(***************************************************************************)
(* The inductive invariants that EvaluatorProofs proves of Evaluator, and  *)
(* the terms in which its lemmas speak of sequences of calls, of values    *)
(* held and of meanings.  Where a term is about two states, or one it is   *)
(* given, it takes the parts of a state as its arguments.                  *)
(***************************************************************************)
EXTENDS Evaluator

-----------------------------------------------------------------------------
\* Sequences without a type for their elements.

Elements(s) == {s[k] : k \in DOMAIN s}
Listed(s) == s \in Seq(Elements(s))

-----------------------------------------------------------------------------
\* The calls under way.

CallsFunction(i) == program.kind[i] = "expression function"
Dispatches(i) == program.kind[i] \in Dispatching

\* A call binds locals only for an expression function, and dispatches only
\* with a ticket.
Called(f) ==
  /\ f = [node |-> f.node, vals |-> f.vals, bound |-> f.bound]
  /\ f.bound \in BOOLEAN
  /\ f.bound => CallsFunction(f.node)
  /\ Dispatches(f.node) => f.node \in verified.tickets
AllCalled(fs) == Listed(fs) /\ \A k \in DOMAIN fs : Called(fs[k])

FramesInv == Listed(locals) /\ AllCalled(frames) /\ LocalsFollowCalls

\* Nothing is called before the program runs.
EarlyInv == stage \in {"preparing", "analyzing", "verifying"} => frames = <<>> /\ locals = <<>>

-----------------------------------------------------------------------------
\* Actions that conclude a call.

CallsInv == FramesInv /\ EarlyInv

(* The actions that conclude a call.                                       *)
Conclusion ==
  \/ ReturnLiteral \/ ReturnIdentifier \/ ReturnArray \/ ReturnMember
  \/ ReturnCall \/ ReturnOperator \/ ReturnLogical

-----------------------------------------------------------------------------
\* What is dispatched to.

Permitted(meta) ==
  /\ Available(meta.phases)
  /\ profile.deterministic => meta.deterministic /\ meta.pure

\* What the verified program says of the tickets it holds.
Sound(v) ==
  /\ \A i \in v.tickets : Ticket(i) \in DOMAIN v.required
  /\ \A t \in DOMAIN v.required : Permitted(v.required[t])

History(h) ==
  h = [spent |-> h.spent, worked |-> h.worked, read |-> h.read, looked |-> h.looked,
       dispatched |-> h.dispatched]

DispatchInv ==
  /\ CallsInv
  /\ Sound(verified) /\ History(history)
  /\ Running => Verified
  /\ stage \in {"preparing", "analyzing", "verifying"} => history.dispatched = {}
  /\ DispatchVerified

-----------------------------------------------------------------------------
\* Sums of sequences of numbers.

\* f is the function of the sums of the first elements of s.
SumsUpTo(f, s, n) == f[0] = 0 /\ \A k \in 1 .. n : f[k] = f[k - 1] + s[k]
Sums(f, s) == f \in [0 .. Len(s) -> Nat] /\ SumsUpTo(f, s, Len(s))

-----------------------------------------------------------------------------
\* What a step does to the calls under way.

\* fs returns v to the call below its last one.
Answers(fs, gs, v) ==
  /\ Listed(gs) /\ Len(gs) = Len(fs) - 1
  /\ \A k \in 1 .. Len(fs) - 2 : gs[k] = fs[k]
  /\ Len(fs) > 1 =>
       gs[Len(fs) - 1] = [node |-> fs[Len(fs) - 1].node,
                          vals |-> Append(fs[Len(fs) - 1].vals, v),
                          bound |-> fs[Len(fs) - 1].bound]

\* The last call of fs has bound its arguments.
Binds(fs, gs) ==
  /\ Listed(gs) /\ Len(gs) = Len(fs)
  /\ \A k \in 1 .. Len(fs) - 1 : gs[k] = fs[k]
  /\ gs[Len(fs)] = [node |-> fs[Len(fs)].node, vals |-> <<>>, bound |-> TRUE]

-----------------------------------------------------------------------------
\* The path of calls through the program.

FunctionNode(p, i) == p.kind[i] = "expression function"
ArgumentsOf(p, i) == Len(p.kids[i]) - (IF FunctionNode(p, i) THEN 1 ELSE 0)

\* A call holds values of the first operands of its node; one that has bound
\* its arguments, at most the value of the body.
Placed(p, f) ==
  /\ f.node \in DOMAIN p.kind /\ Listed(f.vals) /\ f.bound \in BOOLEAN
  /\ IF f.bound THEN FunctionNode(p, f.node) /\ Len(f.vals) <= 1
     ELSE Len(f.vals) <= ArgumentsOf(p, f.node)

\* A call that has operands left, and the first of them.
Awaits(p, f) ==
  IF f.bound THEN Len(f.vals) = 0 ELSE Len(f.vals) < ArgumentsOf(p, f.node)
Position(p, f) == (IF f.bound THEN Len(p.kids[f.node]) ELSE 1) + Len(f.vals)
Awaited(p, f) == p.kids[f.node][Position(p, f)]

\* Each call evaluates an operand of the one below it.
PathOf(p, fs) ==
  /\ Listed(fs) /\ \A k \in DOMAIN fs : Placed(p, fs[k])
  /\ fs # <<>> => fs[1].node = 1
  /\ \A k \in DOMAIN fs : k # Len(fs) =>
       Awaits(p, fs[k]) /\ fs[k + 1].node = Awaited(p, fs[k])

\* i is what the calls fs evaluate next.
Following(p, fs, i) ==
  IF fs = <<>> THEN i = 1
  ELSE Awaits(p, fs[Len(fs)]) /\ i = Awaited(p, fs[Len(fs)])

\* Each call evaluates an operand of the one below it, by the program.
PathInv == request \in Requests /\ CallsInv /\ PathOf(program, frames)

-----------------------------------------------------------------------------
\* How far an evaluation has come.

\* x is within the sum of the first numbers of c.
Within(c, x, last) == x \in Nat /\ \A f : Sums(f, c) => x <= f[last]

\* The calls fs are of nodes up to last, in order, and all that they have still
\* to evaluate comes after it.
Left(p, fs, k, q) ==
  /\ q \in DOMAIN p.kids[fs[k].node]
  /\ IF k = Len(fs) THEN Position(p, fs[k]) <= q ELSE Position(p, fs[k]) < q
Ahead(p, fs, last) ==
  /\ \A k \in DOMAIN fs : fs[k].node <= last
  /\ \A k, l \in DOMAIN fs : k < l => fs[k].node < fs[l].node
  /\ \A k \in DOMAIN fs : \A q : Left(p, fs, k, q) => last < p.kids[fs[k].node][q]

-----------------------------------------------------------------------------
\* Depths: an operand lies deeper than its node, and none below max.
Depths(p, d, max) ==
  \A i \in DOMAIN p.kind :
    /\ d[i] \in Nat /\ d[i] <= max
    /\ \A k \in DOMAIN p.kids[i] : d[i] < d[p.kids[i][k]]

\* f are the depths of n nodes, of which each adds its e to its parent's.
AddsUp(f, n, e, up) ==
  /\ f \in [1 .. n -> Nat]
  /\ \A i \in 1 .. n : f[i] = e[i] + (IF i = 1 THEN 0 ELSE f[up[i]] + 1)

-----------------------------------------------------------------------------
\* What the analysis announces.

CostIn(v, i) == IF i \in v.tickets THEN v.required[Ticket(i)].cost ELSE 1

\* c and e are the costs and the numbers of nodes that v sums up, each at least
\* what the evaluation of a node takes; and the program is not too deep.
Announces(v, c, e) ==
  /\ c \in Seq(Nat) /\ Len(c) = Len(program.kind) /\ SumOf(c) = v.cost
  /\ e \in Seq(Nat) /\ Len(e) = Len(program.kind) /\ SumOf(e) = v.nodes
  /\ \A i \in Nodes : CostIn(v, i) \in Nat /\ CostIn(v, i) <= c[i] /\ 1 <= e[i]
  /\ v.nodes <= profile.nodes /\ v.cost <= profile.cost
  /\ \E d : Depths(program, d, DepthLimit)

\* An evaluation in the stage st has made its steps within the nodes, and spent
\* within the costs, of some first nodes; what is left comes after these.
WalkedTo(p, fs, st, n, spent, c, e) ==
  \E last \in 0 .. Len(p.kind) :
    /\ Within(e, n, last) /\ Within(c, spent, last)
    /\ Ahead(p, fs, last)
    /\ st # "ended" /\ fs = <<>> => last = 0

Walked(c, e) == WalkedTo(program, frames, stage, steps, history.spent, c, e)

Early == stage \in {"preparing", "analyzing", "verifying"}
StaticInv ==
  /\ DispatchInv /\ PathInv
  /\ Early => steps = 0 /\ history.spent = 0
  /\ \/ verified = NoProgram /\ stage \notin {"verifying", "running"}
     \/ \E c, e : Announces(verified, c, e) /\ Walked(c, e)

-----------------------------------------------------------------------------
\* The calls hold values of S.
Holding(calls, S) == Listed(calls) /\ \A k \in DOMAIN calls : calls[k].vals \in Seq(S)

-----------------------------------------------------------------------------
\* What calls pay for.

\* S can be extended by v.
Extends(S, v) == \E T : HoldsParts(T) /\ S \subseteq T /\ v \in T

\* A call does no more work than it charges, and makes its value, when its
\* checks hold, from values of S.
Paid(call, S) ==
  /\ Listed(call.before) /\ Listed(call.after)
  /\ call.work \in Nat /\ call.done \in Nat /\ call.done <= call.work
  /\ AllHold(call.before) /\ AllHold(call.after) => Extends(S, call.value)

-----------------------------------------------------------------------------
\* What handlers are given.

\* A sequence of texts.
Texts(t) == Listed(t) /\ \A k \in DOMAIN t : Listed(t[k])

\* The handler is one that can be called with so many arguments.
Callable(handler, n) ==
  /\ handler.does \in HandlerNames /\ handler.work \in Nat
  /\ Reads(handler.does) => n >= 1
  /\ handler.does \in {"containsAny", "matches"} => n >= 2

-----------------------------------------------------------------------------
\* What a conclusion charges.
BuiltinNames == Arithmetic \cup Comparison \cup {"==", "!="}

\* What a conclusion charges, in a run that succeeds or fails.
Charges(made) ==
  \/ /\ Return(made.value) /\ UNCHANGED <<inputs, locals>>
     /\ AllHold(made.before) /\ AllHold(made.after)
     /\ processed' = processed + made.work + made.value.bytes /\ processed' <= limits.total
     /\ history'.worked = history.worked + made.done
  \/ /\ \E reason : Stop(reason)
     /\ \/ processed' = processed /\ history'.worked = history.worked + 0
        \/ /\ processed' = processed + made.work /\ processed' <= limits.total
           /\ history'.worked = history.worked + made.done

-----------------------------------------------------------------------------
\* What locals are found by.

\* The calls of expression functions have an argument for each parameter, and
\* their locals a value for each.
Arities(p, fs) ==
  \A k \in DOMAIN fs :
    FunctionNode(p, fs[k].node) => Len(p.params[fs[k].node]) + 1 = Len(p.kids[fs[k].node])
Scoped(p, ls) ==
  \A k \in DOMAIN ls :
    ls[k].node \in DOMAIN p.kind /\ Len(ls[k].vals) = Len(p.params[ls[k].node])
ScopeInv == PathInv /\ Arities(program, frames) /\ Scoped(program, locals)

-----------------------------------------------------------------------------
\* Every conclusion is paid for.

\* All values that are held are in S.
Owned(S) == HoldsParts(S) /\ HostValues \subseteq S /\ Holding(frames, S) /\ Holding(locals, S)

\* The pattern sets hold texts.
SetsFit(ps) == \A name \in DOMAIN ps : Texts(ps[name])

\* The call that the last call of eval concludes with.
Makes(made) ==
  \/ Kind = "literal" /\ made = Given(TRUE, "", program.literal[Node])
  \/ /\ Kind = "identifier" /\ Bindings(program.name[Node]) # {}
     /\ made = Given(TRUE, "", LocalValue(program.name[Node]))
  \/ /\ Kind = "identifier" /\ Bindings(program.name[Node]) = {}
     /\ made = Given(program.name[Node] \in DOMAIN context.variables, "unknown variable",
                     context.variables[program.name[Node]])
  \/ Kind = "array" /\ made = Given(TRUE, "", List(Vals))
  \/ Kind = "member" /\ made = MemberCall(Vals[1], program.name[Node])
  \/ Kind \in {"function", "method"} /\ made = Handled(Ticket(Node), Vals)
  \/ Kind \in {"unary", "binary"} /\ made = OperatorCall(Ticket(Node), Vals)
  \/ IsLogical /\ made = Simple(Vals[Len(Vals)].ty = "bool", Vals[Len(Vals)])

-----------------------------------------------------------------------------
\* What is held and what was worked is within what was charged.

\* Calls fs, locals ls and the result r hold values of S, all paid for.
Solvent(fs, ls, r, st, worked, paid, total, S) ==
  /\ HoldsParts(S) /\ HostValues \subseteq S /\ Holding(fs, S) /\ Holding(ls, S)
  /\ r.bytes \in Nat /\ (st # "ended" => r.bytes = 0)
  /\ worked \in Nat /\ paid \in Nat /\ total \in Nat
  /\ HeldBy(fs) + HeldBy(ls) + r.bytes + worked <= paid /\ paid <= total

PaidInv ==
  /\ DispatchInv /\ ScopeInv /\ SetsFit(sets)
  /\ \E S : Solvent(frames, locals, result, stage, history.worked, processed, limits.total, S)

\* The next values of what Solvent relates, all of the request unchanged.
SolventNext ==
  /\ SetsFit(sets')
  /\ \E S : Solvent(frames', locals', result', stage', history'.worked, processed',
                    limits.total, S)

-----------------------------------------------------------------------------
\* Why a request ends.

\* A check of this reason fails.
Blames(checks, reason) == \E k \in DOMAIN checks : ~checks[k][1] /\ checks[k][2] = reason

\* The reasons for which calls fail, but for the want of a compiled regex.
CallReasons ==
  {"", "unknown variable", "no member", "type", "overflow", "division by zero", "not finite",
   "string", "handler", "unknown set"}
Missing == "regex missing"

\* A call that does not fail for this cause.
Silent(made, cause) == ~Blames(made.before, cause) /\ ~Blames(made.after, cause)

\* Flattened up to m.
Longer(f, seqs, i) == IF i = 1 THEN seqs[i] ELSE f[i - 1] \o seqs[i]
Flattens(f, seqs, m) == f = [i \in 1 .. m |-> Longer(f, seqs, i)]

\* Under the policy that demands literals, what the analysis found compiled: the
\* pattern of every method that declares its only argument a regex.
PatternOf(i) == program.kids[i][2]
Compiled(v) ==
  profile.regex = "literal" =>
    \A i \in v.tickets : program.kind[i] = "method" /\ Len(program.kids[i]) = 2 =>
      \A a \in ToSet(v.required[Ticket(i)].regex) : a[1] = 0 =>
        /\ program.kind[PatternOf(i)] = "literal"
        /\ <<a[2], program.literal[PatternOf(i)].payload>> \in v.cache

-----------------------------------------------------------------------------
\* What the operands that are literals evaluate to.

\* Calls hold the literals of the operands that are such.
Literals(p, f) ==
  ~FunctionNode(p, f.node) =>
    \A j \in DOMAIN f.vals :
      p.kind[p.kids[f.node][j]] = "literal" => f.vals[j] = p.literal[p.kids[f.node][j]]
LiteralsHeld(p, fs) == \A k \in DOMAIN fs : Literals(p, fs[k])

\* What is known of a ready node, under the policy that demands literals.
RegexFacts ==
  /\ DispatchInv /\ ScopeInv /\ LiteralsHeld(program, frames) /\ Compiled(verified)
  /\ profile.regex = "literal" /\ Declared

-----------------------------------------------------------------------------
\* The policy that demands literals compiles every pattern that is looked up.

RegexInv ==
  /\ PaidInv
  /\ LiteralsHeld(program, frames) /\ Compiled(verified)
  /\ RegexesFound

-----------------------------------------------------------------------------
\* Functions over the nodes of a tree.

\* f is base at the root; elsewhere, what step makes of it further up.
PassesDown(f, n, V, base, up, step) ==
  /\ f \in [1 .. n -> V]
  /\ \A i \in 1 .. n : f[i] = IF i = 1 THEN base ELSE step[i][f[up[i]]]
\* f is where a chain of nodes ends.
PassesUp(f, n, next) ==
  /\ f \in [1 .. n -> Nat]
  /\ \A i \in 1 .. n : f[i] >= i /\ f[i] = IF next[i] = i THEN i ELSE f[next[i]]

\* The argument that a call i of an expression function has for a name.
ArgumentNode(i, name) == program.kids[i][IndexIn(program.params[i], name)]
\* Whether a node is the body in which a name stands for an argument.
BindsAt(i, name) == IsBody(i) /\ name \in ToSet(program.params[Parent(i)])

\* The last node of what lies under each node.
Ends(e) ==
  \A i \in Nodes : /\ e[i] \in Nat /\ e[i] >= i
                   /\ e[i] = IF program.kids[i] = <<>> THEN i ELSE e[Body(i)]

\* The nodes whose meaning that of i is made of.
DependsOn(i, X) ==
  /\ \A k \in DOMAIN program.kids[i] : program.kids[i][k] \in X
  /\ program.kind[i] = "identifier" /\ ~IsVariable(i) => Binder(program.name[i])[i] \in X

\* f is right about the nodes of X, none of which depends on another node.
Settles(f, X) ==
  /\ X \subseteq Nodes /\ \E V : f \in [Nodes -> V]
  /\ \A i \in X : DependsOn(i, X) /\ f[i] = MeaningAt(f, i)

-----------------------------------------------------------------------------
\* What the locals find and what the tree binds.

\* Call m evaluates the body of a function that has such a parameter.
Carries(fs, m, name) == fs[m].bound /\ name \in ToSet(program.params[fs[m].node])

\* What a name stands for in call k: an argument of call m, the last before k
\* to bind the name, or nothing.
BoundIn(fs, k, name, m) ==
  /\ m \in 1 .. k - 1 /\ Carries(fs, m, name)
  /\ \A l \in m + 1 .. k - 1 : ~Carries(fs, l, name)
  /\ Binder(name)[fs[k].node] = ArgumentNode(fs[m].node, name)
Free(fs, k, name) ==
  /\ \A l \in 1 .. k - 1 : ~Carries(fs, l, name)
  /\ Binder(name)[fs[k].node] = 0

-----------------------------------------------------------------------------
\* What is looked up.

NoVariableProblem == \A i \in Nodes : ~VariableProblem(i)
LookupsInv ==
  /\ PathInv /\ DispatchInv /\ LookupsAdmitted
  /\ stage \in {"verifying", "running"} => NoVariableProblem

-----------------------------------------------------------------------------
\* What the calls under way hold is what the operands mean.

\* The operand whose value is the l-th that a call holds.
OperandAt(p, f, l) ==
  p.kids[f.node][(IF f.bound THEN Len(p.kids[f.node]) ELSE 1) + l - 1]
Means(p, M, f) ==
  /\ \A l \in DOMAIN f.vals : f.vals[l] = M[OperandAt(p, f, l)]
  /\ f.bound => \A l \in 1 .. Len(p.kids[f.node]) - 1 : M[p.kids[f.node][l]] # Failure

\* The right operand of && or || is evaluated only where the left one says so.
GoesOn(p, f) ==
  p.kind[f.node] \in {"and", "or"} => f.vals[1] = Bool(p.kind[f.node] = "and")
AllMean(p, M, fs) ==
  \A k \in DOMAIN fs :
    /\ Means(p, M, fs[k])
    /\ Len(fs[k].vals) >= 1 /\ (k # Len(fs) \/ Len(fs[k].vals) >= 2) => GoesOn(p, fs[k])

\* The locals are what the arguments mean.
LocalsMean(p, M, ls) ==
  \A k \in DOMAIN ls : \A l \in DOMAIN ls[k].vals : ls[k].vals[l] = M[p.kids[ls[k].node][l]]

\* M is what the program means.
IsMeaning(M) == \A i \in Nodes : M[i] = MeaningAt(M, i)

-----------------------------------------------------------------------------
\* A node concludes with what it means.

\* What made gives is v, or v is a failure.
Gives(made, v) == v = IF AllHold(made.before) /\ AllHold(made.after) THEN made.value ELSE Failure

-----------------------------------------------------------------------------
\* What an evaluation answers.

\* The answer, or that there is none, is right by meaning M.
AnswersRight(M) ==
  /\ verdict = "done" => result = M[1] /\ result # Failure
  /\ verdict \in ErrorVerdicts => M[1] = Failure

MeaningInv ==
  /\ PaidInv
  /\ stage # "ended" => verdict = "none"
  /\ stage \in {"verifying", "running"} => Operations \subseteq verified.tickets
  /\ AllMean(program, Meaning, frames) /\ LocalsMean(program, Meaning, locals)
  /\ AnswersRight(Meaning)

\* What a step leaves of MeaningInv to be shown, by the meaning before it.
MeaningNext ==
  /\ UNCHANGED inputs
  /\ stage' # "ended" => stage' = stage /\ verdict' = "none"
  /\ AllMean(program, Meaning, frames') /\ LocalsMean(program, Meaning, locals')
  /\ AnswersRight(Meaning)'

-----------------------------------------------------------------------------
\* Counting what an evaluation visits.

\* What the nodes of X add, by C.
Tally(p, C, X) == SumOf([i \in DOMAIN p.kind |-> IF i \in X THEN C[i] ELSE 0])

\* Whether evaluation goes on from its parent to node i, by meaning M.
ReachedFrom(i, M) ==
  LET j == Parent(i)
      left == program.kids[j][1]
  IN  program.kind[j] \in {"and", "or"} /\ i # left => M[left] = Bool(program.kind[j] = "and")

\* The nodes of E have been begun and those of D are done, of the nodes R that
\* are to be visited: what is begun and not done is under way, the operands
\* before the position of a call have been begun, and all there are to visit
\* of a node that is done.
Covers(p, fs, R, E, D) ==
  /\ D \subseteq E /\ E \subseteq R
  /\ \A i \in E : i \in D \/ \E k \in DOMAIN fs : i = fs[k].node
  /\ \A k \in DOMAIN fs :
       /\ fs[k].node \in E /\ fs[k].node \notin D
       /\ \A q \in DOMAIN p.kids[fs[k].node] :
            q < Position(p, fs[k]) => p.kids[fs[k].node][q] \in E
  /\ \A i \in D : \A q \in DOMAIN p.kids[i] : p.kids[i][q] \in R => p.kids[i][q] \in E

\* n nodes have been begun and those that are done, of the nodes R that are to
\* be visited, add up to b, by the costs C; the next comes after last.
CountedTo(p, fs, R, C, n, b, last) ==
  \E E, D : /\ E \subseteq 1 .. last /\ Covers(p, fs, R, E, D)
            /\ n = Cardinality(E) /\ b = Tally(p, C, D) /\ \A i \in D : C[i] \in Nat
Counted(p, fs, R, C, n, b) ==
  \E last \in 0 .. Len(p.kind) :
    Ahead(p, fs, last) /\ (fs = <<>> => last = 0) /\ CountedTo(p, fs, R, C, n, b, last)

\* All that is to be visited of the last call's operands has been.
Finished(p, fs, R) ==
  LET top == fs[Len(fs)]
  IN  \A q \in DOMAIN p.kids[top.node] : p.kids[top.node][q] \in R => q < Position(p, top)

\* What each node costs.
Costs == [i \in Nodes |-> Charge(i)]

\* The steps and the bytes of an answer are those of the nodes X, by the costs C.
CountsRight(X, C) ==
  verdict = "done" => steps = Cardinality(X) /\ processed = Tally(program, C, X)

CountInv ==
  /\ MeaningInv
  /\ Early => steps = 0 /\ processed = 0
  /\ Running => Counted(program, frames, Reached, Costs, steps, processed)
  /\ CountsRight(Reached, Costs)

\* What a step leaves of CountInv to be shown, by the nodes reached before it.
CountNext ==
  /\ UNCHANGED inputs
  /\ stage' \in {"running", "ended"}
  /\ Running' => Counted(program, frames', Reached, Costs, steps', processed')
  /\ CountsRight(Reached, Costs)'
=============================================================================
