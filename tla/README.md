# A formal model of online-dsl-forge

online-dsl-forge is an embeddable expression language: a host declares what
programs may use, the library parses and analyzes untrusted source text against
that declaration, and evaluates the verified result under resource limits. The
implementation is `src/source/src/`, a pure library: no threads, no asynchrony,
nothing persisted. What is hard in it is something else.

- **Explicit stacks in place of recursion.** Walks over values, JSON, trees and
  call graphs run on hand-written work lists with markers, because untrusted
  graphs must not consume the native stack. Each has a protocol between pushes
  and pops.
- **Limits that are decided before the work they limit.** Nodes, bytes, depth,
  regexes and diagnostics are charged in advance, from lower bounds; a charge
  that is too low admits too much, one that is too high refuses good input.
- **Two passes that must agree.** The lowering preflight counts what the
  analysis later charges; the formatter writes what the parser must read back;
  the runtime takes from a cache what the analysis promised to put there.
- **Failing closed.** Builder calls return no errors. A refusal must survive
  bounded diagnostics, changes of the limits and serialization.

This directory holds TLA+ modules for these parts, TLC configurations that check
them on small instances, and TLAPS proofs of the results that hold for every
value of the constants.

## 1. The system

Source is text for `parser/`, which gives an `Expression`; `sema/` analyzes it
over a `RuntimeSchema` and gives a `VerifiedProgram`; `runtime/` evaluates that
over a `RuntimeContext`. `value*` moves data in and out of JSON. The rulepack
renderer and the command line are clients of these.

| Component | Code | State | Operations | What makes it correct |
|---|---|---|---|---|
| Value graph admission | `runtime.rs` `validate_value`, `reserve_value_children` | stack of pending nodes with depths, `ValueMetrics` | visit, reserve children, reject | the verdict is the one a look at the whole graph would give; the work list is bounded too |
| JSON and value conversion | `value.rs`, `value/to_json.rs` | work stack with Finish markers, value stack, pending counter, meter | convert, schedule, finish, reject with drain | the same shape comes out; early rejection is exact; no container of a rejected input is left to a recursive destructor |
| Regex admission | `sema/analyzer/regex.rs` | attempts per flavor and pattern, counters, flags, cache | meet an argument, reuse, compile, refuse | the compiler's work is bounded in advance; a clean analysis leaves no pattern uncompiled |
| Function registration | `sema/schema.rs`, `sema/schema/*` | functions in two scopes, signatures, limits, bounded diagnostics | register, replace, reject, change limits, serialize | a refusal is never forgotten, no function is lost |
| Function graph validation | `sema/analyzer/functions.rs` | adjacency, DFS stack with exit entries, active and permanent sets | resolve, visit, exit | rejects recursion exactly |
| Lowering of expression functions | `sema/analyzer.rs`, `sema/analyzer/{functions,limits}.rs` | active functions, binding frames, local frames, meters | walk, expand, charge, leave | the preflight covers the analysis; parameters mean what they mean where they are written |
| Evaluator and dispatch | `runtime/evaluator.rs`, `runtime/capability_check.rs`, `runtime/context.rs` | recursion of `eval`, locals, steps, processed bytes | evaluate a node, dispatch, charge | the value the tree means, within what the analysis announced; all held memory is paid for; only verified handlers run |
| Lexer and parser | `parser/lexer.rs`, `parser/parse.rs` | token position, nesting, node count, depth | the precedence ladder, chains, lists, limits | reads exactly the grammar within the limits |
| Preflight, validation, formatter | `parser/{format,preflight,validation}.rs` | task stack, output | schedule, write | canonical text reads back as the same tree |
| Capability, phase and body-need analysis | `sema/analyzer.rs`, `sema/analyzer/{body_need,phase,support,regex}.rs`, `sema/{dialect,profile}.rs` | summaries merged bottom up, required capabilities, compiled regexes | analyze | nothing the evaluation uses is missing from the summary |
| Operators and numbers | `runtime/operators.rs` | none | checked arithmetic, comparison | no wrap-around; comparisons agree with equality and each other |
| Regexes at run time | `runtime/context.rs`, `sema/verified.rs` | reads the cache | lookup, match | never misses what the analysis compiled |
| Default functions, JSON bindings, pattern sets | `runtime/{defaults,json,pattern_sets}.rs` | compiled sets | admit sets, match | what a match compares was charged before it, wherever it stops |
| Rulepack rendering | `rulepack_render/` | `RenderMeter` (input, selector, render, output, placeholders), the decoded document, rules under edit, resolved variables | admit, resolve, substitute, check and apply overrides, work the options in, check again, write, load files | a request gets the manifest its overrides, texts and options amount to; what was checked applies; work is paid for before it is done |
| Command line | `bin/` | none | read, call, print | - |
| Version tooling, fuzz drivers | `src/devops/`, `src/fuzz/` | none | - | - |

The table of hazards, each at the line where it bites, is the list `hazards` of
`PROJECT.json`, with the properties that cover it.

The components interact by synchronous calls that hand over owned data. Three
of these hand-overs carry a promise from one component to another and are where
the models meet: the schema's diagnostics read back by the analysis
(`SchemaRegistry`), the function graph that makes later expansion terminate
(`FunctionGraph`, relied on by `FunctionLowering`), and what the analysis leaves
for the evaluator: tickets and capability metadata, compiled regexes, and the
bounds it announces (`Analysis` and `Evaluator`, which are checked as one).

## 2. The modules

| Module | Models | Checked by |
|---|---|---|
| `Checks` | a routine that makes checks in order and returns at the first failure | used by others |
| `ValueTrees`, `ValueTreeInputs` | value graphs as trees, what a set of their nodes weighs and which limits they overrun; all trees up to a size | used by others |
| `GraphAdmission` | the abstract promise of any admission: one verdict about the whole graph | refined by the next two |
| `ValueTraversal` | `validate_value` | `value_traversal` |
| `GraphConversion` | both converters between JSON and values | `graph_conversion` |
| `RegexAdmission` | regex arguments of one analysis | `regex_admission` |
| `SchemaRegistry` | registration of expression functions | `schema_registry` |
| `FunctionGraph` | `validate_function_cycles` | `function_graph` |
| `FunctionLowering` | the dry run and the analysis walk | `function_lowering`, `argument_scope` |
| `Operators` | values of the run time, built-in operators, numbers of bounded width | through `Evaluator` |
| `Handlers` | default functions and methods, pattern sets, the calls of the handler's context | through `Evaluator` |
| `Analysis` | `Analyzer::analyze` on a lowered program: what is refused, what is announced | through `Evaluator` |
| `Evaluator` | pattern sets compiled, program analyzed, capabilities verified, program evaluated | `evaluator` |
| `Parser` | lexer and parser, and the grammar they are compared with | through `Formatter` |
| `Formatter` | preflight, validation, formatter; two passes of parse and format | `canonical_text`, `source_limit` |
| `Templates` | `template.rs`: texts with markers | through `RulepackRender` |
| `RulepackDocuments` | manifests, rules, overrides and exceptions, and the checks that only read them | through `RulepackRender` |
| `Overrides` | `apply_overrides`: the check over all rules, the projection, the application rule by rule | through `RulepackRender` |
| `RulepackOutcome` | the abstract promise: one answer to a request, and again after installation | refined by the next |
| `RulepackRender` | `ParsedRulepack::parse` and `render_rulepack_bundle`, with the meter | `rulepack_render`, `override_templates` |
| `*Proofs` | theorems of the module they are named for | - |
| `EvaluatorInvariants` | the inductive invariants of `EvaluatorProofs` and the terms of its lemmas | - |
| `ValueTreeLemmas` | lemmas about trees and lists that the proofs of both traversals rest on | - |

How state and actions correspond to the code:

- **ValueTrees, GraphAdmission.** A tree is a record of functions over its node
  numbers; `level` is the depth of a node and is fixed by `IsTree`, so that no
  definition recurs over a tree. What nodes weigh is a count: `PlacesIn` are the
  places in containers, one item each, and `BytesIn` the bytes charged, so that
  the weight of a part and of the whole are cardinalities of a set and of a
  larger one. `GraphAdmission` takes the limits a graph is over as a parameter,
  since the conversions have none on a single string (`Refusals`).
- **Checks.** `AllHold` and `FirstFailure` of a sequence of checks with their
  reasons stand for code that makes checks in order and returns at the first
  that fails.
- **ValueTraversal.** `pending` is the code's `Vec`, its top last; `metrics` is
  `ValueMetrics`. One action is one turn of the loop: the header checks
  (`nodes`, `bytes`, `depth`) come first, then those of the kind. A container
  is rejected in `ReserveChecks` before its children are scheduled, from the
  bound "one node and one byte each for everything scheduled". Object keys and
  string payloads are the number `text` of the tree; `bad` is a float that is
  not finite. The depth ceiling of the code is the constant `DepthCeiling`.
- **GraphConversion.** The JSON-to-value and value-to-JSON converters are the
  same machine and are modelled once. `pendingValues` is the counter the code
  keeps beside its stack; `drained` records which leaves `reject` hands to the
  iterative drain, and a finished value keeps the leaves it was made from, so that
  `Owned` is a union over the two stacks, as the code's `reject` walks them.
  `Current` is `self.current`: it holds the value in hand until its node is
  counted, and a container again when it is refused after that. A leaf never is
  put back, so a number that cannot be converted and a string over the limit are
  dropped in place. On an underflow of the counter `value.rs` returns without
  `reject` and `to_json.rs` by it; `Reject` allows both. `Image` is the
  reference: what each node of the input is to become. `From<Value>` converts
  under the default limits and gives `Null` for what is rejected
  (`to_json.rs:231`): one of the calls modelled here and a match on its answer.
- **RegexAdmission.** One step is one regex argument met, in any order and any
  repetition, up to `MaxArgs`. `attempts`, `cache`, `literals` and the two
  flags are fields of the analyzer; `BadRegexes` stands for what the regex
  crate refuses. `met` is a history variable.
- **SchemaRegistry.** `stored` stands for the two maps and `signatures` for the
  plain capability a registration also inserts. The counters of a function are
  its `FunctionType`. `Reload` is serialization and back, which resets the
  limits. `Stops` and `Analyzable` are what the analysis does with the schema
  (`validated_expression_function_diagnostics`); they are state predicates
  because that code changes nothing. `requested` and `refused` are history.
- **FunctionGraph.** `edges` is filled a function at a time (`Resolve`), then
  the search runs on `stack` with exit entries. `FaultsOf`
  and `EdgesOf` keep what the code filters out of a function's calls, in order,
  and `Visit` reports the back edges and stacks the rest. The code's branch for an
  active function on top of the stack is unreachable, and the model has no action
  for it: deadlock checking is on, so the run shows that it is never needed, and
  `NoActiveEntryTheorem` that it never is.
- **FunctionLowering.** The recursion of both walks is a stack of tasks:
  walk, enter, leave, restore. `mode` is Inline or CallFrame; `pass` tells the
  preflight from the analysis, which share actions but not the order of
  charges. `lowered` is the verified program in preorder. Names and literals
  cost one scalar byte; binary, unary, array, member and method nodes are one
  kind `operator`.
- **Operators.** A value has a type, a payload or a number, its parts, and the
  bytes and longest string that `validate_value` finds in it. `i64` is
  `MinInt .. MaxInt`; a float is a multiple of the smallest one with a mantissa
  of few bits, a largest finite value and rounding to the nearest, ties to
  even. The sign of zero is left out: no operator tells it. `BinaryChecks` are
  the errors in the order of the code, `BinaryResult` is the value behind them.
  `SumOf` adds up a sequence with a recursive function, so that proofs can
  speak of it; `HoldsParts` is what a set of values has to be for a member
  access or a handler to find its result in it.
- **Handlers.** A handler's call is a record: checks before it charges, the work
  it charges, checks after that, its value, and the work it really does (`done`,
  which no code counts). `PatternSetCall` projects the work over all items and
  patterns (`Places`: the places of all texts times those of all patterns), and
  does only what precedes the first match. `RegexCall` looks up
  the cache after its charge; a pattern matches where it occurs. The default
  `contains`, `starts_with`, `ends_with` and `len` charge nothing, as in the
  code.
- **Analysis.** The analyzer merges summaries bottom up; here the same facts are
  read off the tree: `Path` is the path (and so the `ObjectOrigin`) a node
  stands for, through members, parameters and bodies; `Accesses` are the accesses
  a node adds; `Accepted` is the absence of any problem, since `analyze` returns a
  program only without diagnostics. The program is the tree `FunctionLowering`
  makes; `expanded` counts the inlined calls a node stands for, which is all that
  mode Inline leaves of them. `IsProgram` is the shape of this tree: nodes are
  numbered before what they hold, one operand after the other, and have as many
  operands as their kind takes. A declared regex argument that a call does not
  have is skipped, as in the code. What lowering drops (unused arguments of inlined
  calls, functions nothing calls) is taken to have no problem of its own. The
  regex limits stay in `RegexAdmission`. Envelopes (`Request`, `Http`) that
  contain a body are not body data themselves; the analyzer treats them so.
- **Evaluator.** `Prepare`, `Analyze` and `Verify` are the three calls a host
  makes before evaluation begins; `stage` tells how far the request is and
  `verdict` how it ended. `frames` is the recursion of `eval`, with the
  operands each call holds; `locals` is the separate stack of the code, searched
  innermost first. A `ValueTraversal` verdict is reduced to the two limits whose
  counters live in the evaluator. `Conclude` is `admit` and `clone_admitted`
  after the call that makes the value, which it names once (`\E call`), as the
  code makes it once. `history` records what no field of the code holds: cost
  dispatched, work done by handlers, body data read, variables looked up, and
  which metadata was dispatched to.
- **Parser.** Each `parse_` method is an operator from parser state to parser
  state, with position, nesting, nodes, serialized depth and reason of failure.
  `Derive` and `Meaning` are the reference: the grammar as a relation, which
  knows nothing of tokens in hand or of early returns. Characters are lexemes
  with their widths; one identifier, one string and one number stand for all.
- **Formatter.** `tasks` and `output` are those of
  `format_expression_with_limits`. A behaviour starts from a text (`Write`,
  `Read`) or from a tree a host built (`Give`), since the tree type is public.
  It is formatted, read again and formatted again.
- **RulepackRender, Overrides.** `stage` is the place in the code's one long
  function; every stage is an action that measures, charges the meter, and
  either goes on or ends in `refused`. `Overrides` holds the inner machine:
  `CheckRule` compares all overrides with one original rule and adds to
  `projected`; `CopyRule`, `PassOverride`, `OverrideRule`, `OverrideAction` and
  `CloseRule` copy a rule, change it by one override after the other, and keep or
  drop it. `compared` and `copied`
  are history: the comparisons and bytes the code has really spent, beside what
  the meter has reserved. `Reinstall` hands a pinned result in again, with a
  fresh meter and a clock that may have moved, as a host does that installs a
  rulepack and re-renders it later. A text is a sequence of words, single braces
  and markers, of one byte each. Braces join as bytes do: five pieces that spell
  a marker are read as one (`Scanned`), two that make `{{` or `}}` outside a
  marker, or a brace inside its name, are refused (`Stray`), and both happen to
  texts a rendering wrote as much as to those it is given. TOML, headers and separators weigh nothing, so the limits are
  compared with the sums the code adds up and not with byte counts of TOML.
  `limits` holds the limits a request can reach, by name; one that is left out
  refuses nothing.

## 3. The runs

Each question below is one run; its properties are the ones in its `.cfg`.

**value_traversal** (35,335 states; all trees up to four nodes). `Exact`:
`ValueTraversal` implements `GraphAdmission`: it answers, accepts exactly the
graphs that overrun nothing, and names a limit the whole graph overruns.
`WorklistBounded`: visited and scheduled nodes together stay within
`max_value_nodes`. `MetricsExact`: an accepted walk returns the weight of the
whole graph, which the evaluator charges.

**graph_conversion** (33,588 states; the same trees). `PendingValuesExact`: the
counter is the number of pending values. `ResultExact`: the output has the
input's shape. `RejectDrainsContainers`: when the input is rejected, all that is
pending or finished and all of a container in hand reaches the drain; at most
the one leaf in hand does not. `Exact`: as above.

**regex_admission** (3,045 states; three patterns, two flavors, five arguments).
`CompilationBounded`, `CacheMatchesAttempts`, `CleanMeansPrecompiled` and
`CleanMeansAttempted`: failures count, flavors are apart, and an analysis
without a message leaves nothing for the runtime to miss.

**schema_registry** (77,340 states; two names in two scopes, four functions).
`FailClosed`: after a refusal or a replacement no program is analyzed,
whatever limits follow. `NothingLost`, `AnalyzableFits`: a schema that
analyzes holds exactly what was offered, within the limits in force.
`SignaturesCurrent`: no stale signature can be called.

**function_graph** (177,236 states; every graph over three functions with up to
two calls each, two scopes, wrong arities). `ActiveIsPath`, `ReportsExact`,
`VerdictExact`, `Terminates`: what is reported is recursive, what is searched
without a report is not, the verdict does not depend on how many messages may be
kept, and the search ends.

**function_lowering** (108,418 states). `PreflightCovers` and
`MetersAgree`: the dry run admits only what the analysis can do and counts what
it charges; `LoweredExact`: the lowered program is the expansion in which
parameters are bound where they are written; `RecursionBounded`: the frames set
aside, which the depth limit does not count, stay within it all the same.

**evaluator** (137,024 states, of which 16,241 initial). Its requests come in
families: programs of every shape up to three nodes and larger ones with nested
and shadowing functions, under ample limits and with one limit tight; unknown
names; operators of the host; profiles with few nodes, little cost or depth;
phases; reads of bodies through members and parameters under seven profiles;
declared and undeclared regexes under the three policies; pattern sets and their
limits; the default methods; and all pairs of numbers.

- `StaticBounds`: steps, cost of what is dispatched and depth of an evaluation
  are within the nodes, static cost and depth the analysis accepted.
- `ReadsAdmitted`: every piece of a body that a handler, an operator, an array or
  the host gets to see was announced, and is allowed by the profile and the
  phase. A size that a rule of the schema's own (`body_paths`) stands for is
  exempt from the clause on MitigationField and stream phase: such a rule speaks
  for itself, and the analyzer sees no origin.
- `NamesResolve`: names mean at run time what the analysis took them to mean. It
  says three things, and a mutant breaks each of them. `LocalsFollowCalls`: locals
  are those of the calls under way, in order. `ScopesAgree`: the stack of locals,
  searched from its innermost frame, finds for a name what the analysis bound it to
  on the tree, or nothing in both, whatever calls of other functions lie between.
  `LookupsAdmitted`: the context is asked for no variable but those of the schema,
  or the options' where the schema has none, in their phases.
- `DispatchVerified`: a handler that runs has the metadata the analysis saw,
  whatever was registered twice, and may run in this phase.
- `RegexesFound`: with literals demanded, a declared regex argument is in the
  cache when the handler asks for it.
- `NumbersConsistent`: on every pair of numbers, `<` is exact where floats are
  and never contradicts the numbers elsewhere, the four comparisons agree with
  each other and with equality, quotient and remainder belong together and
  nothing wraps around. Equality is by type in this code: `1 == 1.0` is false
  while `<=` and `>=` hold, and beyond the mantissa two integers can be unequal
  and neither less nor greater; the property is stated accordingly.
- `HeldIsPaid`: operands, locals and results held at any time, and all work done
  by handlers, are within the processed bytes.
- `ResultExact`, `Terminates`: value, steps and bytes are those of the tree, whose
  meaning (`Meaning`) is read off without stacks; every request is answered.

**rulepack_render** (138,638 states; six families of requests). `Rendered`:
`RulepackRender` implements `RulepackOutcome`, which ranks overrides and takes
each field from the highest one, where the code applies them in turn; whatever
is refused is refused for what the request says or where a limit is within its
reach. `AppliesAsChecked`: from the moment the check has accepted the
overrides no application of one is refused, although it reads actions that
earlier ones changed. `AppliedSoFar`: a rule under edit has the fields its
overrides so far give it. `WorkPaid`: comparisons made and bytes
copied never pass what was reserved. `InstallStable`: rendering an
installed result again changes nothing and is not refused, under a hypothesis
the code does not check (`PlainRequest`): no value holds a marker or a brace, no
override, local reason or commit a marker, and where a text has a closing brace
no value is empty. Without it the sentence is false of the code: with
`x = "{"` the text `{{x}}{{x}}` is installed as `{{`, and with an empty `x` the
text `}{{x}}}` as `}}`, which the next rendering refuses
(`template.rs:110`, `template.rs:120`). The run has such requests, and leaving
out either half of the hypothesis violates the property. Deadlock is checked;
a request that is answered rests, so the run also shows that every request is
answered.

**canonical_text** (about 505,000 states). `ParseExact` compares parser and
grammar on every text met, with spans and limits. `RoundTrip`: canonical text
that fits the source limit reads as the tree it was written for. `Idempotent`:
host-built trees too settle after one pass.

**argument_scope**, **source_limit** and **override_templates** end in a
counterexample; see section 6.

### Bounds

- Trees of values have up to four nodes, which includes a container inside a
  container with a sibling left on the stack, the smallest case where a lower
  bound computed from the work list can be wrong. Limits are squeezed one at a
  time around what such trees need; one set squeezes two, so that the order of
  checks matters.
- `MaxArgs = 5` regex arguments over `MaxUnique = 3`, `MaxSource = 6` and
  patterns of one to three bytes: both limits are reached, before and after a
  failure and by a pattern met before.
- `MaxRequests = 3` *distinct* registrations; the same one may be offered any
  number of times, with limits changed or reset in between.
- Three functions with two calls each give every shape of back, forward and
  cross edge between three nodes, self calls and double calls included.
- Bodies that use their parameter never, once and twice, two functions, and
  depth limits of three, five and six give nested set-aside frames and
  expansions cut at every charge.
- Evaluation: limits from ample to zero, one at a time; handlers registered
  twice, failing, with other metadata, and absent; paths to each body, direct,
  under `Http`, and through parameters of nested functions. `MaxInt = 7` gives
  sixteen integers, `Mantissa = 4` floats that cannot hold all of them,
  `MaxFloat = 48` overflow by multiplication, and `One = 2` halves, so that every
  error of the arithmetic and every rounding case is met.
- Texts: up to `MaxLexemes = 7`, over names, strings, brackets, lists,
  member access, one ambiguous operator (`-`), another of its level (`+`), one
  of the next (`*`), and a character the lexer refuses. The lower levels, which
  the ladder climbs like these two, have no lexeme: `<` and method calls come
  from trees a host builds, and their canonical texts are then read. A text is extended only
  while the parser's failure is at its end: what follows the first error is
  never looked at. `MaxRecursion = 2` and `MaxSerializedDepth = 8` stand for
  256 and 127, and both are run into. Trees a host builds add `<`, method
  calls, negative literals and reserved words as names.
- Rulepacks: every list of up to two manifest overrides and one local one, and
  of one and two, from a pool with each kind of selector, overlapping fields,
  `enabled` both ways and actions matched by type and by name; twelve overrides
  that must be refused; rules without content, with content and path, equal
  rules and none. Texts: malformed, unknown, unset and bound markers, in
  manifest, contents and groups, supplied values that hold markers themselves.
  Braces: texts that spell a marker or half of one, markers between braces and
  beside each other, with empty values, values that are one brace, and values
  that complete a marker.
  Options: exceptions of the manifest and of the host, expired or without a
  target, forced modes, pinning. Bundles with good and missing paths. One rich
  request, inline and bundled, under every value of every limit from zero up to
  where it no longer binds, so that each of the fourteen limits is run into at
  every stage that charges it.

### Fairness

Each machine is one synchronous call that loops until it returns, so its
next step is always taken: weak fairness of `Next` and nothing stronger, in
`ValueTraversal`, `GraphConversion`, `FunctionGraph` and `Evaluator`, whose runs
check that the call answers. `RegexAdmission` and `SchemaRegistry` model a
caller who may stop at any time, and have no fairness. `CHECK_DEADLOCK FALSE`
stands where a call has returned or the bound on inputs is reached, and nothing
else remains to do.

## 4. What is proved

The proofs are in modules of their own and hold for every value of the
constants under the named assumptions of the modules: the types of constants (in
`RulepackRender`, `RequestTypes` and `FileTypes`: manifests, options and files
have the types serde gives them), in `RegexAdmission` that a dynamic argument is no pattern, and in `Evaluator` the
shape of a lowered program (`ProgramAssumption`) and, of a host's registry, that
a handler that reads the characters of its arguments is registered as the
method, with the arity, that the default registry gives it (`ContextAssumption`).
TLC evaluates each of them on the inputs of a run. The type invariants of
`RegexAdmission` and `SchemaRegistry` are proved and are no part of a run.

- **`ValueTraversalProofs`**: `WorklistTheorem`, `MetricsTheorem`, and
  `AdmissionTheorem`: every step of the walk is a step or a stutter of
  `GraphAdmission`. The inductive invariant says that there is a set of visited
  nodes whose frontier the stack is (`Frontier`: each node held by a visited one
  is visited or stacked, never both), that the metrics are the weight of this
  set, and that no limit is overrun yet. A rejection is then right because a part
  never weighs more than the whole, and the lower bound of `ReserveChecks`
  because the stacked nodes are different and unvisited: visited and scheduled
  together are nodes of the tree. An acceptance is right because a set that
  contains the root and what its nodes hold is the whole tree.
- **`ValueTreeLemmas`**: weights of sets of nodes, frontiers and their steps,
  subtrees (`SubtreeIs`: a node and the subtrees of what it holds), and lists.
- **`GraphConversionProofs`**: `PendingTheorem`, `ResultTheorem`, `DrainTheorem`
  and, for the step half of the refinement, `AdmissionTheorem`. The invariant
  `IInv` is `Shape /\ Metered`. `Shape` says what the two stacks have to do with
  each other: between a Finish marker and the next one are the parts of the first
  that were not begun, in order (`Nested`); the number of finished values is the
  place of the value in hand (`Ready`); those above a marker and below the next
  are images of the parts the marker has (`Filled`); and every leaf is under a
  pending value or in a finished one (`Covered`). None of these is inductive
  without the others: a marker collects what `Filled` says only because `Ready`
  says where it starts. `Metered` is the invariant of the traversal for this
  stack, with `Distinct` entries. Image is a recursive function; that it exists is
  proved by induction on levels from the bottom up (`Images`). The checks
  are shown right as lists: each reason names a limit that is overrun when its
  check fails (`Right`, `Excused`).
- **`FunctionGraphProofs`**: `ActiveTheorem`, `ReportsTheorem`, `VerdictTheorem`
  and `NoActiveEntryTheorem`. `SearchInv` adds to the properties that all
  entries above an exit entry up to the next are called by its function
  (`ChainOfCalls`), so that calls lead from an active function to everything above
  it; that the calls of an active function are searched, reported or still above
  it (`CallsPending`), those of one that was left searched or reported
  (`CallsSearched`); and that something is said as soon as a call does not resolve or a
  back edge is found, whatever the limits (`MessagesRight`). What is active when a back
  edge leads to it is then recursive. When a function is left, the functions
  searched without a report stay without recursion: each calls only others
  searched before it. `Keep` and `PushAll` are recursive functions; what they
  keep is proved by induction on numbers, which is stated with sets
  (`LeastNatural`, `UpTo`) because the prover has no schema for it.
- **`RegexAdmissionProofs`**: `TypeTheorem`, `CompilationTheorem`,
  `CacheTheorem`, `PrecompiledTheorem`, `AttemptedTheorem`. The properties are inductive only
  together. `LimitsReportedOnce` (a flag is set exactly when its one message
  was pushed) is what makes a pattern refused by a limit, the second time in
  silence, still leave the analysis unclean; finiteness of the attempts is what
  lets their number, and the bytes of their patterns, be counted. There is a lemma per action.
- **`EvaluatorProofs`**: `LocalsTheorem`, `DispatchTheorem`, `StaticBoundsTheorem`,
  `HeldIsPaidTheorem`, `RegexesFoundTheorem`, `ScopesTheorem`, `LookupsTheorem`,
  `NamesTheorem` (which collects the three about names) and `ResultTheorem`, for
  any requests. The inductive invariants and the terms of the lemmas are in
  `EvaluatorInvariants`.
  `LocalsFollowCalls` says that an increasing map takes the locals onto the calls
  that have bound theirs; the proof extends the map when the last call binds and
  cuts it when that call returns (`FollowBind`, `FollowLeave`). What makes it
  inductive is that only a call of an expression function binds (`CallsInv`), so
  that no other conclusion takes a binding call off the stack. For
  `DispatchVerified` the same invariant says that a call that may dispatch has a
  ticket; an accepted program's tickets lead to permitted metadata
  (`AcceptedSound`), and what verification compared stays as it was, since
  neither the program nor the registry changes while it runs.
  For `StaticBounds`, the calls under way are a path from the root (`PathInv`),
  each the operand its caller waits for. Nodes are numbered in preorder, so the
  nodes evaluated so far lie before the last one begun, and what is still ahead
  lies behind it (`Walked`); steps and cost are then at most a sum over an
  initial part of the program, whose total is what the analysis announced
  (`Announces`), since registered and analyzed metadata agree. Depth grows along a
  path by one at least (`Depths`), so a path is no longer than the deepest node
  that was accepted. For `HeldIsPaid`, the invariant is that everything held comes
  from a set of values with their parts, and that the bytes of it and the work
  done are within what was charged (`Solvent`). An operand that becomes a local,
  a local that becomes an operand, a result that is handed down only moves
  (`SolventBind`, `SolventLeave`); a value that is made was charged
  (`SolventAnswer`). `Paid` says so of
  every call a node can make: handlers do no more work than they charge
  (`PatternSetPaid`, `RegexPaid`, `CasePaid`). It needs that an identifier finds
  its local where the frame has one (`ScopeInv`), and that the arguments of a
  call are as many as its ticket says. For `RegexesFound`, an accepted program
  has a literal where a method takes its regex, and has it compiled (`Compiled`,
  `AcceptedCompiled`); calls hold the literals of the operands that are such
  (`LiteralsHeld`), so that the text the handler is given is the text that was
  compiled; verification makes the registered declaration the analyzed one
  (`HandledSilent`). No check of another handler, of an operator, of a limit or
  of a pattern set gives that reason (`Silent`, `MadeSilent`, `SetsSilent`).
  For `ScopesAgree`, the analysis binds a name by going up the tree (`BinderIs`),
  the evaluation by going down the stack. The two meet on the path: its calls that
  have bound their locals are the functions whose bodies enclose the node in hand
  (`PathBinder`), and the locals follow these calls in order (`ScopesFollow`).
  `LookupsAdmitted` is then a matter of the analysis: a name that finds no local has
  no binder, and an accepted program has no such name that is not admitted.
  For `ResultExact`, `Meaning` is a recursive function that goes up and down the
  tree, since a parameter means what an argument elsewhere means. That it exists
  is proved one node at a time, over sets of nodes that depend on nothing outside
  (`Settles`, `MeaningIs`). `MeaningInv` says that every operand and every local
  held has the value its node means. A call that concludes gives what its node
  means (`MadeGives`); an error is the failure of a node on the path, and a failure
  rises to the root (`FailureRises`), because what a caller waits for it needs.
  For steps and bytes, `CountInv` says that there are sets of nodes begun and
  done (`Covers`): those begun and not done are under way, the operands before a
  call's position were begun, and so was all a done node has to visit. Since
  what lies ahead is in preorder behind the last node begun, each node is begun
  once (`CountedPush`). When nothing is under way, begun and done are the nodes
  reached (`CountedAll`), and what each was charged is its `Charge` (`MadeCosts`).
- **`RulepackRenderProofs`**: `AppliedTheorem`, `AppliesAsCheckedTheorem`,
  `WorkPaidTheorem` and `InstallStableTheorem`, for any requests, files and
  limits. `AppliedSoFar` is inductive with the type of the rule under edit (`AppliedInv`): one override is exactly one more rank, and
  fields it does not set keep the value of an earlier one. For
  `AppliesAsChecked` the argument is that an edit changes no action's type or
  name and no rule's selector fields, so that an override still has exactly the
  one target its check found (`CheckedInv`); both need rules and actions to
  stay lists (`ListsInv`), which nothing in a TOML document's type says. For
  `WorkPaid` the invariant says at each stage what is still to be compared and
  copied and that it has been reserved (`ComparePaid`, `CopyPaid`). The check of
  the rules reserves from the rules as they were; the application compares with
  and copies rules that overrides have changed. That this is no more rests on
  three facts: a rule under edit is what `AppliedInv` says, so that each field
  was there or came from one of the overrides gone past, and a content is no
  larger than the original with the largest growth of every field
  (`ContentBounded`); edits add no action and no tag, and the rules kept are
  among those checked (`ProgressInv`), so that exceptions are compared with no
  more than was reserved before any override was looked at; and the options grow
  the document by what was projected at most (`DocumentGrown`), with pinned
  defaults in the place of the old ones. Sums over lists are recursive functions;
  what they keep is proved by induction on numbers stated with sets (`UpTo`).
  `InstallStable` speaks of two renderings, and so does its invariant
  (`StableInv`). Of the first it says what the second will rely on: values are
  those the names resolved to (`ResolvedInv`), texts already rendered hold no
  marker and no half of one if the request was plain (`PlainInv`),
  after pinning every variable has its value for a default and needs none
  (`PinnedInv`), and what is written was checked (`ValidInv`) and stays valid as
  exceptions expire (`ValidLater`). Of the second, `AgainInv` says that document
  and rules are at every stage those of the manifest that was handed in: plain
  texts are rendered to themselves (`HeadSame`, `RuleSame`), a fixed
  variable resolves to its default and is pinned to it (`FixedPinned`), no
  override is left to be applied, and what was checked once passes again.
  `PlainInv` is where the hypothesis is needed, since a rendering is one pass: a
  value that holds a marker leaves it in the result, and one that holds a brace,
  or nothing, lets the braces around it meet. Where neither is so a rendering
  joins plain pieces to a plain text (`PiecesPlain`, `SubstitutePlain`).
  `TypesInv` keeps documents, rules and texts of their types through every stage.
- **`SchemaRegistryProofs`**: `TypeTheorem`, `FailClosedTheorem`,
  `NothingLostTheorem`, `AnalyzableFitsTheorem`, `SignaturesTheorem`. The invariant says that a refusal leaves a diagnostic
  or the truncation mark (`Traced`), and that until one, what was offered is
  what is stored (`Complete`). `TraceStops` shows that either trace stops an
  analysis under any limits. For the signatures it says that every stored
  function can be called (`Callable`), and that without a trace no signature of a
  function is without its function (`Backed`): a replacement leaves both.

Model-checked only: everything in `FunctionLowering`, `Parser` and `Formatter`,
whose trees and grammar are read by `RECURSIVE` operators, which no module that
holds a theorem may reach; of `Evaluator` `NumbersConsistent` (whose rounding is a
recursion over the numbers) and `ReadsAdmitted`: values do not record where they
came from, so that one equal to a part of a body counts as that part, and that
no variable or literal of a host equals one is true of the inputs of the run and
nothing the code ensures; and of rulepacks `Rendered`, whose reference ranks
overrides and builds the whole answer at once. Of the refinement of
`GraphAdmission` the fairness half (that an answer comes) is model-checked too, as
is every other liveness property: liveness under fairness is out of the prover's
reach.

## 5. What is not modelled, and why

- **Of rulepack rendering**: profiles and traffic selectors, provenance records,
  the paths of groups, templates in names and ids, and the nesting depth of
  TOML are left out, and so is `render_text`, a thin client of the template
  reader. A path file that uses a binding cannot be bundled again from an
  installed result, since pinning strips bindings, and rendering a result that
  was not pinned applies its overrides a second time; `InstallStable` speaks of
  neither, nor of requests whose values make markers with the braces around them.
  Names of placeholders are single words: two words side by side between double
  braces are malformed in the model, and one longer name in the code.
- **The literal of the least integer.** Integers are single lexemes in `Parser`.
  Only a host can build that literal, and its canonical text (a minus and a number
  too large) does not parse; no text reads as it either.
- **What a regex matches.** A pattern here matches where it occurs, and is
  malformed or not; compiled sizes are limits of `RegexAdmission` and of the
  pattern sets.
- **JSON bindings** (`runtime/json.rs`) convert and insert.
- **The oxirule schema** is a table of variables, phases and paths; the run's
  schemas have entries of its kinds.
- **Texts of diagnostics** are left out; their kinds, number and length are kept
  where a limit counts them.
- **The plain maps of the schema** (variables, methods, operators, body paths)
  have no behaviour beyond insertion.
- **Iterative drains of trees** only free memory.
- **The standard library and the regex crate** are taken as they are.
- **The command line**, **version tooling** and **fuzz drivers** keep no state
  of their own across calls.

## 6. Where the code and its documents differ

- **Scope of an argument (`argument_scope`).** `docs/Specification.md:170-173`
  says local functions are found first and restricts only calls nested in the
  bodies of global functions. In inline mode, an argument walked in place of a
  parameter is resolved in the scope of the function whose parameter it stands
  for (`sema/analyzer/functions.rs:49`): in `f(h(1))` with `f` global and `h`
  local, `h` is not found. CallFrame mode finds it. `LoweredExact` therefore
  claims the expansion for inlining only when all functions have one scope;
  `CallsResolveWhereWritten` is the claim without the condition, and is
  violated.
- **Length of canonical text (`source_limit`).** `docs/Specification.md:100`
  says that the canonical form of a text reads as the same tree. It can be
  longer than its source, since a single-quoted string that contains double
  quotes is written with escapes and blanks are put around operators, and the
  lexer then refuses it (`parser/lexer.rs:65`). `RoundTrip` states what holds,
  for canonical text within the source limit; `CanonicalReads` is the document's
  sentence, and is violated.

- **Placeholders in overrides (`override_templates`).**
  `docs/Specification.md:408-409` replaces placeholders in the strings of the
  manifest and then applies its overrides. The overrides applied are those
  decoded before (`rulepack_render/mod.rs:254`, passed on at `mod.rs:305`), so a
  `{{name}}` in the body of an override reaches the rule as it stands.
  `PlaceholdersReplaced` is the document's sentence, and is violated;
  `InstallStable` and `Rendered` describe what the code does.

## 7. Plan

The order was: admission of values and their conversion; the failing-closed
registry; regex admission; the function graph and the lowering that relies on
it; evaluation; parser and formatter; rulepack rendering; the analysis composed
with the evaluation, its numbers, handlers and pattern sets. These are done. Next:

1. Proofs: `Rendered` of the rulepacks, step by step; `ReadsAdmitted` of the
   evaluator, once values carry their origin.
2. Of rulepack rendering: profiles, provenance, and groups given by path.
3. The composition of `FunctionLowering` with `Analysis`, so that `expanded` and
   the tree come from a source program instead of being enumerated.

To run: `tlc -config MCEvaluator.cfg MCEvaluator` and likewise for the other
configurations; `MCScopes.cfg` goes with `MCFunctionLowering`,
`MCSourceLimit.cfg` with `MCFormatter` and `MCOverrideTemplates.cfg` with
`MCRulepackRender`. `tlapm SchemaRegistryProofs.tla` checks
the proofs of that module. The longest run takes about a minute and a half.
