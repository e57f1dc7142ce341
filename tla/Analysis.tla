------------------------------ MODULE Analysis ------------------------------
(***************************************************************************)
(* Analyzer::analyze (sema/analyzer.rs and its submodules): what of a      *)
(* program is refused, and what a VerifiedProgram tells about it.          *)
(*                                                                         *)
(* A request holds the program, the schema, profile, options and dialect   *)
(* it is analyzed with, and the context and limits it is evaluated with.   *)
(*                                                                         *)
(* A program is the tree that lowering makes (FunctionLowering), with node *)
(* 1 the root; its parts are functions over the nodes 1..n: kind, kids (in *)
(* order of evaluation; for a call of an expression function its arguments,*)
(* then its body), name, params, literal, and expanded, the inlined calls  *)
(* that were replaced by the node.  What lowering drops (an inlined call's *)
(* unused argument, a function nothing calls) is taken to be without       *)
(* problems of its own.  Regex admission has its limits in RegexAdmission. *)
(***************************************************************************)
EXTENDS Handlers

\* How many operands a node of a kind has.
OperandsOf(kind) ==
  CASE kind \in {"literal", "identifier"} -> {0}
    [] kind \in {"unary", "member"} -> {1}
    [] kind \in {"binary", "and", "or"} -> {2}
    [] kind \in {"array", "function"} -> Nat
    [] kind \in {"method", "expression function"} -> Nat \ {0}
NodeKinds == {"literal", "identifier", "unary", "member", "binary", "and", "or", "array",
              "function", "method", "expression function"}

\* A lowered program: a tree whose nodes are numbered as lowering makes them,
\* before what they hold and one operand after the other; a call of an
\* expression function has an argument for each parameter.
IsProgram(p) ==
  LET nodes == DOMAIN p.kind
      After(i, k) == {l \in DOMAIN p.kids[i] : l > k}
  IN  /\ p.kind \in Seq(NodeKinds) \ {<<>>}
      /\ p.expanded \in [nodes -> Nat]
      /\ DOMAIN p.kids = nodes
      /\ \A i \in nodes :
           /\ p.kids[i] \in Seq(i + 1 .. Len(p.kind))
           /\ p.params[i] \in Seq(STRING)
           /\ Len(p.kids[i]) \in OperandsOf(p.kind[i])
           /\ p.kind[i] = "expression function" => Len(p.kids[i]) = Len(p.params[i]) + 1
           /\ p.kind[i] = "unary" => p.name[i] \in {"!", "-"}
           /\ p.kind[i] = "binary" =>
                p.name[i] \in Arithmetic \cup Comparison \cup {"==", "!="}
           /\ \A k \in DOMAIN p.kids[i] : \A l \in After(i, k) :
                /\ p.kids[i][k] < p.kids[i][l]
                /\ \A j \in p.kids[i][k] .. p.kids[i][l] - 1 :
                     \A m \in ToSet(p.kids[j]) : m < p.kids[i][l]
      /\ \A j \in nodes \ {1} : \E i \in nodes :
           /\ j \in ToSet(p.kids[i])
           /\ \A h \in nodes : j \in ToSet(p.kids[h]) => h = i

VARIABLE request

program == request.program
schema == request.schema
profile == request.profile
context == request.context
limits == request.limits

Nodes == DOMAIN program.kind
Parent(i) == CHOOSE j \in Nodes : i \in ToSet(program.kids[j])
Body(i) == Last(program.kids[i])
IsBody(i) == program.kind[Parent(i)] = "expression function" /\ i = Body(Parent(i))

\* The node whose value the name has in node i: the argument of the nearest
\* call around i, of those whose body holds i, that has such a parameter; 0
\* for a variable.
Binder(name) ==
  LET binder[i \in Nodes] ==
        IF i = 1 THEN 0
        ELSE LET params == program.params[Parent(i)]
             IN  IF IsBody(i) /\ name \in ToSet(params)
                 THEN program.kids[Parent(i)][IndexIn(params, name)]
                 ELSE binder[Parent(i)]
  IN  binder

\* An identifier no call binds.
IsVariable(i) == program.kind[i] = "identifier" /\ Binder(program.name[i])[i] = 0

-----------------------------------------------------------------------------
(* Phases and capabilities *)

ActivePhase(p) == profile.phases = {p}

\* is_available_in: no phases are all phases, and a profile with more than one
\* phase has no active one.
Available(phases) ==
  phases = {} \/ Cardinality(profile.phases) # 1 \/ profile.phases \subseteq phases

VariableAvailable(name) ==
  /\ name = "Response" => ~ActivePhase("Request") /\ ~ActivePhase("Stream")
  /\ name = "Stream" => Cardinality(profile.phases) # 1 \/ ActivePhase("Stream")
  /\ name \in DOMAIN schema.variables => Available(schema.variables[name])

Calls == {i \in Nodes : program.kind[i] \in {"function", "method"}}
Operations == {i \in Nodes : program.kind[i] \in {"unary", "binary", "and", "or"}}
Receivers(i) == IF program.kind[i] = "method" THEN 1 ELSE 0

\* CapabilityTicket: kind, name and arity.
Ticket(i) ==
  <<IF program.kind[i] \in {"and", "or"} THEN "binary" ELSE program.kind[i],
    program.name[i], Len(program.kids[i]) - Receivers(i)>>

\* CapabilityMeta of an operator nobody registered.
DefaultMeta == [phases |-> {}, access |-> 0, regex |-> <<>>, deterministic |-> TRUE,
                pure |-> TRUE, cost |-> 1]

Known(i) == Ticket(i) \in DOMAIN schema.capabilities
Resolved == Operations \cup {i \in Calls : Known(i)}
MetaOf(i) == IF Known(i) THEN schema.capabilities[Ticket(i)] ELSE DefaultMeta

OtherArity(i) ==
  \E t \in DOMAIN schema.capabilities : <<t[1], t[2]>> = <<Ticket(i)[1], Ticket(i)[2]>>

\* Mutant of VariableProblem: the phases are not looked at.
VariableProblemByName(i) ==
  /\ IsVariable(i)
  /\ program.name[i] \notin DOMAIN schema.variables /\ "variable" \notin request.allowed

VariableProblem(i) ==
  /\ IsVariable(i)
  /\ \/ program.name[i] \notin DOMAIN schema.variables /\ "variable" \notin request.allowed
     \/ ~VariableAvailable(program.name[i])

\* validate_call: options may allow an unknown name, but no other arity.
CallProblem(i) ==
  /\ i \in Calls /\ ~Known(i)
  /\ OtherArity(i) \/ program.kind[i] \notin request.allowed

\* validate_capability.
CapabilityProblem(i) ==
  /\ i \in Resolved
  /\ \/ ~Available(MetaOf(i).phases)
     \/ profile.deterministic /\ ~(MetaOf(i).deterministic /\ MetaOf(i).pure)

\* validate_oxirule_v1.
DialectProblem(i) ==
  /\ request.dialect = "OxiRuleV1"
  /\ \/ program.kind[i] = "array"
     \/ program.kind[i] = "literal" /\ program.literal[i].ty = "float"
     \/ program.kind[i] = "unary" /\ program.name[i] = "-"
     \/ program.kind[i] = "binary" /\ program.name[i] \in Arithmetic \ {"+"}

-----------------------------------------------------------------------------
(* Body need: 1 for the size of a body, 2 for its bytes *)

\* The path of names a node stands for, <<>> when it stands for none.
Path ==
  LET path[i \in Nodes] ==
        LET name == program.name[i]
            first == path[program.kids[i][1]]
        IN  CASE program.kind[i] = "identifier" ->
                   IF IsVariable(i) THEN <<name>> ELSE path[Binder(name)[i]]
              [] program.kind[i] = "member" ->
                   IF first = <<>> THEN <<>> ELSE Append(first, name)
              [] program.kind[i] = "expression function" -> path[Body(i)]
              [] OTHER -> <<>>
  IN  path

Sides == {"Request", "Response"}
Bodies(side) == {<<side, "Body">>, <<side, "Http", "Body">>}
Payload == <<"Stream", "Payload">>
AllBodies == UNION {Bodies(side) : side \in Sides}

\* ObjectOrigin::body_target: the bodies that a node exposes as a whole.
Targets(path) ==
  {t \in Sides \cup {"Stream"} :
     IF t = "Stream" THEN path = Payload
     ELSE path \in Bodies(t) \cup {Append(b, "Bytes") : b \in Bodies(t)}}

\* The operands whose values leave the evaluator's hands, and the result.
ConsumerKinds == {"array", "function", "method", "unary", "binary", "and", "or"}

\* Mutant of Consumed: an array only holds its items.
ConsumedByCalls ==
  {1} \cup UNION {ToSet(program.kids[i]) :
                    i \in {j \in Nodes : program.kind[j] \in ConsumerKinds \ {"array"}}}

Consumed ==
  {1} \cup UNION {ToSet(program.kids[i]) :
                    i \in {j \in Nodes : program.kind[j] \in ConsumerKinds}}

\* merge_body_access_for_origin: what reading a field of a body costs.
BodyFields == {"Size", "Bytes", "Text", "IsTruncated"}
FieldAccess(path) ==
  {<<a[1], IF a[2] = "Size" THEN 1 ELSE 2>> :
     a \in {b \in Sides \X BodyFields : path \in {Append(p, b[2]) : p \in Bodies(b[1])}}}
    \cup {<<p[1], 2>> : p \in {path} \cap {Payload}}

\* What node i, standing for a path, adds: the rules of the schema for it, the
\* field it reads, and what it hands over.
Accesses(i, path) ==
  {schema.paths[p] : p \in {path} \cap DOMAIN schema.paths}
    \cup (IF program.kind[i] = "member" THEN FieldAccess(path) ELSE {})
    \cup (IF i \in Consumed THEN {<<t, 2>> : t \in Targets(path)} ELSE {})

AllAccesses == UNION {Accesses(o[1], o[2]) : o \in {<<i, Path[i]>> : i \in Nodes}}

\* BodyNeedSummary.
Need ==
  [t \in Sides \cup {"Stream"} |-> Max({0} \cup {a[2] : a \in {b \in AllAccesses : b[1] = t}})]

\* is_mitigation_payload_boundary, at the nodes where the origin arises.
MeetsBody ==
  \E i \in Nodes : program.kind[i] = "member" /\ Path[i] \in AllBodies \cup {Payload}

\* validate_origin_phase.
OriginProblem(i) ==
  /\ program.kind[i] = "member" /\ ActivePhase("Stream")
  /\ "Request" \in Targets(Path[i])

-----------------------------------------------------------------------------
(* Regex arguments *)

\* The place among the operands of call i of the argument of the given index.
Place(i, index) == index + 1 + Receivers(i)

\* The declared regex arguments that a call has: <<operand, flavor>>.
RegexArgs ==
  UNION {{<<program.kids[i][Place(i, a[1])], a[2]>> :
            a \in {b \in ToSet(MetaOf(i).regex) : Place(i, b[1]) \in DOMAIN program.kids[i]}} :
         i \in Resolved \cap Calls}

\* string_literal of resolve_inline_argument: a call is no literal, whatever
\* its body is.
IsPattern(i) ==
  program.kind[i] = "literal" /\ program.literal[i].ty = "string" /\ program.expanded[i] = 0

\* Mutant of RegexProblem: what is no literal is left to the runtime.
RegexProblemOfLiterals(arg) ==
  profile.regex = "literal" /\ IsPattern(arg) /\ program.literal[arg].payload \in Malformed

RegexProblem(arg) ==
  \/ profile.regex = "forbid"
  \/ /\ profile.regex = "literal"
     /\ IsPattern(arg) => program.literal[arg].payload \in Malformed

\* The regexes that are compiled: <<flavor, pattern>>.
RegexCache ==
  {<<a[2], program.literal[a[1]].payload>> :
     a \in {b \in RegexArgs : IsPattern(b[1]) /\ program.literal[b[1]].payload \notin Malformed}}

-----------------------------------------------------------------------------
(* Nodes, cost and depth *)

Cost(i) == IF i \in Resolved THEN MetaOf(i).cost ELSE 1
StaticCost == SumOf([i \in Nodes |-> Cost(i) + program.expanded[i]])
LoweredNodes == SumOf([i \in Nodes |-> 1 + program.expanded[i]])

MaxSemanticDepth == 128
DepthLimit == Min({profile.depth, MaxSemanticDepth})
Depth ==
  LET depth[i \in Nodes] ==
        program.expanded[i] + (IF i = 1 THEN 0 ELSE depth[Parent(i)] + 1)
  IN  depth

-----------------------------------------------------------------------------
(* The verdict *)

\* BodyNeedSummary::allows and the profile that reads no body at all.
BodyProblem ==
  \/ \E a \in AllAccesses :
       a[2] > profile.body[a[1]] \/ (profile.id = "MitigationField" /\ a[2] = 2)
  \/ profile.id = "MitigationField" /\ MeetsBody

\* validate_program_bounds, with the limits met while walking.
BoundsProblem ==
  \/ \E i \in Nodes : Depth[i] > DepthLimit
  \/ LoweredNodes > profile.nodes
  \/ StaticCost > profile.cost

Accepted ==
  /\ \A i \in Nodes : /\ ~VariableProblem(i) /\ ~CallProblem(i) /\ ~CapabilityProblem(i)
                      /\ ~DialectProblem(i) /\ ~OriginProblem(i)
  /\ \A a \in RegexArgs : ~RegexProblem(a[1])
  /\ ~BodyProblem /\ ~BoundsProblem

\* VerifiedProgram.
VerifiedProgram ==
  [tickets |-> Resolved,
   required |-> [t \in {Ticket(i) : i \in Resolved} |->
                   MetaOf(CHOOSE i \in Resolved : Ticket(i) = t)],
   need |-> Need, nodes |-> LoweredNodes, cost |-> StaticCost, cache |-> RegexCache]
=============================================================================
