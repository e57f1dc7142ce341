------------------------------ MODULE MCEvaluator ------------------------------
(* Families of requests, each for one part of the analysis or the evaluation:  *)
(* programs of at most three nodes and nested calls, with one limit tight at a *)
(* time; reads of bodies; regexes and pattern sets; all pairs of numbers.      *)
EXTENDS Evaluator

MCAlphabet == <<" ", "(", "A", "B", "a", "b">>
MCUpperOf == [a |-> "A", b |-> "B"]
MCMalformed == {<<"(">>}

AB == Text(<<"a", "b">>)
Literals == [yes |-> Bool(TRUE), no |-> Bool(FALSE), ab |-> AB, one |-> Integer(1),
             half |-> Float(1), a |-> Text(<<"a">>), paren |-> Text(<<"(">>),
             BA |-> Text(<<"B", "A">>), mixed |-> Text(<<"b", "A">>)]

Label(kind, name) == <<kind, name, <<>>>>
Literal(name) == Label("literal", name)
Name(name) == Label("identifier", name)
Member(name) == Label("member", name)
Array == Label("array", "")
Function(name, params) == <<"expression function", name, params>>

Program(kids, labels) ==
  [kids |-> kids,
   kind |-> [i \in DOMAIN labels |-> labels[i][1]],
   name |-> [i \in DOMAIN labels |-> labels[i][2]],
   params |-> [i \in DOMAIN labels |-> labels[i][3]],
   literal |-> [i \in DOMAIN labels |->
                  IF labels[i][1] = "literal" THEN Literals[labels[i][2]] ELSE Failure],
   expanded |-> [i \in DOMAIN labels |-> 0]]

\* A chain: every node the only operand of the one before it.
Chain(labels) ==
  Program([i \in DOMAIN labels |-> IF i = Len(labels) THEN <<>> ELSE <<i + 1>>], labels)
\* One node over leaves.
Flat(label, leaves) ==
  Program([i \in 1 .. Len(leaves) + 1 |->
             IF i = 1 THEN [k \in DOMAIN leaves |-> k + 1] ELSE <<>>], <<label>> \o leaves)

-----------------------------------------------------------------------------
(* Requests *)

Meta == [DefaultMeta EXCEPT !.cost = 2]
Other == [DefaultMeta EXCEPT !.phases = {"Response"}]

NoPaths == [p \in {} |-> <<>>]
Capabilities(tickets, meta) == [t \in tickets |-> meta]
H == {<<"function", "h", 0>>, <<"function", "h", 2>>, <<"method", "h", 0>>}
Schema(capabilities) ==
  [variables |-> [x |-> {}, obj |-> {"Request"}], capabilities |-> capabilities,
   paths |-> NoPaths]

Profile ==
  [id |-> "GenericSafe", phases |-> {"Request"}, nodes |-> 20, depth |-> 8,
   regex |-> "literal", cost |-> 40, deterministic |-> TRUE,
   body |-> [t \in Sides \cup {"Stream"} |-> 2]]

Handler(does, work) == [does |-> does, work |-> work, flavor |-> "plain"]
Registration(ticket, meta, handler) ==
  [ticket |-> ticket, meta |-> meta, handler |-> handler]
Registrations(meta, handler) ==
  [k \in 1 .. 3 |-> Registration(SetToSeq(H)[k], meta, handler)]
Not(meta, handler) == <<Registration(<<"unary", "!", 1>>, meta, handler)>>

SetLimits == [sets |-> 2, name |-> 2, names |-> 3, patterns |-> 2, pattern |-> 2,
              bytes |-> 4, compiled |-> 2, allCompiled |-> 4]
Context(registry) ==
  [variables |-> [x |-> Text(<<"a">>), obj |-> Object(<<"m">>, <<Text(<<"a">>)>>)],
   registry |-> registry, configs |-> <<>>, setLimits |-> SetLimits, bodies |-> {}]

Roomy == [steps |-> 20, depth |-> 8, items |-> 4, string |-> 9, value |-> 40, total |-> 99]

Request(p, s, c) ==
  [program |-> p, schema |-> s, profile |-> Profile,
   allowed |-> {"variable", "function", "method"}, dialect |-> "Generic",
   context |-> c, limits |-> Roomy]
WithLimits(requests, limitSets) ==
  {[r EXCEPT !.limits = l] : r \in requests, l \in limitSets}
Under(requests, profiles) == {[r EXCEPT !.profile = p] : r \in requests, p \in profiles}

-----------------------------------------------------------------------------
(* Structure: every program of at most three nodes of these, and larger ones.  *)

Shapes(n) == {p \in [1..n -> 0..n-1] :
                p[1] = 0 /\ \A i \in 2..n : p[i] \in 1..i-1}
KidsOf(p) == [i \in DOMAIN p |-> SetToSortSeq({j \in DOMAIN p : p[j] = i}, <)]

Leaves == {Literal("yes"), Literal("no"), Literal("ab"), Name("x"), Name("obj"),
           Name("unknown"), Array, Label("function", "h")}
Singles == {Array, Member("m"), Member("q"), Label("unary", "!"), Label("method", "h"),
            Function("f", <<>>)}
Pairs == {Array, Label("and", "&&"), Label("or", "||"), Label("binary", "+"),
          Label("binary", "=="), Label("function", "h"), Function("f", <<"x">>)}
LabelsFor(n) == CASE n = 0 -> Leaves [] n = 1 -> Singles [] n = 2 -> Pairs [] OTHER -> {}

Small(n) ==
  UNION {LET kids == KidsOf(p)
         IN  {Program(kids, l) :
                l \in {m \in [1..n -> Leaves \cup Singles \cup Pairs] :
                         \A i \in 1..n : m[i] \in LabelsFor(Len(kids[i]))}}
         : p \in Shapes(n)}

\* f(x: "ab") = f(x: [x]) = [x, x]: the inner x hides the outer one, whose
\* value the argument still sees.
Shadowing ==
  Program(<<<<2, 3>>, <<>>, <<4, 6>>, <<5>>, <<>>, <<7, 8>>, <<>>, <<>>>>,
          <<Function("f", <<"x">>), Literal("ab"), Function("f", <<"x">>), Array,
            Name("x"), Array, Name("x"), Name("x")>>)

\* f(x: "ab", y: x) = [g() = [y, x], x]: g's body sees the frame of f, the
\* argument of y the variable x.
Dynamic ==
  Program(<<<<2, 3, 4>>, <<>>, <<>>, <<5, 9>>, <<6>>, <<7, 8>>, <<>>, <<>>, <<>>>>,
          <<Function("f", <<"x", "y">>), Literal("ab"), Name("x"), Array,
            Function("g", <<>>), Array, Name("y"), Name("x"), Name("x")>>)

\* (yes || h()) && (no || yes): h is not called.
Decided ==
  Program(<<<<2, 5>>, <<3, 4>>, <<>>, <<>>, <<6, 7>>, <<>>, <<>>>>,
          <<Label("and", "&&"), Label("or", "||"), Literal("yes"), Label("function", "h"),
            Label("or", "||"), Literal("no"), Literal("yes")>>)

Larger == {Shadowing, Dynamic, Decided}

Registries ==
  {<<>>, Registrations(Meta, Handler("list", 2)),
   Registrations(Meta, Handler("fail", 1)) \o Not(Meta, Handler("fail", 0)),
   Registrations(Meta, Handler("list", 0)) \o Registrations(Other, Handler("fail", 0)),
   Registrations(Other, Handler("list", 0)) \o Registrations(Meta, Handler("list", 0))
     \o Not(Other, Handler("fail", 0)) \o Not(DefaultMeta, Handler("list", 0))}

Structure ==
  {Request(p, Schema(Capabilities(H, Meta)), Context(r)) :
     p \in UNION {Small(n) : n \in 1..3} \cup Larger, r \in Registries}

\* h is not in the schema: the analysis lets it pass without a ticket.
Unresolved ==
  {Request(Flat(Label("and", "&&"), kids), Schema(Capabilities({}, Meta)), Context(<<>>)) :
     kids \in {<<Literal("no"), Label("function", "h")>>,
               <<Label("function", "h"), Literal("no")>>}}

\* The host's own negation, as the analysis saw it, or for responses only.
Overridden ==
  {Request(Flat(Label("unary", "!"), <<Literal("yes")>>),
           Schema(Capabilities({<<"unary", "!", 1>>}, m)), Context(Not(m, Handler("list", 0)))) :
     m \in {Meta, Other}}

Tight ==
  {[Roomy EXCEPT !.steps = n] : n \in {0, 2, 5}}
    \cup {[Roomy EXCEPT !.depth = n] : n \in {0, 1, 3}}
    \cup {[Roomy EXCEPT !.total = n] : n \in {1, 4, 9}}
    \cup {[Roomy EXCEPT !.items = 1], [Roomy EXCEPT !.string = 1], [Roomy EXCEPT !.value = 3]}

Limited ==
  WithLimits(
    {Request(p, Schema(Capabilities(H, Meta)), Context(Registrations(Meta, Handler("list", 2)))) :
       p \in Small(1) \cup Small(2) \cup Larger
         \cup {q \in Small(3) : q.kind[1] \in {"array", "expression function", "function", "binary"}
                                  /\ Name("unknown")[2] \notin {q.name[i] : i \in 1..3}}},
    Tight)

\* Limits of the analysis, with inlined calls counted or not.
Bounded ==
  Under({[Request([p EXCEPT !.expanded[2] = n], Schema(Capabilities(H, Meta)),
                  Context(Registrations(Meta, Handler("list", 0)))) EXCEPT !.dialect = d] :
           p \in Larger \cup {Flat(Label("function", "h"), <<Literal("one"), Literal("half")>>),
                              Flat(Label("binary", "-"), <<Literal("one"), Literal("one")>>),
                              Flat(Label("unary", "-"), <<Literal("one")>>)},
           n \in {0, 1}, d \in {"Generic", "OxiRuleV1"}},
        {Profile, [Profile EXCEPT !.depth = 1], [Profile EXCEPT !.depth = 2],
         [Profile EXCEPT !.depth = 0]}
          \cup {[Profile EXCEPT !.nodes = n] : n \in {1, 3, 8}}
          \cup {[Profile EXCEPT !.cost = n] : n \in {1, 3, 8}})

\* A function that only some phases have, and one that deterministic profiles
\* refuse; a second, other registration.
Lotto == [DefaultMeta EXCEPT !.deterministic = FALSE]
Phased ==
  Under({Request(p, Schema(Capabilities(H, m)), Context(r)) :
           p \in {Chain(<<Label("function", "h")>>)},
           m \in {Other, Lotto, Meta},
           r \in {Registrations(n, Handler("list", 0)) : n \in {Other, Lotto, Meta}}},
        {Profile, [Profile EXCEPT !.phases = {"Response"}],
         [Profile EXCEPT !.phases = {"Request", "Response"}],
         [Profile EXCEPT !.deterministic = FALSE]})

\* Calls with an arity or a name the schema does not have.
Strangers ==
  {[Request(p, Schema(Capabilities({<<"function", "h", 2>>}, Meta)), Context(<<>>))
      EXCEPT !.allowed = a] :
     p \in {Chain(<<Label("function", "h")>>), Chain(<<Label("function", "g")>>),
            Chain(<<Label("method", "h"), Literal("ab")>>), Chain(<<Name("unknown")>>),
            Chain(<<Name("x")>>)},
     a \in SUBSET {"variable", "function", "method"}}

-----------------------------------------------------------------------------
(* Bodies: paths through parameters, arrays, calls and decided operands.       *)

HostBody(size, bytes) == Object(<<"Size", "Bytes">>, <<Integer(size), Text(bytes)>>)
Envelope(body, id) == Object(<<"Body", "Http", "Id">>, <<body, Object(<<"Body">>, <<body>>), id>>)
BodyOf(target, body) ==
  {[target |-> target, access |-> 2, value |-> body],
   [target |-> target, access |-> 1, value |-> body.parts[1]],
   [target |-> target, access |-> 2, value |-> body.parts[2]]}

RequestBody == HostBody(5, <<"a", "A">>)
ResponseBody == HostBody(6, <<"b", "A">>)
RequestId == Text(<<"B">>)
StreamPayload == Text(<<"A", "B">>)

BodyContext(withId) ==
  [Context(Registrations(DefaultMeta, Handler("list", 1))) EXCEPT
     !.variables = [Request |-> Envelope(RequestBody, RequestId),
                    Response |-> Envelope(ResponseBody, RequestId),
                    Stream |-> Object(<<"Payload">>, <<StreamPayload>>)],
     !.bodies = BodyOf("Request", RequestBody) \cup BodyOf("Response", ResponseBody)
                  \cup {[target |-> "Stream", access |-> 2, value |-> StreamPayload]}
                  \cup IF withId THEN {[target |-> "Request", access |-> 1, value |-> RequestId]}
                       ELSE {}]

BodySchema(withId) ==
  [variables |-> [Request |-> {}, Response |-> {"Response", "Stream"}, Stream |-> {}],
   capabilities |-> Capabilities(H, DefaultMeta),
   paths |-> IF withId THEN [p \in {<<"Request", "Id">>, <<"Response", "Id">>} |-> <<"Request", 1>>]
             ELSE NoPaths]

Paths ==
  {<<"Request">>, <<"Request", "Id">>, <<"Stream">>, <<"Stream", "Payload">>,
   <<"Request", "Http">>, <<"Request", "Http", "Body">>, <<"Request", "Http", "Body", "Size">>}
    \cup {<<s>> \o rest : s \in Sides,
            rest \in {<<"Body">>, <<"Body", "Size">>, <<"Body", "Bytes">>}}

\* The labels of a path, from the outermost member to the variable.
Steps(path) ==
  [k \in DOMAIN path |-> IF k = Len(path) THEN Name(path[1]) ELSE Member(path[Len(path) - k + 1])]

\* f(x: first) = wrap of x.rest, wrap being a chain of labels.
Split(path, cut, wrap) ==
  LET inside == wrap \o [k \in 1 .. Len(path) - cut |-> Member(path[Len(path) - k + 1])]
                  \o <<Name("x")>>
      outside == Steps(SubSeq(path, 1, cut))
      labels == <<Function("f", <<"x">>)>> \o outside \o inside
      first == 1 + Len(outside)
  IN  Program([i \in DOMAIN labels |->
                 CASE i = 1 -> <<2, first + 1>>
                   [] i \in {first, Len(labels)} -> <<>>
                   [] OTHER -> <<i + 1>>], labels)

\* A label over a path and the literal ab, in either order.
Beside(label, path, last) ==
  LET chain == Steps(path)
  IN  IF last
      THEN Program([i \in 1 .. Len(path) + 2 |->
                      CASE i = 1 -> <<2, 3>> [] i \in {2, Len(path) + 2} -> <<>>
                        [] OTHER -> <<i + 1>>],
                   <<label, Literal("yes")>> \o chain)
      ELSE Program([i \in 1 .. Len(path) + 2 |->
                      CASE i = 1 -> <<2, Len(path) + 2>>
                        [] i \in {Len(path) + 1, Len(path) + 2} -> <<>>
                        [] OTHER -> <<i + 1>>],
                   <<label>> \o chain \o <<Literal("yes")>>)

BodyPrograms ==
  UNION {{Chain(Steps(p)), Chain(<<Array>> \o Steps(p)), Chain(<<Label("method", "h")>> \o Steps(p)),
          Beside(Label("binary", "=="), p, FALSE), Beside(Label("or", "||"), p, TRUE),
          Beside(Label("and", "&&"), p, TRUE), Beside(Function("f", <<"x">>), p, FALSE)}
           \cup {Split(p, cut, wrap) : cut \in 1 .. Len(p),
                   wrap \in {<<>>, <<Array>>, <<Function("g", <<>>)>>, <<Array, Array>>}}
         : p \in Paths}

AllowBodies(n) == [t \in Sides \cup {"Stream"} |-> n]
BodyProfiles ==
  {[Profile EXCEPT !.phases = p, !.id = id] :
     p \in {{"Request"}, {"Stream"}}, id \in {"WafRequest", "MitigationField"}}
    \cup {[Profile EXCEPT !.phases = {"Request", "Response"}, !.body = AllowBodies(n)] : n \in 0 .. 1}
    \cup {[Profile EXCEPT !.phases = {"Response"}]}

Bodied ==
  Under({[Request(p, BodySchema(withId), BodyContext(withId)) EXCEPT !.allowed = {}] :
           p \in BodyPrograms, withId \in BOOLEAN},
        BodyProfiles)

-----------------------------------------------------------------------------
(* Regexes and pattern sets *)

Matches(meta, flavor) ==
  <<Registration(<<"method", "matches", 1>>, meta,
                 [does |-> "matches", work |-> 0, flavor |-> flavor])>>
Patterned(flavors) == [DefaultMeta EXCEPT !.regex = flavors]

RegexPrograms ==
  {Flat(Label("method", "matches"), <<Literal("ab"), pattern>>) :
     pattern \in {Literal("a"), Literal("BA"), Literal("paren"), Literal("one"), Name("x")}}
    \cup {[Flat(Label("method", "matches"), <<Literal("ab"), Literal("a")>>)
             EXCEPT !.expanded[3] = 1],
          Program(<<<<2, 3>>, <<>>, <<4>>, <<>>>>,
                  <<Label("method", "matches"), Literal("ab"), Function("f", <<>>), Literal("a")>>),
          Program(<<<<2, 5>>, <<3, 4>>, <<>>, <<>>, <<6, 7>>, <<>>, <<>>>>,
                  <<Label("and", "&&"), Label("method", "matches"), Literal("ab"), Literal("a"),
                    Label("method", "matches"), Name("x"), Literal("ab")>>)}

Regexed ==
  {[Request(p, Schema(Capabilities({<<"method", "matches", 1>>}, Patterned(declared))),
            Context(Matches(Patterned(declared), "plain")))
      EXCEPT !.profile.regex = policy, !.limits.total = total] :
     p \in RegexPrograms, policy \in {"forbid", "literal", "dynamic"}, total \in {9, 99},
     declared \in {<<>>, <<<<0, "plain">>>>, <<<<0, "bytes">>>>, <<<<0, "bytes">>, <<0, "plain">>>>}}

Config(name, kind, patterns) == [name |-> name, kind |-> kind, patterns |-> patterns]
A == <<"a">>
ConfigLists ==
  {<<>>, <<Config(A, "contains", <<A>>)>>, <<Config(A, "regex", <<<<"b">>, A>>)>>,
   <<Config(A, "contains", <<>>), Config(<<"b">>, "regex", <<A, <<"a", "b">>>>)>>,
   <<Config(A, "contains", <<A>>), Config(A, "regex", <<A>>)>>,
   <<Config(A, "regex", <<<<"(">>>>)>>, <<Config(A, "contains", <<<<"(">>>>)>>,
   <<Config(<<" ">>, "contains", <<A>>)>>, <<Config(<<>>, "contains", <<A>>)>>,
   <<Config(<<"a", "b", "a">>, "contains", <<A>>)>>,
   <<Config(<<"a", "b">>, "contains", <<A>>), Config(<<"b", "a">>, "contains", <<A>>)>>,
   <<Config(A, "regex", <<A, A, A>>)>>, <<Config(A, "contains", <<<<"a", "b", "a">>>>)>>,
   <<Config(A, "contains", <<<<"a", "b">>, A>>), Config(<<"b">>, "contains", <<<<"b", "b">>>>)>>,
   <<Config(A, "regex", <<A, <<"b">>>>), Config(<<"b">>, "regex", <<A>>)>>,
   <<Config(A, "contains", <<A>>), Config(<<"b">>, "contains", <<A>>),
     Config(<<"B">>, "contains", <<A>>)>>}

SetPrograms ==
  {Program(<<<<2, 5>>, <<3, 4>>, <<>>, <<>>, <<>>>>,
           <<Label("method", "containsAny"), Array, first, Literal("BA"), name>>) :
     first \in {Literal("ab"), Literal("mixed"), Literal("one")},
     name \in {Literal("a"), Literal("ab"), Literal("one")}}
    \cup {Flat(Label("method", "containsAny"), <<receiver, Literal("a")>>) :
            receiver \in {Literal("ab"), Literal("one"), Array}}

AnySet == Capabilities({<<"method", "containsAny", 1>>}, DefaultMeta)
PatternSets ==
  {[Request(p, Schema(AnySet),
            Context(<<Registration(<<"method", "containsAny", 1>>, DefaultMeta,
                                   Handler("containsAny", 0))>>))
      EXCEPT !.context.configs = configs, !.limits.total = total] :
     p \in SetPrograms, configs \in ConfigLists, total \in {20, 99}}

-----------------------------------------------------------------------------
(* Default methods and numbers *)

Defaults == {<<"len", 0>>, <<"contains", 1>>, <<"contains_key", 1>>, <<"starts_with", 1>>,
             <<"ends_with", 1>>, <<"lower_ascii", 0>>, <<"upper_ascii", 0>>}
DefaultMethods == {<<"method", d[1], d[2]>> : d \in Defaults}
DefaultRegistry ==
  LET tickets == SetToSeq(DefaultMethods)
  IN  [k \in DOMAIN tickets |-> Registration(tickets[k], DefaultMeta, Handler(tickets[k][2], 0))]

Defaulted ==
  WithLimits(
    {Request(Flat(Label("method", d[1]), <<receiver>> \o args),
             Schema(Capabilities(DefaultMethods, DefaultMeta)), Context(DefaultRegistry)) :
       d \in Defaults, receiver \in {Literal("mixed"), Literal("yes"), Name("obj"), Array},
       args \in {<<>>, <<Literal("a")>>, <<Literal("BA")>>, <<Literal("one")>>, <<Literal("mixed")>>}},
    {Roomy, [Roomy EXCEPT !.string = 1], [Roomy EXCEPT !.total = 4]})

Applied(op, values) ==
  [Request(Flat(Label(IF Len(values) = 1 THEN "unary" ELSE "binary", op),
                [k \in DOMAIN values |-> Name(IF k = 1 THEN "x" ELSE "obj")]),
           Schema(Capabilities({}, DefaultMeta)),
           [Context(<<>>) EXCEPT !.variables = [x |-> values[1], obj |-> values[Len(values)]]])
     EXCEPT !.limits.string = 3]

Numbers ==
  {Integer(n) : n \in MinInt .. MaxInt}
    \cup {Float(n) : n \in {-48, -12, -6, -3, -1, 0, 1, 2, 3, 8, 12, 16, 48}}
Few == {Integer(n) : n \in {MinInt, -1, 0, 3, MaxInt}} \cup {Float(n) : n \in {-48, -1, 0, 3, 48}}
         \cup {Text(<<>>), Text(<<"a">>), AB, Text(<<"B", "A", "b">>), Bool(TRUE)}

Numeric ==
  {Applied("<", <<a, b>>) : a \in Numbers, b \in Numbers}
    \cup {Applied(op, <<a, b>>) :
            op \in Arithmetic \cup Comparison \cup {"==", "!="}, a \in Few, b \in Few}
    \cup {Applied(op, <<a>>) : op \in {"-", "!"}, a \in Numbers \cup Few}

MCRequests ==
  Structure \cup Unresolved \cup Overridden \cup Limited \cup Bounded \cup Phased
    \cup Strangers \cup Bodied \cup Regexed \cup PatternSets \cup Defaulted \cup Numeric

Parts(S) == UNION {ToSet(v.parts) : v \in S}
MCHostValues ==
  LET contexts == {Context(<<>>), BodyContext(TRUE)}
      values == Range(Literals) \cup Numbers \cup Few
                  \cup UNION {Range(c.variables) : c \in contexts}
  IN  values \cup Parts(values) \cup Parts(Parts(values)) \cup Parts(Parts(Parts(values)))
=============================================================================
