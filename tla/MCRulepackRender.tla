-------------------------- MODULE MCRulepackRender --------------------------
(***************************************************************************)
(* Requests for RulepackRender, in families: overrides of every precedence *)
(* in both scopes, overrides that must be refused, texts with markers and  *)
(* braces, options and exceptions, bundles, and one request per limit.     *)
(***************************************************************************)
EXTENDS RulepackRender

Limits ==
  {"manifest", "overrides", "exceptions", "overrideBody", "localOptions", "files", "variables",
   "value", "totalValues", "file", "selector", "placeholders", "input", "output"}

A == Word("a")
B == Word("b")
X == Marker("x")

-----------------------------------------------------------------------------
\* Rules.

Action(type, name, rate, body) ==
  [type |-> type, name |-> name,
   fields |-> [rate |-> rate, burst |-> 0, status |-> 0, body |-> body]]

Inlined(name, id, tags, as) ==
  [name |-> name, id |-> id, tags |-> tags, stream |-> FALSE, parts |-> {"content"}, path |-> "",
   settings |-> [mode |-> "", priority |-> 1], when |-> <<A>>, actions |-> as]

Referring(name, path) ==
  [Inlined(name, "9", {"t"}, <<>>) EXCEPT !.parts = {"path"}, !.path = path, !.when = <<>>]

Limited == Action("rate_limit", "a", <<A>>, <<>>)
LimitedToo == Action("rate_limit", "b", <<A>>, <<>>)
Rejected == Action("reject", "", <<>>, <<A>>)

First == Inlined("first", "1", {"t"}, <<Limited, LimitedToo, Rejected>>)
Second == Inlined("second", "2", {"t", "u"}, <<Rejected>>)
Twice == Inlined("twice", "3", {"u"}, <<Rejected, Rejected>>)
Streamed == [Second EXCEPT !.stream = TRUE]
Both == [Second EXCEPT !.parts = {"content", "path"}, !.path = "p"]
Neither == [Second EXCEPT !.parts = {}, !.when = <<>>, !.actions = <<>>]

MCFiles == [p |-> [when |-> <<A, X>>, actions |-> <<Action("reject", "", <<>>, <<X>>)>>],
            plain |-> [when |-> <<A>>, actions |-> <<>>]]

-----------------------------------------------------------------------------
\* Overrides.

Selector(k, v) == [[rulepack |-> {}, tags |-> {}, rule_id |-> {}, rule_name |-> {}] EXCEPT ![k] = {v}]
Sets(selector, sets) == [selector |-> selector, action |-> NoAction, sets |-> sets]
Acts(selector, type, name, sets) ==
  [selector |-> selector, action |-> [type |-> type, name |-> name], sets |-> sets]

Pack == Selector("rulepack", PackName)
Tag == Selector("tags", "t")
Id == Selector("rule_id", "1")
Name == Selector("rule_name", "second")

Pool == {
  Sets(Pack, [enabled |-> FALSE]),
  Sets(Pack, [mode |-> "monitor", priority |-> 3]),
  Sets(Tag, [enabled |-> TRUE, priority |-> 2]),
  Sets(Id, [enabled |-> FALSE]),
  Sets(Name, [enabled |-> TRUE, mode |-> "enforcing"]),
  Acts(Id, "rate_limit", {"a"}, [rate |-> <<B, B, B>>]),
  Acts(Id, "rate_limit", {"a"}, [rate |-> <<B, B>>, burst |-> 4, mode |-> "monitor"]),
  Acts(Pack, "reject", {}, [status |-> 403, body |-> <<B, B>>]),
  Acts(Tag, "reject", {}, [body |-> <<>>])}

\* Refused when validated, or when they are matched.
BadPool == {
  [Sets(Pack, [enabled |-> TRUE]) EXCEPT !.selector.tags = {"t"}],
  Sets(Selector("rulepack", "other"), [enabled |-> TRUE]),
  Sets(Pack, <<>>),
  Sets(Pack, [body |-> <<A>>]),
  Sets(Selector("tags", "none"), [enabled |-> FALSE]),
  Acts(Id, "rate_limit", {}, [rate |-> <<A>>]),
  Acts(Id, "rate_limit", {"a"}, [rate |-> <<X>>]),
  Acts(Id, "reject", {}, [rate |-> <<A>>]),
  Acts(Pack, "reject", {}, [status |-> 600]),
  Acts(Pack, "log", {}, [status |-> 500]),
  Acts(Pack, "rate_limit", {"a"}, [burst |-> 1]),
  Acts(Selector("tags", "u"), "reject", {}, [status |-> 500])}

-----------------------------------------------------------------------------
\* Requests.

Base ==
  [title |-> <<A>>, variables |-> <<>>, bindings |-> <<>>, overrides |-> <<>>, exceptions |-> <<>>,
   groups |-> <<>>, mode |-> "", commit |-> {}]

Options == [Outcome!InstallOptions EXCEPT !.pin = FALSE]

Request(h, rs, o) == [manifest |-> [head |-> h, rules |-> rs], options |-> o, limits |-> [k \in {} |-> 0]]

Overriding(manifestPool, m, localPool, n, ruleSets, pins) ==
  {Request([Base EXCEPT !.overrides = os], rs, [Options EXCEPT !.overrides = ls, !.pin = pin]) :
     os \in SeqOf(manifestPool, m), ls \in SeqOf(localPool, n), rs \in ruleSets, pin \in pins}

OverrideFamily ==
  Overriding(Pool, 2, Pool, 1, {<<First, Second>>}, {TRUE})
    \cup Overriding(Pool, 1, Pool, 2, {<<First, Second>>}, {FALSE})
    \cup Overriding(Pool \cup BadPool, 1, BadPool, 1, {<<First, Second>>, <<First, Twice>>}, {FALSE})
    \cup Overriding(Pool, 1, {}, 0,
                    {<<First, Both>>, <<First, Neither>>, <<First, First>>, <<>>}, BOOLEAN)

Variable(default, required) == [name |-> "x", default |-> default, required |-> required]
Binding(as, required) == [name |-> "y", as |-> as, required |-> required]

Templated(title, body, when) ==
  Request([Base EXCEPT !.title = title, !.groups = <<<<A, X>>>>,
             !.overrides = <<Acts(Id, "reject", {}, [body |-> body])>>],
          <<[First EXCEPT !.when = when], Second>>, [Options EXCEPT !.pin = TRUE])

TextFamily ==
  {[Templated(title, body, when) EXCEPT
      !.manifest.head.variables = variables, !.manifest.head.bindings = bindings,
      !.options.supplied = supplied] :
     title \in {<<A>>, <<X, A>>, <<Malformed>>, <<Marker("z")>>, <<Marker("y")>>},
     body \in {<<B>>, <<X>>}, when \in {<<A>>, <<X, A, X>>},
     variables \in {<<>>, <<Variable({}, TRUE)>>, <<Variable({<<B, B>>}, TRUE)>>,
                    <<Variable({<<X>>}, FALSE)>>},
     bindings \in {<<>>, <<Binding("x", TRUE)>>, <<Binding("z", FALSE)>>, <<Binding("z", TRUE)>>},
     supplied \in {<<>>, [x |-> <<B>>], [x |-> <<Marker("x")>>, z |-> <<A>>]}}

\* Braces that join in a text as it is given, and in one whose markers got values.
BraceFamily ==
  {[Templated(title, body, when) EXCEPT
      !.manifest.head.variables = <<Variable({default}, TRUE)>>,
      !.manifest.head.bindings = <<Binding("z", FALSE)>>,
      !.options.supplied = supplied] :
     title \in {<<X, X>>, <<X, Open>>, <<Open, X>>, <<Close, X, Close>>,
                <<Open, Open, Word("x"), Close, Close>>, <<Open, Open, A, Close>>,
                <<X, X, Word("x"), Marker("z"), Marker("z")>>},
     body \in {<<Open, B>>, <<Open, Open, Word("x"), Close, Close>>},
     when \in {<<Open, A, Close, X>>, <<X, A, X>>},
     default \in {<<>>, <<B>>},
     supplied \in {<<>>, [x |-> <<>>], [x |-> <<Open>>], [x |-> <<Close>>],
                   [x |-> <<Open>>, z |-> <<Close>>], [x |-> <<B>>, z |-> <<Open, A>>]}}

Exception(name, expires, ids, tags) ==
  [name |-> name, ids |-> ids, names |-> {}, tags |-> tags, expires |-> expires, reason |-> <<A>>]

Exceptions == {<<>>, <<Exception("e", 0, {"2"}, {})>>, <<Exception("e", 1, {"none"}, {})>>,
               <<Exception("f", 2, {}, {"u"})>>, <<Exception("e", 0, {}, {})>>}

OptionFamily ==
  {Request([Base EXCEPT !.exceptions = es, !.overrides = os], rs,
           [Options EXCEPT !.exceptions = ls, !.mode = mode, !.pin = pin,
              !.commit = IF mode = {} THEN {} ELSE {<<A, B>>}]) :
     es \in Exceptions, ls \in Exceptions, pin \in BOOLEAN,
     os \in {<<>>, <<Sets(Name, [enabled |-> FALSE])>>, <<Sets(Tag, [mode |-> "enforcing"])>>},
     rs \in {<<First, Second>>, <<First, Streamed>>},
     mode \in {{}, {[mode |-> "monitor", force |-> TRUE]}, {[mode |-> "monitor", force |-> FALSE]}}}

BundleFamily ==
  {Request([Base EXCEPT !.variables = variables, !.exceptions = es, !.overrides = os],
           <<First, Referring("third", path)>>,
           [Options EXCEPT !.bundle = TRUE, !.pin = pin]) :
     variables \in {<<>>, <<Variable({<<B, B>>}, FALSE)>>}, path \in {"p", "plain", "missing"},
     os \in {<<>>, <<Sets(Id, [enabled |-> FALSE])>>, <<Acts(Tag, "reject", {}, [status |-> 400])>>},
     es \in {<<>>, <<Exception("e", 0, {"9"}, {})>>}, pin \in BOOLEAN}

\* One of everything.
Rich ==
  Request(
    [Base EXCEPT !.title = <<X, A>>, !.groups = <<<<X>>>>, !.variables = <<Variable({<<B>>}, TRUE)>>,
       !.bindings = <<Binding("z", FALSE)>>, !.exceptions = <<Exception("e", 0, {"1"}, {"t"})>>,
       !.overrides = <<Acts(Id, "rate_limit", {"a"}, [rate |-> <<B, B, B>>]),
                       Acts(Tag, "reject", {}, [body |-> <<B, B>>])>>],
    <<[First EXCEPT !.when = <<X, X>>], Second, Referring("third", "p")>>,
    [Options EXCEPT
       !.supplied = [x |-> <<B, B, B>>], !.exceptions = <<Exception("l", 2, {}, {"u"})>>,
       !.overrides = <<Acts(Id, "reject", {}, [body |-> <<A, A, A>>, status |-> 404])>>,
       !.mode = {[mode |-> "monitor", force |-> TRUE]}, !.commit = {<<A>>},
       !.bundle = TRUE, !.pin = TRUE])

RichInline ==
  [Rich EXCEPT !.manifest.rules = <<[First EXCEPT !.when = <<X, X>>], Second>>,
               !.options.bundle = FALSE]

RichBundle ==
  [Rich EXCEPT !.manifest.head.overrides = <<>>, !.options.overrides = <<>>]

Bound(k) ==
  IF k = "output" THEN 380
  ELSE IF k \in {"selector", "input", "manifest"} THEN 50 ELSE 18

LimitFamily ==
  UNION {{[r EXCEPT !.limits = [j \in {k} |-> v]] : v \in 0 .. Bound(k)} :
           r \in {RichInline, RichBundle}, k \in Limits}

MCRequests ==
  OverrideFamily \cup TextFamily \cup BraceFamily \cup OptionFamily \cup BundleFamily
    \cup LimitFamily
=============================================================================
