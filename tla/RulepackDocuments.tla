------------------------- MODULE RulepackDocuments -------------------------
(***************************************************************************)
(* Rulepack manifests as the renderer sees them once TOML is decoded, and  *)
(* the checks that read a document without changing it (types.rs,          *)
(* validation.rs, input.rs, exceptions.rs and parts of mod.rs).            *)
(*                                                                         *)
(*   rule      [name, id, tags, stream, parts, path, settings, when,       *)
(*              actions]: parts is a subset of {"content", "path"}         *)
(*   action    [type, name, fields]: rate and body are texts, burst and    *)
(*              status numbers; empty or zero when unset                   *)
(*   override  [selector, action, sets]: sets has the fields it sets       *)
(*   exception [name, ids, names, tags, expires, reason]                   *)
(*   document  [title, variables, bindings, overrides, exceptions, groups, *)
(*              mode, commit]; its rules are kept beside it                *)
(* An optional value is a set of at most one element. Names, ids and tags  *)
(* hold no markers: validate_label refuses most of them.                   *)
(***************************************************************************)
EXTENDS Templates

CONSTANT PackName   \* rulepack.name of the manifest

RuleFields == {"mode", "priority", "enabled"}
ActionFields == {"rate", "burst", "status", "body"}
TextFields == {"rate", "body"}
NoAction == [type |-> "none", name |-> {}]

-----------------------------------------------------------------------------
\* The types serde gives a document (types.rs).

IsAction(a) ==
  /\ DOMAIN a = {"type", "name", "fields"} /\ DOMAIN a.fields = ActionFields
  /\ IsFunction(a) /\ IsFunction(a.fields)
  /\ Listed(a.fields.rate) /\ Listed(a.fields.body)

AreActions(as) == Listed(as) /\ \A k \in DOMAIN as : IsAction(as[k])
IsContent(when, as) == Listed(when) /\ AreActions(as)

IsRule(r) ==
  /\ DOMAIN r = {"name", "id", "tags", "stream", "parts", "path", "settings", "when", "actions"}
  /\ IsFunction(r) /\ IsFiniteSet(r.tags) /\ IsContent(r.when, r.actions)

IsOverride(o) ==
  /\ DOMAIN o = {"selector", "action", "sets"} /\ IsFiniteSet(o.selector.tags)
  /\ \A f \in TextFields \cap DOMAIN o.sets : Listed(o.sets[f])

IsException(e) ==
  /\ DOMAIN e = {"name", "ids", "names", "tags", "expires", "reason"}
  /\ IsFiniteSet(e.ids) /\ IsFiniteSet(e.names) /\ IsFiniteSet(e.tags) /\ Listed(e.reason)
  /\ IsFunction(e) /\ e.expires \in Int

IsOptional(texts) == (\A t \in texts : Listed(t)) /\ \A s, t \in texts : s = t

IsVariable(v) ==
  /\ DOMAIN v = {"name", "default", "required"} /\ IsFunction(v)
  /\ IsOptional(v.default) /\ v.required \in BOOLEAN

AreRules(rs) == Listed(rs) /\ \A j \in DOMAIN rs : IsRule(rs[j])
AreOverrides(os) == Listed(os) /\ \A i \in DOMAIN os : IsOverride(os[i])
AreExceptions(es) == Listed(es) /\ \A i \in DOMAIN es : IsException(es[i])
AreTexts(texts) == \A n \in DOMAIN texts : Listed(texts[n])

IsDocument(d) ==
  /\ DOMAIN d = {"title", "variables", "bindings", "overrides", "exceptions", "groups",
                 "mode", "commit"}
  /\ IsFunction(d) /\ Listed(d.title) /\ IsOptional(d.commit)
  /\ Listed(d.variables) /\ \A i \in DOMAIN d.variables : IsVariable(d.variables[i])
  /\ AreOverrides(d.overrides) /\ AreExceptions(d.exceptions)
  /\ Listed(d.groups) /\ AreTexts(d.groups)

IsOptions(o) ==
  /\ AreTexts(o.supplied) /\ AreOverrides(o.overrides) /\ AreExceptions(o.exceptions)
  /\ IsOptional(o.commit)

-----------------------------------------------------------------------------
\* Validation of one override, without looking at any rule.

\* validate_selector: exactly one kind, and this rulepack's name.
ValidSelector(s) ==
  /\ Cardinality({k \in DOMAIN s : s[k] # {}}) = 1
  /\ s.rulepack \subseteq {PackName}

\* validate_action_selector and validate_action_fields.
ValidAction(o) ==
  /\ o.action.type \in {"rate_limit", "reject", "replace_response", "reject_response"}
  /\ o.action.type = "rate_limit" => o.action.name # {}
  /\ DOMAIN o.sets \cap {"rate", "burst"} # {} => o.action.type = "rate_limit"

\* validate_override; a rate must be a rate, so it holds no marker and no brace.
ValidOverride(o) ==
  /\ ValidSelector(o.selector)
  /\ DOMAIN o.sets # {}
  /\ (o.action # NoAction) = (DOMAIN o.sets \cap ActionFields # {})
  /\ o.action # NoAction => ValidAction(o)
  /\ "rate" \in DOMAIN o.sets => Braceless(o.sets.rate)
  /\ "status" \in DOMAIN o.sets => o.sets.status \in 100 .. 599

-----------------------------------------------------------------------------
\* Selection.

\* selector_precedence.
Precedence(o) ==
  CASE o.selector.rulepack # {} -> 0
    [] o.selector.rulepack = {} /\ o.selector.tags # {} -> 1
    [] OTHER -> 2

\* selector_matches_rule.
MatchesRule(o, r) ==
  \/ PackName \in o.selector.rulepack
  \/ o.selector.tags \cap r.tags # {}
  \/ r.id \in o.selector.rule_id
  \/ r.name \in o.selector.rule_name

\* action_matches_selector: a selector without a name takes any.
MatchesAction(s, a) == a.type = s.type /\ (s.name = {} \/ a.name \in s.name)

Targets(o, as) == {k \in DOMAIN as : MatchesAction(o.action, as[k])}

-----------------------------------------------------------------------------
\* Sizes.

FieldBytes(f, v) == IF f \in TextFields THEN Len(v) ELSE IF v = 0 THEN 0 ELSE 1

ActionBytes(a) ==
  FieldBytes("rate", a.fields.rate) + FieldBytes("burst", a.fields.burst)
    + FieldBytes("status", a.fields.status) + FieldBytes("body", a.fields.body)

ContentBytes(when, as) ==
  Len(when) + SumOf([k \in DOMAIN as |-> ActionBytes(as[k])])

\* estimate_value of a rule: its settings and, when inline, its content.
RuleBytes(r) ==
  1 + (IF r.settings.mode = "" THEN 0 ELSE 1)
    + (IF "content" \in r.parts THEN ContentBytes(r.when, r.actions) ELSE 0)

\* table.insert for every field an override sets.
Overlay(names, sets, fields) ==
  [f \in names |-> IF f \in DOMAIN sets THEN sets[f] ELSE fields[f]]

\* action_projection: what one field may add, and the strings it clones.
GrowthOf(o, f) == IF f \in DOMAIN o.sets THEN FieldBytes(f, o.sets[f]) ELSE 0
ReplacementBytes(o) == GrowthOf(o, "rate") + GrowthOf(o, "body")

OverrideBytes(o) == 1 + ReplacementBytes(o)
ExceptionBytes(e) == 1 + Len(e.reason)

-----------------------------------------------------------------------------
\* The texts of a document, and the document with its texts rendered.

OverrideTexts(o) ==
  (IF "rate" \in DOMAIN o.sets THEN <<o.sets.rate>> ELSE <<>>)
    \o (IF "body" \in DOMAIN o.sets THEN <<o.sets.body>> ELSE <<>>)

\* The strings render_manifest_value meets: all but the embedded contents.
ManifestTexts(d) ==
  <<d.title>> \o SetToSeq(d.commit)
    \o FlattenSeq([i \in DOMAIN d.variables |-> SetToSeq(d.variables[i].default)])
    \o FlattenSeq([i \in DOMAIN d.overrides |-> OverrideTexts(d.overrides[i])])
    \o [i \in DOMAIN d.exceptions |-> d.exceptions[i].reason]

\* The strings of a nested rule file.
ContentTexts(when, as) ==
  <<when>> \o FlattenSeq([k \in DOMAIN as |-> <<as[k].fields.rate, as[k].fields.body>>])

\* The bytes of the same texts.
TextBytes(d) ==
  Len(d.title) + OptionalBytes(d.commit)
    + SumOf([i \in DOMAIN d.variables |-> OptionalBytes(d.variables[i].default)])
    + SumOf([i \in DOMAIN d.overrides |-> ReplacementBytes(d.overrides[i])])
    + SumOf([i \in DOMAIN d.exceptions |-> Len(d.exceptions[i].reason)])

ContentTextBytes(when, as) ==
  Len(when) + SumOf([k \in DOMAIN as |-> Len(as[k].fields.rate) + Len(as[k].fields.body)])

\* render_manifest_strings, when every text renders.
RenderedVariable(v, values) == [v EXCEPT !.default = {Substitute(t, values) : t \in @}]

RenderedOverride(o, values) ==
  [o EXCEPT !.sets = [f \in DOMAIN @ |->
     IF f \in TextFields THEN Substitute(@[f], values) ELSE @[f]]]

RenderedException(e, values) == [e EXCEPT !.reason = Substitute(@, values)]

RenderedManifest(d, values) ==
  [d EXCEPT
     !.title = Substitute(@, values),
     !.commit = {Substitute(t, values) : t \in @},
     !.variables = [i \in DOMAIN @ |-> RenderedVariable(@[i], values)],
     !.overrides = [i \in DOMAIN @ |-> RenderedOverride(@[i], values)],
     !.exceptions = [i \in DOMAIN @ |-> RenderedException(@[i], values)]]

RenderedActions(as, values) ==
  [k \in DOMAIN as |->
     [as[k] EXCEPT !.fields = [f \in ActionFields |->
        IF f \in TextFields THEN Substitute(@[f], values) ELSE @[f]]]]

\* render_nested_file on the content of a rule.
RenderedRule(r, values) ==
  [r EXCEPT !.when = Substitute(@, values), !.actions = RenderedActions(@, values)]

DocumentBytes(d, rs) ==
  TextBytes(d) + BytesOf(d.groups)
    + Len(d.variables) + Len(d.overrides) + Len(d.exceptions)
    + (IF d.mode = "" THEN 0 ELSE 1)
    + SumOf([j \in DOMAIN rs |-> RuleBytes(rs[j])])

-----------------------------------------------------------------------------
\* Checks of a document.

UniqueNames(items) ==
  \A i, j \in DOMAIN items : items[i].name = items[j].name => i = j

\* validate_rulepack_inputs: names and render targets do not collide.
ValidInputs(d) ==
  /\ UniqueNames(d.variables) /\ UniqueNames(d.bindings)
  /\ \A i \in DOMAIN d.bindings, j \in DOMAIN d.variables :
       d.variables[j].name \notin {d.bindings[i].name, d.bindings[i].as}
  /\ \A i, j \in DOMAIN d.bindings : d.bindings[i].as = d.bindings[j].as => i = j

ValidOverrides(os) == \A i \in DOMAIN os : ValidOverride(os[i])

\* validate_document_shape.
ShapeValid(d, rs) ==
  /\ rs # <<>> \/ d.groups # <<>>
  /\ ValidInputs(d)
  /\ ValidOverrides(d.overrides)
  /\ UniqueNames(rs)

\* validate_exception_shapes; the traffic selectors are not modelled.
ExceptionShapes(es) ==
  /\ UniqueNames(es)
  /\ \A i \in DOMAIN es :
       /\ es[i].ids \cup es[i].names \cup es[i].tags # {}
       /\ es[i].reason # <<>>

\* exception_matches_rule.
ExceptionMatches(e, r) ==
  r.id \in e.ids \/ r.name \in e.names \/ e.tags \cap r.tags # {}

\* validate_rulepack_exceptions: an exception that has not expired matches
\* a rule, and none of the stream phase. expires is 0 when there is no date.
ExceptionsValid(es, rs, now) ==
  /\ ExceptionShapes(es)
  /\ \A i \in DOMAIN es : es[i].expires = 0 \/ es[i].expires > now =>
       LET hit == {j \in DOMAIN rs : ExceptionMatches(es[i], rs[j])}
       IN hit # {} /\ \A j \in hit : ~rs[j].stream

\* validate_document_references: content or path, and not both.
ReferencesValid(rs) == \A j \in DOMAIN rs : Cardinality(rs[j].parts) = 1

-----------------------------------------------------------------------------
\* Variables.

Names(items) == {items[i].name : i \in DOMAIN items}
Targeted(d) == {d.bindings[i].as : i \in DOMAIN d.bindings}

\* What a name resolves to: what was supplied, or its default.
Resolutions(d, supplied, n) ==
  IF n \in DOMAIN supplied THEN {supplied[n]}
  ELSE UNION {d.variables[i].default : i \in {j \in DOMAIN d.variables : d.variables[j].name = n}}

\* resolve_variables fails on a name nobody declares and on a required one
\* without a value.
Resolvable(d, supplied) ==
  /\ DOMAIN supplied \subseteq Names(d.variables) \cup Targeted(d)
  /\ \A i \in DOMAIN d.variables :
       d.variables[i].required => Resolutions(d, supplied, d.variables[i].name) # {}
  /\ \A i \in DOMAIN d.bindings : d.bindings[i].required => d.bindings[i].as \in DOMAIN supplied

\* resolve_variables, when it succeeds.
Resolved(d, supplied) ==
  [n \in {m \in Names(d.variables) \cup Targeted(d) : Resolutions(d, supplied, m) # {}} |->
     CHOOSE t \in Resolutions(d, supplied, n) : TRUE]

\* pin_variable_defaults: the value a variable got becomes its default.
PinnedVariable(v, pin, values) ==
  IF pin /\ v.name \in DOMAIN values
    THEN [v EXCEPT !.default = {values[v.name]}, !.required = FALSE] ELSE v
=============================================================================
