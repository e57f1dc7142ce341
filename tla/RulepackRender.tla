--------------------------- MODULE RulepackRender ---------------------------
(***************************************************************************)
(* ParsedRulepack::parse and render_rulepack_bundle (rulepack_render/mod.rs)*)
(* with the meter they share (limits.rs): one request is admitted, its     *)
(* variables resolved, its texts rendered, its overrides applied, the      *)
(* options worked in, and the result checked and written. Every stage may  *)
(* refuse. What was rendered for installation may be rendered again.       *)
(* Records are those of RulepackDocuments and RulepackOutcome.             *)
(***************************************************************************)
EXTENDS Overrides

CONSTANTS
  Requests,   \* what hosts ask: [manifest, options, limits]
  Files       \* what the resolver finds: a path to its [when, actions]

ASSUME RequestTypes ==
  \A r \in Requests :
    IsDocument(r.manifest.head) /\ AreRules(r.manifest.rules) /\ IsOptions(r.options)

ASSUME FileTypes == \A p \in DOMAIN Files : IsContent(Files[p].when, Files[p].actions)

VARIABLES
  manifest,      \* the text to render: [head, rules]
  options,       \* RulepackRenderOptions, and whether files are bundled
  values,        \* resolved variables and bindings, by name
  document,      \* the value being rendered, without its rules
  inputBytes,    \* RenderMeter.input_bytes
  outputBytes,   \* RenderMeter.output_bytes
  placeholders,  \* RenderMeter.placeholder_count
  loaded,        \* rendered_files
  now,           \* now_unix_seconds
  earlier        \* the request this manifest was installed by, if any (history)

requestVars == <<manifest, options, now, earlier>>
meterVars == <<inputBytes, outputBytes, placeholders>>
vars == <<overrideVars, requestVars, values, document, meterVars, loaded>>

\* No limit is within reach of the request.
Unlimited == DOMAIN limits = {}

head == manifest.head
locals == options.exceptions
spentVars == <<compared, copied>>

-----------------------------------------------------------------------------
\* Admission: the structure is measured before anything is built from it.

LocalOptionBytes ==
  SumOf([i \in DOMAIN options.overrides |-> OverrideBytes(options.overrides[i])])
    + SumOf([i \in DOMAIN locals |-> ExceptionBytes(locals[i])])
    + Cardinality(options.mode) + OptionalBytes(options.commit)

EntryBytes(entries) ==
  Cardinality(DOMAIN entries) + MapThenSumSet(LAMBDA n : Len(entries[n]), DOMAIN entries)

\* The entries of check_variable_entries for a set of names.
EntriesFit(entries, count) ==
  /\ Within("variables", count)
  /\ \A n \in DOMAIN entries : Within("value", Len(entries[n]))
  /\ Within("totalValues", EntryBytes(entries))

DeclaredCount == Len(head.variables) + Len(head.bindings)

DeclaredEntries ==
  [i \in 1 .. Len(head.variables) |->
     FlattenSeq(SetToSeq(head.variables[i].default))] \o [i \in DOMAIN head.bindings |-> <<>>]

BodiesFit(os) ==
  \A i \in DOMAIN os : "body" \in DOMAIN os[i].sets => Within("overrideBody", Len(os[i].sets.body))

\* admit_rulepack_structure and the checks around it.
Admissible ==
  /\ Within("manifest", DocumentBytes(head, manifest.rules))
  /\ Within("overrides", Len(head.overrides) + Len(options.overrides))
  /\ Within("exceptions", Len(head.exceptions) + Len(locals))
  /\ BodiesFit(head.overrides) /\ BodiesFit(options.overrides)
  /\ Within("localOptions", LocalOptionBytes)
  /\ Within("files", Len(manifest.rules) + Len(head.groups))
  /\ EntriesFit(options.supplied, Cardinality(DOMAIN options.supplied))
  /\ EntriesFit(DeclaredEntries, DeclaredCount)

Admit ==
  /\ stage = "admission"
  /\ inputBytes' = DocumentBytes(head, manifest.rules) + LocalOptionBytes
                     + EntryBytes(options.supplied)
  /\ Go(Admissible /\ Within("input", inputBytes'), "shape")
  /\ UNCHANGED <<limits, rules, overrides, editVars, checkVars, selectorWork, renderWork, spentVars,
                 requestVars, values, document, outputBytes, placeholders, loaded>>

\* The manifest as decoded, and the local parts of the options.
ValidateShape ==
  /\ stage = "shape"
  /\ Go(/\ ShapeValid(head, manifest.rules)
        /\ ExceptionShapes(locals)
        /\ ValidOverrides(options.overrides), "exceptions")
  /\ UNCHANGED <<limits, rules, overrides, editVars, checkVars, selectorWork, renderWork, spentVars,
                 requestVars, values, document, meterVars, loaded>>

\* Comparisons of exceptions with rules.
TagsOf(rs) == SumOf([j \in DOMAIN rs |-> Cardinality(rs[j].tags)])

ExceptionUnits(es, rs) ==
  SumOf([i \in DOMAIN es |->
           Len(rs) * (1 + Cardinality(es[i].ids) + Cardinality(es[i].names))
             + TagsOf(rs) * Cardinality(es[i].tags)])

\* reserve_rulepack_exception_selector_work, with the rules as decoded.
ReserveExceptions ==
  /\ stage = "exceptions"
  /\ selectorWork' = selectorWork + ExceptionUnits(head.exceptions \o locals, manifest.rules)
  /\ Go(Within("selector", selectorWork'), "variables")
  /\ UNCHANGED <<limits, rules, overrides, editVars, checkVars, renderWork, spentVars,
                 requestVars, values, document, meterVars, loaded>>

\* resolve_variables and check_resolved_variables.
ResolveVariables ==
  /\ stage = "variables"
  /\ LET resolved == Resolved(head, options.supplied)
         ok == Resolvable(head, options.supplied) /\ EntriesFit(resolved, DeclaredCount)
     IN Go(ok, "strings") /\ values' = IF ok THEN resolved ELSE <<>>
  /\ UNCHANGED <<limits, rules, overrides, editVars, checkVars, selectorWork, renderWork, spentVars,
                 requestVars, document, meterVars, loaded>>

-----------------------------------------------------------------------------
\* Rendering of texts: measured, paid for, then copied.

\* render_manifest_strings on the whole value, its overrides table included.
RenderStrings ==
  /\ stage = "strings"
  /\ LET texts == ManifestTexts(head)
         ok == AllRender(texts, values)
         bytes == IF ok THEN TextBytes(RenderedManifest(head, values)) ELSE 0
     IN /\ placeholders' = placeholders + MarkersOf(texts)
        /\ renderWork' = renderWork + bytes
        /\ Go(ok /\ Within("placeholders", placeholders') /\ Within("output", renderWork'), "contents")
        /\ document' = IF ok THEN RenderedManifest(head, values) ELSE head
        /\ copied' = copied + (IF stage' = "refused" THEN 0 ELSE bytes)
  /\ UNCHANGED <<limits, rules, overrides, editVars, checkVars, selectorWork, compared,
                 requestVars, values, inputBytes, outputBytes, loaded>>

\* render_nested_file: its strings, the expression written out once more, and
\* reserve_toml_serialization without a clone.
NestedWork(when, as) ==
  ContentTextBytes(when, as) + Len(when) + 3 * ContentBytes(when, as)

Written(r) == IF "content" \in r.parts THEN RenderedRule(r, values) ELSE r
WrittenWork(r) == IF "content" \in r.parts THEN NestedWork(r.when, r.actions) ELSE 0

\* The texts of a rule with its content in the manifest.
InlineTexts(r) == IF "content" \in r.parts THEN ContentTexts(r.when, r.actions) ELSE <<>>

\* apply_overrides gets the overrides decoded before anything was rendered.
OverridesUsed == Ordered(head.overrides, options.overrides)

\* render_embedded_files, and what apply_overrides starts from.
RenderContents ==
  /\ stage = "contents"
  /\ LET embedded == manifest.rules
         texts == FlattenSeq([j \in DOMAIN embedded |-> InlineTexts(embedded[j])]) \o head.groups
         ok == /\ AllRender(texts, values)
               /\ \A j \in DOMAIN embedded : "content" \in embedded[j].parts =>
                    Within("file", ContentBytes(embedded[j].when, embedded[j].actions))
               /\ \A i \in DOMAIN head.groups : Within("file", Len(head.groups[i]))
         written == [j \in DOMAIN embedded |-> Written(embedded[j])]
         groups == RenderedTexts(head.groups, values)
         bytes == IF ok THEN SumOf([j \in DOMAIN written |-> WrittenWork(written[j])])
                               + 4 * BytesOf(groups)
                  ELSE 0
     IN /\ placeholders' = placeholders + MarkersOf(texts)
        /\ renderWork' = renderWork + bytes
        /\ Go(ok /\ Within("placeholders", placeholders') /\ Within("output", renderWork'), "overrides")
        /\ document' = IF ok THEN [document EXCEPT !.groups = groups] ELSE document
        /\ rules' = IF ok THEN written ELSE <<>>
        /\ copied' = copied + (IF stage' = "refused" THEN 0 ELSE bytes)
  /\ overrides' = OverridesUsed
  /\ UNCHANGED <<limits, editVars, checkVars, selectorWork, compared,
                 requestVars, values, inputBytes, outputBytes, loaded>>

-----------------------------------------------------------------------------
\* The options.

\* What pin_variables writes for a variable that got a value.
PinBytes(v) == IF options.pin /\ v.name \in DOMAIN values THEN 1 + Len(values[v.name]) ELSE 0

ModeBytes ==
  IF options.mode = {} THEN 0
  ELSE 1 + (IF \E m \in options.mode : m.force THEN Len(rules) ELSE 0)

\* projected_option_growth.
OptionGrowth ==
  SumOf([i \in DOMAIN locals |-> ExceptionBytes(locals[i])]) + ModeBytes
    + SumOf([i \in DOMAIN document.variables |-> PinBytes(document.variables[i])])
    + OptionalBytes(options.commit)

\* reserve_option_mutations: the growth, and the result written with a clone.
ReserveMutations ==
  /\ stage = "mutations"
  /\ renderWork' = renderWork + OptionGrowth + 4 * (DocumentBytes(document, rules) + OptionGrowth)
  /\ Go(Within("output", renderWork'), "options")
  /\ UNCHANGED <<limits, rules, overrides, editVars, checkVars, selectorWork, spentVars,
                 requestVars, values, document, meterVars, loaded>>

\* Mutant of Pinned: what was worked in stays in the manifest.
PinnedKeepingOverrides(d) ==
  [d EXCEPT
     !.variables = [i \in DOMAIN @ |-> PinnedVariable(@[i], options.pin, values)],
     !.bindings = <<>>]

\* pin_variable_defaults and the removals after it.
Pinned(d) ==
  [d EXCEPT
     !.variables = [i \in DOMAIN @ |-> PinnedVariable(@[i], options.pin, values)],
     !.bindings = <<>>, !.overrides = <<>>]

\* apply_mode_override, append_local_exceptions, pinning and the commit.
ApplyOptions ==
  /\ stage = "options" /\ stage' = "document"
  /\ LET extended == [document EXCEPT
           !.mode = IF options.mode = {} THEN @ ELSE (CHOOSE m \in options.mode : TRUE).mode,
           !.exceptions = @ \o locals,
           !.commit = IF options.commit = {} THEN @ ELSE options.commit]
     IN document' = IF options.pin THEN Pinned(extended) ELSE extended
  /\ rules' = [j \in DOMAIN rules |->
       IF \E m \in options.mode : m.force
         THEN [rules[j] EXCEPT !.settings.mode = (CHOOSE m \in options.mode : TRUE).mode]
         ELSE rules[j]]
  /\ copied' = copied + OptionGrowth
  /\ UNCHANGED <<limits, overrides, editVars, checkVars, selectorWork, renderWork, compared,
                 requestVars, values, meterVars, loaded>>

\* The result is decoded and checked as a manifest of its own.
CheckDocument ==
  /\ stage = "document"
  /\ Go(/\ ShapeValid(document, rules)
        /\ ExceptionsValid(document.exceptions, rules, now)
        /\ ReferencesValid(rules), "writing")
  /\ compared' = compared + ExceptionUnits(document.exceptions, rules)
  /\ UNCHANGED <<limits, rules, overrides, editVars, checkVars, selectorWork, renderWork, copied,
                 requestVars, values, document, meterVars, loaded>>

WriteManifest ==
  /\ stage = "writing"
  /\ outputBytes' = outputBytes + DocumentBytes(document, rules)
  /\ copied' = copied + 4 * DocumentBytes(document, rules)
  /\ Go(Within("output", outputBytes'), IF options.bundle THEN "loading" ELSE "done")
  /\ rule' = 1
  /\ UNCHANGED <<limits, rules, overrides, position, settings, actions, kept, checkVars,
                 selectorWork, renderWork, compared, requestVars, values, document,
                 inputBytes, placeholders, loaded>>

-----------------------------------------------------------------------------
\* The files a bundle refers to.

\* A rule with its content in the manifest has no file.
PassRule ==
  /\ stage = "loading" /\ rule \in DOMAIN rules /\ "path" \notin rules[rule].parts
  /\ rule' = rule + 1
  /\ UNCHANGED <<limits, rules, overrides, stage, position, settings, actions, kept, checkVars,
                 selectorWork, renderWork, spentVars, requestVars, values, document, meterVars, loaded>>

\* The path is resolved, and the file rendered like an embedded one.
LoadFile ==
  /\ stage = "loading" /\ rule \in DOMAIN rules /\ "path" \in rules[rule].parts
  /\ rule' = rule + 1
  /\ LET found == rules[rule].path \in DOMAIN Files
         file == IF found THEN Files[rules[rule].path] ELSE [when |-> <<>>, actions |-> <<>>]
         texts == ContentTexts(file.when, file.actions)
         ok == found /\ AllRender(texts, values)
         when == IF ok THEN Substitute(file.when, values) ELSE <<>>
         as == IF ok THEN RenderedActions(file.actions, values) ELSE <<>>
     IN /\ inputBytes' = inputBytes + ContentBytes(file.when, file.actions)
        /\ placeholders' = placeholders + MarkersOf(texts)
        /\ renderWork' = renderWork + NestedWork(when, as)
        /\ outputBytes' = outputBytes + ContentBytes(when, as)
        /\ Go(/\ ok
              /\ Within("file", ContentBytes(file.when, file.actions))
              /\ Within("input", inputBytes') /\ Within("placeholders", placeholders')
              /\ Within("output", renderWork') /\ Within("output", outputBytes'), "loading")
        /\ copied' = copied + (IF stage' = "refused" THEN 0 ELSE NestedWork(when, as))
        /\ loaded' = Append(loaded, [when |-> when, actions |-> as])
  /\ UNCHANGED <<limits, rules, overrides, position, settings, actions, kept, checkVars,
                 selectorWork, compared, requestVars, values, document>>

FinishLoading ==
  /\ stage = "loading" /\ rule \notin DOMAIN rules
  /\ stage' = "done"
  /\ UNCHANGED <<limits, rules, overrides, editVars, checkVars, selectorWork, renderWork, spentVars,
                 requestVars, values, document, meterVars, loaded>>

-----------------------------------------------------------------------------
Asked == [manifest |-> manifest, options |-> options]

Outcome == INSTANCE RulepackOutcome WITH
  request <- Asked,
  limited <- ~Unlimited,
  outcome <- CASE stage = "done" -> [verdict |-> "rendered",
                    result |-> {[head |-> document, rules |-> rules, files |-> loaded]}]
               [] stage = "refused" -> [verdict |-> "refused", result |-> {}]
               [] OTHER -> [verdict |-> "none", result |-> {}],
  now <- now, Files <- Files, PackName <- PackName

Init ==
  /\ \E r \in Requests : manifest = r.manifest /\ options = r.options /\ limits = r.limits
  /\ now = 1 /\ earlier = {}
  /\ document = manifest.head /\ values = <<>> /\ loaded = <<>>
  /\ stage = "admission"
  /\ rules = <<>> /\ overrides = <<>> /\ rule = 0 /\ position = 0 /\ settings = <<>>
  /\ actions = <<>> /\ kept = <<>> /\ matched = {} /\ projected = 0
  /\ selectorWork = 0 /\ renderWork = 0 /\ compared = 0 /\ copied = 0
  /\ inputBytes = 0 /\ outputBytes = 0 /\ placeholders = 0

\* What render_rulepack_for_install returned is rendered again, once, with a
\* meter of its own; the clock may have moved on.
Reinstall ==
  /\ stage = "done" /\ options.pin /\ earlier = {}
  /\ earlier' = {Asked}
  /\ manifest' = [head |-> document, rules |-> rules]
  /\ options' = Outcome!InstallOptions
  /\ now' \in {now, now + 1}
  /\ document' = document /\ values' = <<>> /\ loaded' = <<>>
  /\ stage' = "admission"
  /\ rules' = <<>> /\ overrides' = <<>> /\ rule' = 0 /\ position' = 0 /\ settings' = <<>>
  /\ actions' = <<>> /\ kept' = <<>> /\ matched' = {} /\ projected' = 0
  /\ selectorWork' = 0 /\ renderWork' = 0 /\ compared' = 0 /\ copied' = 0
  /\ inputBytes' = 0 /\ outputBytes' = 0 /\ placeholders' = 0
  /\ UNCHANGED limits

ParseStep ==
  \/ Admit \/ ValidateShape \/ ReserveExceptions \/ ResolveVariables
  \/ RenderStrings \/ RenderContents
  \/ OverrideStep /\ UNCHANGED <<requestVars, values, document, meterVars, loaded>>
  \/ ReserveMutations \/ ApplyOptions \/ CheckDocument \/ WriteManifest

\* The answer is returned; nothing else happens.
Rest == stage \in {"done", "refused"} /\ UNCHANGED vars

Next == ParseStep \/ PassRule \/ LoadFile \/ FinishLoading \/ Reinstall \/ Rest

Spec == Init /\ [][Next]_vars

-----------------------------------------------------------------------------
\* Properties; AppliedSoFar and AppliesAsChecked are those of Overrides.

(* However the stages divide the work, the answer to a request is the      *)
(* manifest its overrides, texts and options amount to when each is looked *)
(* at on its own; it is refused only for what it says or where a limit     *)
(* binds (mod.rs:246).                                                     *)
Rendered == Outcome!Spec

(* Every comparison of a selector with a rule or an action was reserved    *)
(* before it was made, for overrides and exceptions, check and application *)
(* (limits.rs:203, overrides.rs:140, exceptions.rs:77); so was every byte  *)
(* copied, parsed again or written, in contents that grow from one override*)
(* to the next too (limits.rs:257, overrides.rs:167, admission.rs:67).     *)
WorkPaid == compared <= selectorWork /\ copied <= renderWork

PlainTexts(texts) == \A i \in DOMAIN texts : Plain(texts[i])

PlainOverrides(os) == \A i \in DOMAIN os : PlainTexts(OverrideTexts(os[i]))

\* What the request brings along is copied as it is and holds no marker.
PlainLocals(q) ==
  /\ PlainOverrides(q.options.overrides)
  /\ \A i \in DOMAIN q.options.exceptions : Plain(q.options.exceptions[i].reason)
  /\ \A t \in q.options.commit : Plain(t)

\* Values become part of other texts, so they hold no brace either.
ValuesOf(q) ==
  (UNION {q.manifest.head.variables[i].default : i \in DOMAIN q.manifest.head.variables})
    \cup {q.options.supplied[n] : n \in DOMAIN q.options.supplied}

BracelessValues(q) == \A t \in ValuesOf(q) : Braceless(t)

\* An empty value joins what stands on both sides of its marker: }{{x}}} is }}.
ClosesApart(text, texts) == Close \notin Range(text) \/ <<>> \notin texts

HeadApart(d, texts) ==
  /\ ClosesApart(d.title, texts) /\ \A t \in d.commit : ClosesApart(t, texts)
  /\ \A i \in DOMAIN d.exceptions : ClosesApart(d.exceptions[i].reason, texts)
  /\ \A i \in DOMAIN d.groups : ClosesApart(d.groups[i], texts)

ContentApart(r, texts) ==
  /\ ClosesApart(r.when, texts)
  /\ \A k \in DOMAIN r.actions : \A f \in TextFields : ClosesApart(r.actions[k].fields[f], texts)

TextsApart(q) ==
  /\ HeadApart(q.manifest.head, ValuesOf(q))
  /\ \A j \in DOMAIN q.manifest.rules : ContentApart(q.manifest.rules[j], ValuesOf(q))

\* Nothing the request brings is read as a marker, or makes one of the braces beside it.
PlainRequest(q) ==
  /\ BracelessValues(q) /\ TextsApart(q)
  /\ PlainLocals(q) /\ PlainOverrides(q.manifest.head.overrides)

(* Installing what was rendered for installation changes nothing and is    *)
(* never refused, whenever it is done (mod.rs:312), as long as no value    *)
(* brought a marker or a brace, no override, local reason or commit brought*)
(* a marker, and no empty value stands between closing braces: what holds  *)
(* braces then is read as another text, or not at all (template.rs:110).   *)
InstallStable ==
  \A q \in earlier :
    Unlimited /\ PlainRequest(q) =>
      /\ stage # "refused"
      /\ stage = "done" => document = manifest.head /\ rules = manifest.rules

(* docs/Specification.md:408 has placeholders replaced in the strings of   *)
(* the manifest before its overrides are applied, so none of the manifest  *)
(* should be left in a rendered rule when values and options have none.    *)
PlaceholdersReplaced ==
  stage = "done" /\ BracelessValues(Asked) /\ PlainLocals(Asked) =>
    \A j \in DOMAIN rules :
      LET texts == ContentTexts(rules[j].when, rules[j].actions)
      IN \A i \in DOMAIN texts : Markers(Scanned(texts[i])) = {}
=============================================================================
