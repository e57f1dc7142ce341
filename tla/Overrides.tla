----------------------------- MODULE Overrides -----------------------------
(***************************************************************************)
(* apply_overrides (rulepack_render/overrides.rs): manifest and local      *)
(* overrides are put in one order, checked against the rules as they are,  *)
(* paid for, and only then applied, one after the other, to a copy of each *)
(* rule. The check reads the original actions; the application reads       *)
(* actions that earlier overrides have already changed.                    *)
(***************************************************************************)
EXTENDS RulepackDocuments

VARIABLES
  limits,        \* those of RulepackRenderLimits within reach of the request, by name
  rules,         \* the manifest's rules; replaced when all are done
  overrides,     \* ordered_overrides
  stage,         \* where the rendering is; "refused" after an error
  rule,          \* the rule checked or edited
  position,      \* the override next applied to it, 0 before it is copied
  settings,      \* mode, priority and enabled of the copy
  actions,       \* the [[actions]] of the copy's content
  kept,          \* rendered_rules: copies of the rules still enabled
  matched,       \* positions of the overrides that matched a rule so far
  projected,     \* projected_render_work
  selectorWork,  \* RenderMeter.selector_work
  renderWork,    \* RenderMeter.render_work_bytes
  compared,      \* selector comparisons made so far (history)
  copied         \* bytes copied or written so far (history)

editVars == <<rule, position, settings, actions, kept>>
checkVars == <<matched, projected>>
overrideVars == <<limits, rules, overrides, stage, editVars, checkVars,
                  selectorWork, renderWork, compared, copied>>

\* check_limit; a limit out of reach is left out.
Within(k, n) == k \in DOMAIN limits => n <= limits[k]

\* An error ends the rendering; nothing is returned.
Go(ok, next) == stage' = IF ok THEN next ELSE "refused"

-----------------------------------------------------------------------------
\* Order and selection.

\* Those of one precedence, by index.
OfPrecedence(os, p) ==
  LET those[n \in 0 .. Len(os)] ==
        IF n = 0 THEN <<>>
        ELSE IF Precedence(os[n]) = p THEN Append(those[n - 1], os[n]) ELSE those[n - 1]
  IN  those[Len(os)]

ByPrecedence(os) == OfPrecedence(os, 0) \o OfPrecedence(os, 1) \o OfPrecedence(os, 2)

\* Mutant of Ordered: precedence before scope.
OrderedAcrossScopes(manifest, local) == ByPrecedence(manifest \o local)

\* ordered_overrides: by scope, then precedence, then index.
Ordered(manifest, local) == ByPrecedence(manifest) \o ByPrecedence(local)

-----------------------------------------------------------------------------
\* What copies cost, and what is reserved for them.

\* The overrides that match r and name an action.
ActionOverrides(r) ==
  {i \in DOMAIN overrides : MatchesRule(overrides[i], r) /\ overrides[i].action # NoAction}

\* apply_field_growth: the largest growth the overrides up to n brought to a
\* field of action k.
FieldGrowth(r, k, f, n) ==
  Max({0} \cup {GrowthOf(overrides[i], f) :
        i \in {i \in ActionOverrides(r) : i <= n /\ k \in Targets(overrides[i], r.actions)}})

ActionGrowth(r, k, n) ==
  FieldGrowth(r, k, "rate", n) + FieldGrowth(r, k, "burst", n)
    + FieldGrowth(r, k, "status", n) + FieldGrowth(r, k, "body", n)

\* Mutant of ContentBound: growth of the content is left out.
ContentBoundOfOriginal(r, n) == ContentBytes(r.when, r.actions)

\* current_content_bound after the overrides up to n.
ContentBound(r, n) ==
  ContentBytes(r.when, r.actions) + SumOf([k \in DOMAIN r.actions |-> ActionGrowth(r, k, n)])

\* The content is parsed, the strings cloned and the content written again.
EditBound(r, n) == ContentBound(r, n - 1) + ReplacementBytes(overrides[n]) + ContentBound(r, n)

ProjectedFor(r) ==
  SumOf([n \in DOMAIN overrides |-> IF n \in ActionOverrides(r) THEN EditBound(r, n) ELSE 0])

\* Comparisons of one override with one rule.
MatchUnits(o, r) == 1 + Cardinality(r.tags) * Cardinality(o.selector.tags)

\* Of all of them with one rule, and with all rules.
RuleMatchUnits(r) == SumOf([i \in DOMAIN overrides |-> MatchUnits(overrides[i], r)])
AllMatchUnits == SumOf([j \in DOMAIN rules |-> RuleMatchUnits(rules[j])])

\* Mutant of SelectorUnits: the application is not paid for.
SelectorUnitsOnce == AllMatchUnits

\* reserve_override_selector_work: once for the check, once to apply.
SelectorUnits == 2 * AllMatchUnits

-----------------------------------------------------------------------------
\* The check.

\* Nothing to apply.
SkipOverrides ==
  /\ stage = "overrides" /\ overrides = <<>>
  /\ stage' = "mutations"
  /\ UNCHANGED <<limits, rules, overrides, editVars, checkVars,
                 selectorWork, renderWork, compared, copied>>

ReserveSelectors ==
  /\ stage = "overrides" /\ overrides # <<>>
  /\ selectorWork' = selectorWork + SelectorUnits
  /\ Go(rules # <<>> /\ Within("selector", selectorWork'), "checking")
  /\ rule' = 1 /\ matched' = {} /\ projected' = 0
  /\ UNCHANGED <<limits, rules, overrides, position, settings, actions, kept,
                 renderWork, compared, copied>>

\* Mutant of Checkable: several matching actions pass.
CheckableAny(r) == \A i \in ActionOverrides(r) : Targets(overrides[i], r.actions) # {}

\* Each action override matches exactly one of the rule's original actions.
Checkable(r) ==
  \A i \in ActionOverrides(r) : Cardinality(Targets(overrides[i], r.actions)) = 1

\* What the check asks of a rule before it looks at its actions.
Inline(r) == ActionOverrides(r) = {} \/ r.parts = {"content"}

\* preflight_action_overrides and the matching around it, for one rule.
CheckRule ==
  /\ stage = "checking" /\ rule \in DOMAIN rules
  /\ LET r == rules[rule]
         units == IF Inline(r) THEN Len(r.actions) * Cardinality(ActionOverrides(r)) ELSE 0
         paid == Within("selector", selectorWork + 2 * units)
     IN /\ Go(Inline(r) /\ paid /\ Checkable(r), "checking")
        /\ selectorWork' = selectorWork + 2 * units
        /\ compared' = compared + (IF paid THEN units ELSE 0) + RuleMatchUnits(r)
        /\ matched' = matched \cup {i \in DOMAIN overrides : MatchesRule(overrides[i], r)}
        /\ projected' = projected + RuleBytes(r)
             + (IF Inline(r) /\ paid THEN ProjectedFor(r) ELSE 0)
  /\ rule' = rule + 1
  /\ UNCHANGED <<limits, rules, overrides, position, settings, actions, kept,
                 renderWork, copied>>

\* Every override matched some rule, and the copies are paid for.
FinishCheck ==
  /\ stage = "checking" /\ rule \notin DOMAIN rules
  /\ renderWork' = IF matched = DOMAIN overrides THEN renderWork + projected ELSE renderWork
  /\ Go(matched = DOMAIN overrides /\ Within("output", renderWork'), "applying")
  /\ rule' = 1 /\ position' = 0 /\ kept' = <<>>
  /\ UNCHANGED <<limits, rules, overrides, settings, actions, checkVars,
                 selectorWork, compared, copied>>

-----------------------------------------------------------------------------
\* The application.

\* The fields of the copy; every rule starts enabled.
Copied(r) ==
  [f \in RuleFields |-> IF f = "enabled" THEN TRUE ELSE r.settings[f]]

\* One action with the fields an override sets.
Changed(o, a) ==
  [type |-> a.type, name |-> a.name, fields |-> Overlay(ActionFields, o.sets, a.fields)]

\* Mutant of Edited: the name of the action is not looked at.
EditedByType(o, as) ==
  [k \in DOMAIN as |-> IF as[k].type = o.action.type THEN Changed(o, as[k]) ELSE as[k]]

\* apply_override_to_content: the actions with one of them changed.
Edited(o, as) ==
  [k \in DOMAIN as |-> IF k \in Targets(o, as) THEN Changed(o, as[k]) ELSE as[k]]

\* original_rule.clone().
CopyRule ==
  /\ stage = "applying" /\ position = 0 /\ rule \in DOMAIN rules
  /\ settings' = Copied(rules[rule]) /\ actions' = rules[rule].actions
  /\ position' = 1
  /\ copied' = copied + RuleBytes(rules[rule])
  /\ UNCHANGED <<limits, rules, overrides, stage, rule, kept, checkVars,
                 selectorWork, renderWork, compared>>

\* The override at hand, when there is one and it matches or not.
AtOverride(matches) ==
  /\ stage = "applying" /\ position > 0 /\ position \in DOMAIN overrides
  /\ MatchesRule(overrides[position], rules[rule]) = matches
  /\ position' = position + 1
  /\ UNCHANGED <<limits, rules, overrides, rule, kept, checkVars, selectorWork, renderWork>>

PassOverride ==
  /\ AtOverride(FALSE)
  /\ compared' = compared + MatchUnits(overrides[position], rules[rule])
  /\ UNCHANGED <<stage, settings, actions, copied>>

\* apply_override_to_rule without an action selector.
OverrideRule ==
  /\ AtOverride(TRUE) /\ overrides[position].action = NoAction
  /\ settings' = Overlay(RuleFields, overrides[position].sets, settings)
  /\ compared' = compared + MatchUnits(overrides[position], rules[rule])
  /\ UNCHANGED <<stage, actions, copied>>

\* apply_override_to_rule with one: the content is parsed again, the action
\* looked for among the actions as they are now, and the content written.
OverrideAction ==
  /\ AtOverride(TRUE) /\ overrides[position].action # NoAction
  /\ LET o == overrides[position]
         r == rules[rule]
     IN /\ Go(r.parts = {"content"} /\ Cardinality(Targets(o, actions)) = 1, "applying")
        /\ settings' = Overlay(RuleFields, o.sets, settings)
        /\ actions' = Edited(o, actions)
        /\ compared' = compared + MatchUnits(o, r) + Len(actions)
        /\ copied' = copied + ContentBytes(r.when, actions) + ReplacementBytes(o)
             + ContentBytes(r.when, Edited(o, actions))

\* A rule left enabled is kept as edited.
CloseRule ==
  /\ stage = "applying" /\ position > 0 /\ position \notin DOMAIN overrides
  /\ LET r == rules[rule]
         edited == [r EXCEPT !.settings = [mode |-> settings.mode, priority |-> settings.priority],
                             !.actions = actions]
     IN kept' = IF settings.enabled THEN Append(kept, edited) ELSE kept
  /\ rule' = rule + 1 /\ position' = 0
  /\ UNCHANGED <<limits, rules, overrides, stage, settings, actions, checkVars,
                 selectorWork, renderWork, compared, copied>>

FinishOverrides ==
  /\ stage = "applying" /\ position = 0 /\ rule \notin DOMAIN rules
  /\ rules' = kept /\ stage' = "mutations"
  /\ UNCHANGED <<limits, overrides, editVars, checkVars, selectorWork, renderWork,
                 compared, copied>>

OverrideStep ==
  \/ SkipOverrides \/ ReserveSelectors \/ CheckRule \/ FinishCheck
  \/ CopyRule \/ PassOverride \/ OverrideRule \/ OverrideAction
  \/ CloseRule \/ FinishOverrides

-----------------------------------------------------------------------------
\* Properties.

\* The overrides up to n that set field f of a rule, or of one action of it.
Setting(os, f, r, n) == {j \in 1 .. n : MatchesRule(os[j], r) /\ f \in DOMAIN os[j].sets}

SettingAction(os, f, r, k, n) ==
  {j \in Setting(os, f, r, n) : os[j].action # NoAction /\ k \in Targets(os[j], r.actions)}

Latest(S) == CHOOSE j \in S : \A i \in S : i <= j

Effective(os, S, f, old) == IF S = {} THEN old ELSE os[Latest(S)].sets[f]

\* The copy of rule r, st and as, is what its first n overrides make of it.
AppliedTo(os, r, st, as, n) ==
  /\ st = [f \in RuleFields |-> Effective(os, Setting(os, f, r, n), f, Copied(r)[f])]
  /\ DOMAIN as = DOMAIN r.actions
  /\ \A k \in DOMAIN r.actions :
       /\ as[k].type = r.actions[k].type /\ as[k].name = r.actions[k].name
       /\ \A f \in ActionFields : as[k].fields[f] =
            Effective(os, SettingAction(os, f, r, k, n), f, r.actions[k].fields[f])

(* While a rule is edited, each field of it has the value given by the last *)
(* of the overrides gone past that match the rule and set the field, or the *)
(* value it had: overrides.rs applies them one by one to text it rewrites   *)
(* each time, and never to the wrong rule or action.                        *)
AppliedSoFar ==
  stage = "applying" /\ position > 0 =>
    AppliedTo(overrides, rules[rule], settings, actions, position - 1)

(* What the check accepts the application never refuses: the match of an    *)
(* action override in the original content still holds in content rewritten *)
(* by the overrides before it (overrides.rs:375 and :555).                  *)
AppliesAsChecked == [][stage = "applying" => stage' # "refused"]_overrideVars
=============================================================================
