------------------------ MODULE RulepackRenderProofs ------------------------
(***************************************************************************)
(* Four facts about RulepackRender, for any requests, files and limits: a  *)
(* rule under edit always has the fields its overrides so far give it,     *)
(* what the check accepted is not refused, no comparison is made and no    *)
(* byte copied before it was reserved, and what was rendered for           *)
(* installation is installed as it is if no braces meet in it that stood   *)
(* apart.                                                                  *)
(***************************************************************************)
EXTENDS RulepackRender, SequenceTheorems, FiniteSetTheorems, NaturalsInduction, TLAPS

-----------------------------------------------------------------------------
\* Sequences without a type for their elements.

(* Rules that stay enabled are appended one by one: a list stays a list.   *)
LEMMA AppendList ==
  ASSUME NEW s, NEW e, Listed(s)
  PROVE Listed(Append(s, e))
<1> DEFINE S == Range(s) \cup {e}
<1>1. s \in Seq(S)
  <2>1. Range(s) \subseteq S
    OBVIOUS
  <2>2. \E n \in Nat : s \in [1 .. n -> Range(s)]
    BY SeqDef DEF Listed
  <2> QED
    BY <2>1, <2>2, SeqDef
<1>2. Append(s, e) \in Seq(S) /\ e \in S
  BY <1>1, AppendProperties
<1> HIDE DEF S
<1> DEFINE t == Append(s, e)
<1>3. t \in Seq(S)
  BY <1>2
<1> HIDE DEF t
<1>4. \E m \in Nat : t \in [1 .. m -> S]
  <2>1. Seq(S) = UNION {[1 .. m -> S] : m \in Nat}
    BY SeqDef, Zenon
  <2>2. PICK F \in {[1 .. m -> S] : m \in Nat} : t \in F
    BY <1>3, <2>1, Zenon
  <2> QED
    BY <2>2, Zenon
<1>5. \E m \in Nat : t \in [1 .. m -> Range(t)]
  BY <1>4 DEF Range
<1>6. t \in Seq(Range(t))
  BY <1>5, SeqDef
<1> QED
  BY <1>6 DEF Listed, t

-----------------------------------------------------------------------------
\* The last override that sets a field.

(* An override applied now is the latest of those applied so far.          *)
LEMMA LatestAdded ==
  ASSUME NEW n \in Nat, NEW S \in SUBSET (1 .. n)
  PROVE Latest(S \cup {n + 1}) = n + 1
<1> DEFINE T == S \cup {n + 1}
<1>1. n + 1 \in T /\ \A i \in T : i <= n + 1
  OBVIOUS
<1>2. \A j \in T : (\A i \in T : i <= j) => j = n + 1
  OBVIOUS
<1> QED
  BY <1>1, <1>2 DEF Latest

(* One more override joins those that set a field, or it does not.         *)
LEMMA SettingAdded ==
  ASSUME NEW os, NEW f, NEW r, NEW n \in Nat,
         MatchesRule(os[n + 1], r), f \in DOMAIN os[n + 1].sets
  PROVE Setting(os, f, r, n + 1) = Setting(os, f, r, n) \cup {n + 1}
BY DEF Setting

(* An override that does not apply, or sets another field, adds nothing.   *)
LEMMA SettingKept ==
  ASSUME NEW os, NEW f, NEW r, NEW n \in Nat,
         ~MatchesRule(os[n + 1], r) \/ f \notin DOMAIN os[n + 1].sets
  PROVE Setting(os, f, r, n + 1) = Setting(os, f, r, n)
BY DEF Setting

(* The same for a field of an action.                                      *)
LEMMA SettingActionAdded ==
  ASSUME NEW os, NEW f, NEW r, NEW k, NEW n \in Nat,
         MatchesRule(os[n + 1], r), f \in DOMAIN os[n + 1].sets,
         os[n + 1].action # NoAction, k \in Targets(os[n + 1], r.actions)
  PROVE SettingAction(os, f, r, k, n + 1) = SettingAction(os, f, r, k, n) \cup {n + 1}
BY DEF Setting, SettingAction

(* Nor does one for another action.                                        *)
LEMMA SettingActionKept ==
  ASSUME NEW os, NEW f, NEW r, NEW k, NEW n \in Nat,
         \/ ~MatchesRule(os[n + 1], r) \/ f \notin DOMAIN os[n + 1].sets
         \/ os[n + 1].action = NoAction \/ k \notin Targets(os[n + 1], r.actions)
  PROVE SettingAction(os, f, r, k, n + 1) = SettingAction(os, f, r, k, n)
BY DEF Setting, SettingAction

(* What the field is worth then.                                           *)
LEMMA EffectiveAdded ==
  ASSUME NEW os, NEW n \in Nat, NEW S \in SUBSET (1 .. n), NEW f, NEW old
  PROVE Effective(os, S \cup {n + 1}, f, old) = os[n + 1].sets[f]
BY LatestAdded DEF Effective

-----------------------------------------------------------------------------
\* What an override is applied to.

(* Nothing is set before the first override.                               *)
LEMMA NothingApplied ==
  ASSUME NEW os, NEW r
  PROVE AppliedTo(os, r, Copied(r), r.actions, 0)
<1>1. \A f : Setting(os, f, r, 0) = {}
  BY DEF Setting
<1>2. \A f, k : SettingAction(os, f, r, k, 0) = {}
  BY <1>1 DEF SettingAction
<1>3. Copied(r) = [f \in RuleFields |-> Copied(r)[f]]
  BY DEF Copied
<1> QED
  BY <1>1, <1>2, <1>3 DEF AppliedTo, Effective

(* A rule field after one more override that matches.                      *)
LEMMA SettingsApplied ==
  ASSUME NEW os, NEW r, NEW n \in Nat, NEW st, MatchesRule(os[n + 1], r),
         st = [f \in RuleFields |-> Effective(os, Setting(os, f, r, n), f, Copied(r)[f])]
  PROVE Overlay(RuleFields, os[n + 1].sets, st) =
          [f \in RuleFields |-> Effective(os, Setting(os, f, r, n + 1), f, Copied(r)[f])]
<1> SUFFICES ASSUME NEW f \in RuleFields
             PROVE (IF f \in DOMAIN os[n + 1].sets THEN os[n + 1].sets[f] ELSE st[f])
                     = Effective(os, Setting(os, f, r, n + 1), f, Copied(r)[f])
  BY DEF Overlay
<1>1. Setting(os, f, r, n) \in SUBSET (1 .. n)
  BY DEF Setting
<1>2. CASE f \in DOMAIN os[n + 1].sets
  <2>1. Setting(os, f, r, n + 1) = Setting(os, f, r, n) \cup {n + 1}
    BY <1>2, SettingAdded
  <2> DEFINE S == Setting(os, f, r, n)
             old == Copied(r)[f]
  <2>2. S \in SUBSET (1 .. n)
    BY <1>1
  <2> HIDE DEF S, old
  <2>3. Effective(os, S \cup {n + 1}, f, old) = os[n + 1].sets[f]
    BY <2>2, EffectiveAdded
  <2> QED
    BY <1>2, <2>1, <2>3 DEF S, old
<1>3. CASE f \notin DOMAIN os[n + 1].sets
  <2>1. Setting(os, f, r, n + 1) = Setting(os, f, r, n)
    BY <1>3, SettingKept
  <2> QED
    BY <1>3, <2>1
<1> QED
  BY <1>2, <1>3

(* One more override in turn: it does not match, it matches and names no   *)
(* action, or it matches and names one.                                    *)
LEMMA PassedApplied ==
  ASSUME NEW os, NEW r, NEW n \in Nat, NEW st, NEW as, AppliedTo(os, r, st, as, n),
         ~MatchesRule(os[n + 1], r)
  PROVE AppliedTo(os, r, st, as, n + 1)
<1> DEFINE m == n + 1
<1>1. \A f : Setting(os, f, r, m) = Setting(os, f, r, n)
  BY SettingKept
<1>2. \A f, k : SettingAction(os, f, r, k, m) = SettingAction(os, f, r, k, n)
  BY SettingActionKept
<1> HIDE DEF m
<1>3. st = [f \in RuleFields |-> Effective(os, Setting(os, f, r, m), f, Copied(r)[f])]
  BY <1>1 DEF AppliedTo
<1>4. ASSUME NEW k \in DOMAIN r.actions, NEW f \in ActionFields
      PROVE as[k].fields[f] =
              Effective(os, SettingAction(os, f, r, k, m), f, r.actions[k].fields[f])
  <2>1. as[k].fields[f] =
          Effective(os, SettingAction(os, f, r, k, n), f, r.actions[k].fields[f])
    BY DEF AppliedTo
  <2> QED
    BY <1>2, <2>1
<1>5. /\ DOMAIN as = DOMAIN r.actions
      /\ \A k \in DOMAIN r.actions :
           as[k].type = r.actions[k].type /\ as[k].name = r.actions[k].name
  BY DEF AppliedTo
<1>6. AppliedTo(os, r, st, as, m)
  BY <1>3, <1>4, <1>5 DEF AppliedTo
<1> QED
  BY <1>6 DEF m

(* Settings after one override more.                                       *)
LEMMA RuleApplied ==
  ASSUME NEW os, NEW r, NEW n \in Nat, NEW st, NEW as, AppliedTo(os, r, st, as, n),
         MatchesRule(os[n + 1], r), os[n + 1].action = NoAction
  PROVE AppliedTo(os, r, Overlay(RuleFields, os[n + 1].sets, st), as, n + 1)
<1> DEFINE m == n + 1
           written == Overlay(RuleFields, os[m].sets, st)
<1>1. st = [f \in RuleFields |-> Effective(os, Setting(os, f, r, n), f, Copied(r)[f])]
  BY DEF AppliedTo
<1>2. written = [f \in RuleFields |-> Effective(os, Setting(os, f, r, m), f, Copied(r)[f])]
  BY <1>1, SettingsApplied
<1>3. \A f, k : SettingAction(os, f, r, k, m) = SettingAction(os, f, r, k, n)
  BY SettingActionKept
<1> HIDE DEF m, written
<1>4. ASSUME NEW k \in DOMAIN r.actions, NEW f \in ActionFields
      PROVE as[k].fields[f] =
              Effective(os, SettingAction(os, f, r, k, m), f, r.actions[k].fields[f])
  <2>1. as[k].fields[f] =
          Effective(os, SettingAction(os, f, r, k, n), f, r.actions[k].fields[f])
    BY DEF AppliedTo
  <2> QED
    BY <1>3, <2>1
<1>5. /\ DOMAIN as = DOMAIN r.actions
      /\ \A k \in DOMAIN r.actions :
           as[k].type = r.actions[k].type /\ as[k].name = r.actions[k].name
  BY DEF AppliedTo
<1>6. AppliedTo(os, r, written, as, m)
  BY <1>2, <1>4, <1>5 DEF AppliedTo
<1> QED
  BY <1>6 DEF m, written

(* Actions after one override more.                                        *)
LEMMA ActionApplied ==
  ASSUME NEW os, NEW r, NEW n \in Nat, NEW st, NEW as, AppliedTo(os, r, st, as, n),
         MatchesRule(os[n + 1], r), os[n + 1].action # NoAction
  PROVE AppliedTo(os, r, Overlay(RuleFields, os[n + 1].sets, st), Edited(os[n + 1], as), n + 1)
<1> DEFINE m == n + 1
           o == os[m]
           sets == o.sets
           written == Overlay(RuleFields, sets, st)
           edited == Edited(o, as)
<1>1. st = [f \in RuleFields |-> Effective(os, Setting(os, f, r, n), f, Copied(r)[f])]
  BY DEF AppliedTo
<1>2. written = [f \in RuleFields |-> Effective(os, Setting(os, f, r, m), f, Copied(r)[f])]
  BY <1>1, SettingsApplied
<1>3. /\ DOMAIN edited = DOMAIN r.actions
      /\ \A k \in DOMAIN r.actions :
           edited[k].type = r.actions[k].type /\ edited[k].name = r.actions[k].name
  BY DEF AppliedTo, Edited, Changed
<1>4. ASSUME NEW k \in DOMAIN r.actions, NEW f \in ActionFields
      PROVE edited[k].fields[f] =
              Effective(os, SettingAction(os, f, r, k, m), f, r.actions[k].fields[f])
  <2> DEFINE S == SettingAction(os, f, r, k, n)
             old == r.actions[k].fields[f]
  <2>1. S \in SUBSET (1 .. n)
    BY DEF Setting, SettingAction
  <2>2. as[k].fields[f] = Effective(os, S, f, old) /\ k \in DOMAIN as
    BY DEF AppliedTo
  <2>3. edited[k] = IF k \in Targets(o, r.actions) THEN Changed(o, as[k]) ELSE as[k]
    <3>1. Targets(o, as) = Targets(o, r.actions)
      BY DEF AppliedTo, Targets, MatchesAction
    <3> QED
      BY <2>2, <3>1 DEF Edited
  <2>4. Changed(o, as[k]).fields[f] = IF f \in DOMAIN sets THEN sets[f] ELSE as[k].fields[f]
    BY DEF Changed, Overlay
  <2>5. CASE k \in Targets(o, r.actions) /\ f \in DOMAIN sets
    <3>1. SettingAction(os, f, r, k, m) = S \cup {m}
      <4>1. /\ MatchesRule(os[n + 1], r) /\ os[n + 1].action # NoAction
            /\ f \in DOMAIN os[n + 1].sets /\ k \in Targets(os[n + 1], r.actions)
        BY <2>5
      <4> HIDE DEF m, o, sets, edited, S, old
      <4>2. SettingAction(os, f, r, k, n + 1) = SettingAction(os, f, r, k, n) \cup {n + 1}
        BY <4>1, SettingActionAdded
      <4>3. QED
        BY <4>2, Zenon DEF m, S
    <3> HIDE DEF S, old
    <3>2. Effective(os, S \cup {m}, f, old) = sets[f]
      <4> HIDE DEF m, o, sets, edited
      <4>1. Effective(os, S \cup {n + 1}, f, old) = os[n + 1].sets[f]
        BY <2>1, EffectiveAdded
      <4>2. QED
        BY <4>1, Zenon DEF m, o, sets
    <3> HIDE DEF m, o, sets, edited
    <3>3. edited[k].fields[f] = sets[f]
      BY <2>3, <2>4, <2>5
    <3> QED
      BY <3>1, <3>2, <3>3 DEF old
  <2>6. CASE ~(k \in Targets(o, r.actions) /\ f \in DOMAIN sets)
    <3>1. SettingAction(os, f, r, k, m) = S
      BY <2>6, SettingActionKept
    <3> HIDE DEF S, m, o, sets, edited
    <3>2. edited[k].fields[f] = as[k].fields[f]
      BY <2>3, <2>4, <2>6
    <3> QED
      BY <2>2, <3>1, <3>2
  <2> QED
    BY <2>5, <2>6
<1> HIDE DEF m, o, sets, written, edited
<1>5. AppliedTo(os, r, written, edited, m)
  BY <1>2, <1>3, <1>4 DEF AppliedTo
<1> QED
  BY <1>5 DEF m, o, sets, written, edited

-----------------------------------------------------------------------------
\* AppliedSoFar.

AppliedInv == position \in Nat /\ AppliedSoFar

\* Steps that end outside an edited rule.
Elsewhere == position' \in Nat /\ (stage' # "applying" \/ position' = 0)

(* Only the four steps that edit a rule end while one is edited.           *)
LEMMA OtherStepsElsewhere ==
  ASSUME Next, position \in Nat,
         ~(CopyRule \/ PassOverride \/ OverrideRule \/ OverrideAction \/ Rest)
  PROVE Elsewhere
<1> USE DEF Elsewhere, Go, editVars, checkVars, requestVars, meterVars, spentVars
<1>1. CASE Admit
  BY <1>1 DEF Admit
<1>2. CASE ValidateShape
  BY <1>2 DEF ValidateShape
<1>3. CASE ReserveExceptions
  BY <1>3 DEF ReserveExceptions
<1>4. CASE ResolveVariables
  BY <1>4 DEF ResolveVariables
<1>5. CASE RenderStrings
  BY <1>5 DEF RenderStrings
<1>6. CASE RenderContents
  BY <1>6 DEF RenderContents
<1>7. CASE SkipOverrides \/ ReserveSelectors
  BY <1>7 DEF SkipOverrides, ReserveSelectors
<1>8. CASE CheckRule
  BY <1>8 DEF CheckRule
<1>9. CASE FinishCheck
  BY <1>9 DEF FinishCheck
<1>10. CASE CloseRule
  BY <1>10 DEF CloseRule
<1>11. CASE FinishOverrides
  BY <1>11 DEF FinishOverrides
<1>12. CASE ReserveMutations
  BY <1>12 DEF ReserveMutations
<1>13. CASE ApplyOptions
  BY <1>13 DEF ApplyOptions
<1>14. CASE CheckDocument
  BY <1>14 DEF CheckDocument
<1>15. CASE WriteManifest
  BY <1>15 DEF WriteManifest
<1>16. CASE PassRule
  BY <1>16 DEF PassRule
<1>17. CASE LoadFile
  BY <1>17 DEF LoadFile
<1>18. CASE FinishLoading
  BY <1>18 DEF FinishLoading
<1>19. CASE Reinstall
  BY <1>19 DEF Reinstall
<1> QED
  BY <1>1, <1>2, <1>3, <1>4, <1>5, <1>6, <1>7, <1>8, <1>9, <1>10, <1>11, <1>12, <1>13,
     <1>14, <1>15, <1>16, <1>17, <1>18, <1>19 DEF Next, ParseStep, OverrideStep

(* A rule stays as its overrides make it, whatever step is taken.          *)
LEMMA AppliedStep ==
  ASSUME AppliedInv, [Next]_vars
  PROVE AppliedInv'
<1> DEFINE r == rules[rule]
           n == position - 1
           o == overrides[position]
           Edit == stage' = "applying" /\ position' > 0
<1>1. position \in Nat
  BY DEF AppliedInv
<1>2. stage = "applying" /\ position > 0 => AppliedTo(overrides, r, settings, actions, n)
  BY DEF AppliedInv, AppliedSoFar
<1>3. SUFFICES position' \in Nat /\ (Edit => AppliedTo(overrides, r, settings, actions, n)')
  BY DEF AppliedInv, AppliedSoFar
<1>4. CASE CopyRule
  <2>1. position' = 1 /\ rules' = rules /\ rule' = rule /\ overrides' = overrides
        /\ settings' = Copied(r) /\ actions' = r.actions
    BY <1>4 DEF CopyRule
  <2>2. AppliedTo(overrides, r, Copied(r), r.actions, 0)
    BY NothingApplied
  <2> QED
    BY <2>1, <2>2
<1>5. CASE PassOverride \/ OverrideRule \/ OverrideAction
  <2>1. /\ stage = "applying" /\ position > 0 /\ position' = position + 1
        /\ rules' = rules /\ rule' = rule /\ overrides' = overrides
    BY <1>5 DEF PassOverride, OverrideRule, OverrideAction, AtOverride
  <2>2. n \in Nat /\ n + 1 = position /\ position' - 1 = n + 1
    BY <1>1, <2>1
  <2>3. AppliedTo(overrides, r, settings, actions, n)
    BY <1>2, <2>1
  <2> HIDE DEF n
  <2>4. SUFFICES AppliedTo(overrides, r, settings', actions', n + 1)
    BY <1>1, <2>1, <2>2 DEF n
  <2>5. CASE PassOverride
    <3>1. ~MatchesRule(overrides[n + 1], r) /\ settings' = settings /\ actions' = actions
      BY <2>2, <2>5 DEF PassOverride, AtOverride
    <3> HIDE DEF r
    <3> QED
      BY <2>2, <2>3, <3>1, PassedApplied
  <2>6. CASE OverrideRule
    <3>1. /\ MatchesRule(overrides[n + 1], r) /\ overrides[n + 1].action = NoAction
          /\ settings' = Overlay(RuleFields, overrides[n + 1].sets, settings) /\ actions' = actions
      BY <2>2, <2>6 DEF OverrideRule, AtOverride
    <3> HIDE DEF r
    <3> QED
      BY <2>2, <2>3, <3>1, RuleApplied
  <2>7. CASE OverrideAction
    <3>1. /\ MatchesRule(overrides[n + 1], r) /\ overrides[n + 1].action # NoAction
          /\ settings' = Overlay(RuleFields, overrides[n + 1].sets, settings)
          /\ actions' = Edited(overrides[n + 1], actions)
      BY <2>2, <2>7 DEF OverrideAction, AtOverride
    <3> HIDE DEF r
    <3> QED
      BY <2>2, <2>3, <3>1, ActionApplied
  <2> QED
    BY <1>5, <2>5, <2>6, <2>7
<1>6. CASE Rest \/ UNCHANGED vars
  BY <1>1, <1>2, <1>6 DEF Rest, vars, overrideVars, editVars
<1>7. CASE ~(CopyRule \/ PassOverride \/ OverrideRule \/ OverrideAction \/ Rest \/ UNCHANGED vars)
  <2>1. Elsewhere
    BY <1>1, <1>7, OtherStepsElsewhere
  <2> QED
    BY <2>1 DEF Elsewhere
<1> QED
  BY <1>4, <1>5, <1>6, <1>7

(* Every rule under edit has the settings and actions its overrides so far *)
(* give it, for all requests (overrides.rs:67 to :83 and :556 to :657).    *)
THEOREM AppliedTheorem == Spec => []AppliedSoFar
<1>1. Init => AppliedInv
  BY DEF Init, AppliedInv, AppliedSoFar
<1>2. AppliedInv /\ [Next]_vars => AppliedInv'
  BY AppliedStep
<1>3. AppliedInv => AppliedSoFar
  BY DEF AppliedInv
<1> QED
  BY <1>1, <1>2, <1>3, PTL DEF Spec

-----------------------------------------------------------------------------
\* AppliesAsChecked.

\* What the check of a rule comes to.
Accepted(os, r) ==
  \A i \in DOMAIN os : MatchesRule(os[i], r) /\ os[i].action # NoAction =>
    r.parts = {"content"} /\ Cardinality(Targets(os[i], r.actions)) = 1

ListsInv == Listed(manifest.rules) /\ Listed(rules) /\ Listed(kept)

\* The rules gone past were accepted; while overrides are applied all were.
CheckedInv ==
  /\ rule \in Nat
  /\ stage = "checking" => rule > 0 /\ \A j \in DOMAIN rules : j < rule => Accepted(overrides, rules[j])
  /\ stage = "applying" =>
       /\ \A j \in DOMAIN rules : Accepted(overrides, rules[j])
       /\ position > 0 => rule \in DOMAIN rules

(* A list keeps its positions when its elements are replaced.              *)
LEMMA MappedList ==
  ASSUME NEW s, NEW t, Listed(s), t = [j \in DOMAIN s |-> t[j]]
  PROVE Listed(t)
<1>1. PICK n \in Nat : s \in [1 .. n -> Range(s)]
  BY SeqDef DEF Listed
<1>2. DOMAIN s = 1 .. n
  BY <1>1
<1>3. t \in [1 .. n -> Range(t)]
  BY <1>2 DEF Range
<1> QED
  BY <1>3, SeqDef DEF Listed

(* Nothing is a list.                                                      *)
LEMMA EmptyList == Listed(<<>>)
BY DEF Listed

(* A list is numbered from one.                                            *)
LEMMA ListDomain ==
  ASSUME NEW s, Listed(s)
  PROVE \E n \in Nat : DOMAIN s = 1 .. n
<1>1. PICK n \in Nat : s \in [1 .. n -> Range(s)]
  BY SeqDef DEF Listed
<1> QED
  BY <1>1

(* Rules are lists throughout.                                             *)
LEMMA ListsStep ==
  ASSUME ListsInv, [Next]_vars
  PROVE ListsInv'
<1>0. Listed(manifest.rules) /\ Listed(rules) /\ Listed(kept) /\ Listed(<<>>)
  BY EmptyList DEF ListsInv
<1>1. SUFFICES Listed(manifest'.rules) /\ Listed(rules') /\ Listed(kept')
  BY DEF ListsInv
<1>2. CASE RenderContents
  <2>1. manifest' = manifest /\ kept' = kept
    BY <1>2 DEF RenderContents, requestVars, editVars
  <2>2. rules' = <<>> \/ rules' = [j \in DOMAIN manifest.rules |-> rules'[j]]
    BY <1>2 DEF RenderContents
  <2> QED
    BY <1>0, <2>1, <2>2, MappedList
<1>3. CASE ApplyOptions
  <2>1. manifest' = manifest /\ kept' = kept /\ rules' = [j \in DOMAIN rules |-> rules'[j]]
    BY <1>3 DEF ApplyOptions, requestVars, editVars
  <2> QED
    BY <1>0, <2>1, MappedList
<1>4. CASE Reinstall
  BY <1>0, <1>4 DEF Reinstall
<1>5. CASE OverrideStep /\ UNCHANGED requestVars
  <2>1. manifest' = manifest
    BY <1>5 DEF requestVars
  <2>2. CASE CloseRule
    <3>1. rules' = rules /\ (kept' = kept \/ \E e : kept' = Append(kept, e))
      BY <2>2 DEF CloseRule
    <3> QED
      BY <1>0, <2>1, <3>1, AppendList
  <2>3. CASE FinishCheck
    BY <1>0, <2>1, <2>3 DEF FinishCheck
  <2>4. CASE FinishOverrides
    BY <1>0, <2>1, <2>4 DEF FinishOverrides, editVars
  <2>5. CASE SkipOverrides \/ ReserveSelectors \/ CheckRule \/ CopyRule
    BY <1>0, <2>1, <2>5 DEF SkipOverrides, ReserveSelectors, CheckRule, CopyRule, editVars
  <2>6. CASE PassOverride \/ OverrideRule \/ OverrideAction
    BY <1>0, <2>1, <2>6 DEF PassOverride, OverrideRule, OverrideAction, AtOverride
  <2> QED
    BY <1>5, <2>2, <2>3, <2>4, <2>5, <2>6 DEF OverrideStep
<1>6. CASE Admit \/ ValidateShape \/ ReserveExceptions \/ ResolveVariables \/ RenderStrings
  BY <1>0, <1>6 DEF Admit, ValidateShape, ReserveExceptions, ResolveVariables, RenderStrings,
                    requestVars, editVars
<1>7. CASE ReserveMutations \/ CheckDocument \/ WriteManifest
  BY <1>0, <1>7 DEF ReserveMutations, CheckDocument, WriteManifest, requestVars, editVars
<1>8. CASE PassRule \/ LoadFile \/ FinishLoading
  BY <1>0, <1>8 DEF PassRule, LoadFile, FinishLoading, requestVars, editVars
<1>9. CASE Rest \/ UNCHANGED vars
  BY <1>0, <1>9 DEF Rest, vars, overrideVars, requestVars, editVars
<1> QED
  BY <1>2, <1>3, <1>4, <1>5, <1>6, <1>7, <1>8, <1>9 DEF Next, ParseStep

(* What CheckRule lets pass is accepted.                                   *)
LEMMA AcceptedByCheck ==
  ASSUME NEW r, Inline(r), Checkable(r)
  PROVE Accepted(overrides, r)
BY DEF Accepted, Inline, Checkable, ActionOverrides

(* The check goes through the rules in order, and the application does not *)
(* begin before its end.                                                   *)
LEMMA CheckedStep ==
  ASSUME ListsInv, position \in Nat, CheckedInv, [Next]_vars
  PROVE CheckedInv'
<1>1. SUFFICES
        /\ rule' \in Nat
        /\ stage' = "checking" =>
             rule' > 0 /\ \A j \in DOMAIN rules' : j < rule' => Accepted(overrides', rules'[j])
        /\ stage' = "applying" =>
             /\ \A j \in DOMAIN rules' : Accepted(overrides', rules'[j])
             /\ position' > 0 => rule' \in DOMAIN rules'
  BY DEF CheckedInv
<1>2. PICK n \in Nat : DOMAIN rules = 1 .. n
  BY ListDomain DEF ListsInv
<1>3. rule \in Nat
  BY DEF CheckedInv
<1>4. CASE OverrideStep
  <2>1. CASE SkipOverrides
    BY <1>3, <2>1 DEF SkipOverrides, editVars
  <2>2. CASE ReserveSelectors
    BY <1>2, <2>2 DEF ReserveSelectors, Go
  <2>3. CASE CheckRule
    <3>1. /\ rules' = rules /\ overrides' = overrides /\ rule' = rule + 1 /\ rule \in DOMAIN rules
          /\ stage = "checking"
      BY <2>3 DEF CheckRule
    <3>2. (stage' = "checking" /\ Inline(rules[rule]) /\ Checkable(rules[rule])) \/ stage' = "refused"
      BY <2>3 DEF CheckRule, Go
    <3>3. stage' = "checking" => Accepted(overrides, rules[rule])
      BY <3>2, AcceptedByCheck
    <3>4. \A j \in DOMAIN rules : j < rule + 1 => j < rule \/ j = rule
      BY <1>2, <1>3
    <3>5. \A j \in DOMAIN rules : j < rule => Accepted(overrides, rules[j])
      BY <3>1 DEF CheckedInv
    <3> QED
      BY <1>3, <3>1, <3>2, <3>3, <3>4, <3>5
  <2>4. CASE FinishCheck
    <3>1. /\ rules' = rules /\ overrides' = overrides /\ rule' = 1 /\ position' = 0
          /\ stage = "checking" /\ rule \notin DOMAIN rules /\ stage' \in {"applying", "refused"}
      BY <2>4 DEF FinishCheck, Go
    <3>2. \A j \in DOMAIN rules : j < rule
      BY <1>2, <3>1 DEF CheckedInv
    <3>3. \A j \in DOMAIN rules : Accepted(overrides, rules[j])
      BY <3>1, <3>2 DEF CheckedInv
    <3> QED
      BY <3>1, <3>3
  <2>5. CASE CopyRule
    BY <1>3, <2>5 DEF CopyRule, CheckedInv
  <2>6. CASE PassOverride \/ OverrideRule \/ OverrideAction
    <3>1. /\ rules' = rules /\ overrides' = overrides /\ rule' = rule /\ stage = "applying"
          /\ position > 0 /\ stage' # "checking"
      BY <2>6 DEF PassOverride, OverrideRule, OverrideAction, AtOverride, Go
    <3> QED
      BY <1>3, <3>1 DEF CheckedInv
  <2>7. CASE CloseRule
    <3>1. /\ rules' = rules /\ overrides' = overrides /\ rule' = rule + 1 /\ stage = "applying"
          /\ position' = 0 /\ stage' = "applying"
      BY <2>7 DEF CloseRule
    <3> QED
      BY <1>3, <3>1 DEF CheckedInv
  <2>8. CASE FinishOverrides
    BY <1>3, <2>8 DEF FinishOverrides, editVars
  <2> QED
    BY <1>4, <2>1, <2>2, <2>3, <2>4, <2>5, <2>6, <2>7, <2>8 DEF OverrideStep
<1>5. CASE Admit \/ ValidateShape \/ ReserveExceptions \/ ResolveVariables \/ RenderStrings
  BY <1>3, <1>5 DEF Admit, ValidateShape, ReserveExceptions, ResolveVariables, RenderStrings,
                    editVars, Go
<1>6. CASE RenderContents \/ ReserveMutations \/ ApplyOptions \/ CheckDocument \/ WriteManifest
  BY <1>3, <1>6 DEF RenderContents, ReserveMutations, ApplyOptions, CheckDocument, WriteManifest,
                    editVars, Go
<1>7. CASE PassRule \/ LoadFile \/ FinishLoading \/ Reinstall
  BY <1>3, <1>7 DEF PassRule, LoadFile, FinishLoading, Reinstall, editVars, Go
<1>8. CASE Rest \/ UNCHANGED vars
  <2>1. UNCHANGED <<stage, rule, position, rules, overrides>>
    BY <1>8 DEF Rest, vars, overrideVars, editVars
  <2> QED
    BY <2>1 DEF CheckedInv
<1> QED
  BY <1>4, <1>5, <1>6, <1>7, <1>8 DEF Next, ParseStep

(* An accepted rule with its edits so far takes the next override.         *)
LEMMA NotRefused ==
  ASSUME AppliedInv, CheckedInv, [Next]_vars, stage = "applying"
  PROVE stage' # "refused"
<1>1. CASE OverrideAction
  <2> DEFINE o == overrides[position]
             r == rules[rule]
  <2>1. /\ position > 0 /\ position \in DOMAIN overrides /\ MatchesRule(o, r)
        /\ o.action # NoAction
        /\ Go(r.parts = {"content"} /\ Cardinality(Targets(o, actions)) = 1, "applying")
    BY <1>1 DEF OverrideAction, AtOverride
  <2>2. AppliedTo(overrides, r, settings, actions, position - 1)
    BY <2>1 DEF AppliedInv, AppliedSoFar
  <2>3. Accepted(overrides, r)
    BY <2>1 DEF CheckedInv
  <2>4. r.parts = {"content"} /\ Cardinality(Targets(o, r.actions)) = 1
    BY <2>1, <2>3 DEF Accepted
  <2>5. Targets(o, actions) = Targets(o, r.actions)
    BY <2>2 DEF AppliedTo, Targets, MatchesAction
  <2> QED
    BY <2>1, <2>4, <2>5 DEF Go
<1>2. CASE CopyRule \/ PassOverride \/ OverrideRule \/ CloseRule \/ FinishOverrides
  BY <1>2 DEF CopyRule, PassOverride, OverrideRule, AtOverride, CloseRule, FinishOverrides
<1>3. CASE SkipOverrides \/ ReserveSelectors \/ CheckRule \/ FinishCheck
  BY <1>3 DEF SkipOverrides, ReserveSelectors, CheckRule, FinishCheck
<1>4. CASE Admit \/ ValidateShape \/ ReserveExceptions \/ ResolveVariables \/ RenderStrings
  BY <1>4 DEF Admit, ValidateShape, ReserveExceptions, ResolveVariables, RenderStrings
<1>5. CASE RenderContents \/ ReserveMutations \/ ApplyOptions \/ CheckDocument \/ WriteManifest
  BY <1>5 DEF RenderContents, ReserveMutations, ApplyOptions, CheckDocument, WriteManifest
<1>6. CASE PassRule \/ LoadFile \/ FinishLoading \/ Reinstall \/ Rest
  BY <1>6 DEF PassRule, LoadFile, FinishLoading, Reinstall, Rest
<1>7. CASE UNCHANGED vars
  BY <1>7 DEF vars, overrideVars
<1> QED
  BY <1>1, <1>2, <1>3, <1>4, <1>5, <1>6, <1>7 DEF Next, ParseStep, OverrideStep

(* Once the check has accepted every rule, applying the overrides is never *)
(* refused, for all requests (overrides.rs:88 and :598).                   *)
THEOREM AppliesAsCheckedTheorem == Spec => AppliesAsChecked
<1> DEFINE IInv == ListsInv /\ AppliedInv /\ CheckedInv
<1>1. Init => IInv
  <2> SUFFICES ASSUME Init PROVE IInv
    OBVIOUS
  <2>1. ListsInv
    <3>1. PICK q \in Requests : manifest = q.manifest
      BY DEF Init
    <3> QED
      BY <3>1, RequestTypes, EmptyList DEF Init, ListsInv, AreRules
  <2>2. AppliedInv /\ CheckedInv
    BY DEF Init, AppliedInv, AppliedSoFar, CheckedInv
  <2> QED
    BY <2>1, <2>2
<1>2. IInv /\ [Next]_vars => IInv'
  BY ListsStep, AppliedStep, CheckedStep DEF AppliedInv
<1>3. IInv /\ [Next]_vars => [stage = "applying" => stage' # "refused"]_overrideVars
  BY NotRefused
<1> QED
  BY <1>1, <1>2, <1>3, PTL DEF Spec, AppliesAsChecked

-----------------------------------------------------------------------------
\* Sums.

(* A set of numbers has a least one.                                       *)
LEMMA LeastNatural ==
  ASSUME NEW S \in SUBSET Nat, S # {}
  PROVE  \E x \in S : \A y \in S : x <= y
<1>1. PICK x \in S : \A y \in S : ~(<<y, x>> \in OpToRel(<, Nat))
  BY NatLessThanWellFounded, WFMin
<1>2. \A y \in S : ~(y < x)
  BY <1>1 DEF OpToRel
<1> QED
  BY <1>2

(* What holds of 0 and passes on to the next number holds of all up to n.  *)
LEMMA UpTo ==
  ASSUME NEW n \in Nat, NEW S, 0 \in S, \A i \in 1 .. n : i - 1 \in S => i \in S
  PROVE  \A i \in 0 .. n : i \in S
<1> SUFFICES ASSUME NEW j \in 0 .. n, j \notin S PROVE FALSE
  OBVIOUS
<1> DEFINE Missing == {i \in 0 .. n : i \notin S}
<1>1. PICK x \in Missing : \A y \in Missing : x <= y
  <2>1. Missing \in SUBSET Nat /\ j \in Missing
    OBVIOUS
  <2> QED
    BY <2>1, LeastNatural
<1>2. x \in 1 .. n /\ x - 1 \in S
  BY <1>1
<1> QED
  BY <1>1, <1>2

\* The first n of f are numbers.
NumbersTo(f, n) == \A k \in 1 .. n : f[k] \in Nat

\* g is the function of the sums of the first ones.
Sums(g, f, n) == g[0] = 0 /\ \A k \in 1 .. n : g[k] = g[k - 1] + f[k]

(* Numbers can be summed up ...                                            *)
LEMMA SumsExist ==
  ASSUME NEW n \in Nat, NEW f, NumbersTo(f, n)
  PROVE \E g \in [0 .. n -> Nat] : Sums(g, f, n)
<1> DEFINE Summed == {m \in 0 .. n : \E g \in [0 .. m -> Nat] : Sums(g, f, m)}
<1>1. \A k \in 1 .. n : f[k] \in Nat
  BY DEF NumbersTo
<1>2. 0 \in Summed
  <2> DEFINE g == [k \in 0 .. 0 |-> 0]
  <2>1. g \in [0 .. 0 -> Nat] /\ g[0] = 0
    OBVIOUS
  <2> HIDE DEF g
  <2>2. Sums(g, f, 0)
    BY <2>1 DEF Sums
  <2> QED
    BY <2>1, <2>2
<1>3. ASSUME NEW m \in 1 .. n, m - 1 \in Summed PROVE m \in Summed
  <2>1. PICK g \in [0 .. m - 1 -> Nat] : Sums(g, f, m - 1)
    BY <1>3
  <2> DEFINE h == [k \in 0 .. m |-> IF k = m THEN g[m - 1] + f[m] ELSE g[k]]
  <2>2. g[m - 1] + f[m] \in Nat
    BY <1>1, <2>1
  <2>3. /\ h \in [0 .. m -> Nat] /\ h[m] = g[m - 1] + f[m]
        /\ \A k \in 0 .. m - 1 : h[k] = g[k]
    BY <2>1, <2>2
  <2> HIDE DEF h
  <2>4. h[0] = 0
    BY <2>1, <2>3 DEF Sums
  <2>5. ASSUME NEW k \in 1 .. m PROVE h[k] = h[k - 1] + f[k]
    <3>1. CASE k = m
      BY <2>3, <3>1
    <3>2. CASE k # m
      <4>1. k \in 1 .. m - 1 /\ k - 1 \in 0 .. m - 1 /\ k \in 0 .. m - 1
        BY <3>2
      <4> QED
        BY <2>1, <2>3, <4>1 DEF Sums
    <3> QED
      BY <3>1, <3>2
  <2>6. Sums(h, f, m)
    BY <2>4, <2>5 DEF Sums
  <2>7. \E g1 \in [0 .. m -> Nat] : Sums(g1, f, m)
    BY <2>3, <2>6, Zenon
  <2>8. m \in 0 .. n
    OBVIOUS
  <2> QED
    BY <2>7, <2>8, Zenon
<1>4. n \in Summed
  <2> HIDE DEF Summed
  <2>1. \A k \in 0 .. n : k \in Summed
    BY <1>2, <1>3, UpTo
  <2> QED
    BY <2>1
<1> QED
  BY <1>4

(* ... and SumTo is the last of the sums.                                  *)
LEMMA SumIs ==
  ASSUME NEW n \in Nat, NEW f, NumbersTo(f, n), NEW g, Sums(g, f, n)
  PROVE SumTo(f, n) = g[n]
<1> DEFINE Solves(h) == h = [k \in 0 .. n |-> IF k = 0 THEN 0 ELSE h[k - 1] + f[k]]
           sum == CHOOSE h : Solves(h)
<1>1. SumTo(f, n) = sum[n]
  BY DEF SumTo
<1>2. PICK h \in [0 .. n -> Nat] : Sums(h, f, n)
  BY SumsExist
<1>3. Solves(h)
  <2>1. \A k \in 0 .. n : h[k] = IF k = 0 THEN 0 ELSE h[k - 1] + f[k]
    BY <1>2 DEF Sums
  <2> QED
    BY <1>2, <2>1
<1>4. Solves(sum)
  <2> HIDE DEF Solves
  <2> QED
    BY <1>3
<1> HIDE DEF sum
<1>5. Sums(sum, f, n)
  <2>1. \A k \in 0 .. n : sum[k] = IF k = 0 THEN 0 ELSE sum[k - 1] + f[k]
    BY <1>4
  <2> QED
    BY <2>1 DEF Sums
<1> DEFINE Same == {k \in 0 .. n : sum[k] = g[k]}
<1>6. 0 \in Same
  BY <1>5 DEF Sums
<1>7. ASSUME NEW k \in 1 .. n, k - 1 \in Same PROVE k \in Same
  BY <1>5, <1>7 DEF Sums
<1> HIDE DEF Same
<1>8. \A k \in 0 .. n : k \in Same
  BY <1>6, <1>7, UpTo
<1>9. n \in Same
  BY <1>8
<1> QED
  BY <1>1, <1>9 DEF Same

(* One number more.                                                        *)
LEMMA SumStep ==
  ASSUME NEW n \in Nat, NEW f, NumbersTo(f, n)
  PROVE /\ SumTo(f, n) \in Nat /\ SumTo(f, 0) = 0
        /\ \A m \in 1 .. n : SumTo(f, m) = SumTo(f, m - 1) + f[m] /\ SumTo(f, m) \in Nat
                               /\ SumTo(f, m - 1) \in Nat /\ f[m] \in Nat
<1>1. PICK g \in [0 .. n -> Nat] : Sums(g, f, n)
  BY SumsExist
<1>2. ASSUME NEW m \in 0 .. n PROVE SumTo(f, m) = g[m]
  <2>1. NumbersTo(f, m) /\ Sums(g, f, m) /\ m \in Nat
    BY <1>1 DEF NumbersTo, Sums
  <2> QED
    BY <2>1, SumIs
<1>3. SumTo(f, 0) = 0 /\ SumTo(f, n) \in Nat
  BY <1>1, <1>2 DEF Sums
<1>4. ASSUME NEW m \in 1 .. n
      PROVE SumTo(f, m) = SumTo(f, m - 1) + f[m] /\ SumTo(f, m) \in Nat
              /\ SumTo(f, m - 1) \in Nat /\ f[m] \in Nat
  <2>1. m \in 0 .. n /\ m - 1 \in 0 .. n
    OBVIOUS
  <2>2. g[m] = g[m - 1] + f[m] /\ g[m] \in Nat /\ g[m - 1] \in Nat
    BY <1>1, <2>1 DEF Sums
  <2>3. f[m] \in Nat
    BY DEF NumbersTo
  <2> QED
    BY <1>2, <2>1, <2>2, <2>3
<1> QED
  BY <1>3, <1>4

(* Sums of larger numbers are larger, those of equal ones equal.           *)
LEMMA SumMonotone ==
  ASSUME NEW n \in Nat, NEW f, NEW g, NumbersTo(f, n), NumbersTo(g, n),
         \A k \in 1 .. n : f[k] <= g[k]
  PROVE SumTo(f, n) <= SumTo(g, n)
<1> DEFINE Below == {m \in 0 .. n : SumTo(f, m) <= SumTo(g, m)}
<1>1. 0 \in Below
  BY SumStep
<1>2. ASSUME NEW k \in 1 .. n, k - 1 \in Below PROVE k \in Below
  <2>1. /\ SumTo(f, k) = SumTo(f, k - 1) + f[k] /\ SumTo(f, k) \in Nat
        /\ SumTo(f, k - 1) \in Nat /\ f[k] \in Nat
    BY SumStep
  <2>2. /\ SumTo(g, k) = SumTo(g, k - 1) + g[k] /\ SumTo(g, k) \in Nat
        /\ SumTo(g, k - 1) \in Nat /\ g[k] \in Nat
    BY SumStep
  <2>3. SumTo(f, k - 1) <= SumTo(g, k - 1) /\ f[k] <= g[k]
    BY <1>2
  <2> QED
    BY <2>1, <2>2, <2>3
<1> HIDE DEF Below
<1>3. \A k \in 0 .. n : k \in Below
  BY <1>1, <1>2, UpTo
<1>4. n \in Below
  BY <1>3
<1> QED
  BY <1>4 DEF Below

(* Sums of equal numbers are equal.                                        *)
LEMMA SumSame ==
  ASSUME NEW n \in Nat, NEW f, NEW g, NumbersTo(f, n), \A k \in 1 .. n : f[k] = g[k]
  PROVE SumTo(f, n) = SumTo(g, n)
<1>1. NumbersTo(g, n)
  BY DEF NumbersTo
<1>2. PICK h \in [0 .. n -> Nat] : Sums(h, f, n)
  BY SumsExist
<1>3. Sums(h, g, n)
  BY <1>2 DEF Sums
<1> QED
  BY <1>1, <1>2, <1>3, SumIs

(* More numbers sum up to more.                                            *)
LEMMA SumGrows ==
  ASSUME NEW n \in Nat, NEW f, NumbersTo(f, n), NEW m \in 0 .. n
  PROVE SumTo(f, m) <= SumTo(f, n) /\ SumTo(f, m) \in Nat /\ SumTo(f, n) \in Nat
<1> DEFINE Above == {k \in 0 .. n : k < m \/ SumTo(f, m) <= SumTo(f, k)}
<1>0. ASSUME NEW k \in 0 .. n PROVE SumTo(f, k) \in Nat
  <2>1. k \in Nat /\ NumbersTo(f, k)
    BY DEF NumbersTo
  <2> QED
    BY <2>1, SumStep
<1>1. 0 \in Above
  BY <1>0
<1>2. ASSUME NEW k \in 1 .. n, k - 1 \in Above PROVE k \in Above
  <2>1. SumTo(f, k) = SumTo(f, k - 1) + f[k] /\ f[k] \in Nat
    BY SumStep
  <2>2. SumTo(f, k) \in Nat /\ SumTo(f, k - 1) \in Nat /\ SumTo(f, m) \in Nat
    BY <1>0
  <2>3. k - 1 < m \/ SumTo(f, m) <= SumTo(f, k - 1)
    BY <1>2
  <2> HIDE DEF Above
  <2>4. k < m \/ SumTo(f, m) <= SumTo(f, k)
    BY <2>1, <2>2, <2>3
  <2> QED
    BY <2>4 DEF Above
<1> HIDE DEF Above
<1>3. \A k \in 0 .. n : k \in Above
  BY <1>1, <1>2, UpTo
<1>4. n \in Above
  BY <1>3
<1> QED
  BY <1>0, <1>4 DEF Above

(* The sum of sums.                                                        *)
LEMMA SumPlus ==
  ASSUME NEW n \in Nat, NEW f, NEW g, NEW h, NumbersTo(f, n), NumbersTo(g, n),
         \A k \in 1 .. n : h[k] = f[k] + g[k]
  PROVE SumTo(h, n) = SumTo(f, n) + SumTo(g, n)
<1> DEFINE Added == {m \in 0 .. n : SumTo(h, m) = SumTo(f, m) + SumTo(g, m)}
<1>0. NumbersTo(h, n)
  BY DEF NumbersTo
<1>1. 0 \in Added
  BY <1>0, SumStep
<1>2. ASSUME NEW k \in 1 .. n, k - 1 \in Added PROVE k \in Added
  <2>1. SumTo(f, k) = SumTo(f, k - 1) + f[k] /\ SumTo(f, k - 1) \in Nat /\ f[k] \in Nat
    BY SumStep
  <2>2. SumTo(g, k) = SumTo(g, k - 1) + g[k] /\ SumTo(g, k - 1) \in Nat /\ g[k] \in Nat
    BY SumStep
  <2>3. SumTo(h, k) = SumTo(h, k - 1) + h[k]
    BY <1>0, SumStep
  <2>4. SumTo(h, k - 1) = SumTo(f, k - 1) + SumTo(g, k - 1) /\ h[k] = f[k] + g[k]
    BY <1>2
  <2> QED
    BY <2>1, <2>2, <2>3, <2>4
<1> HIDE DEF Added
<1>3. \A k \in 0 .. n : k \in Added
  BY <1>1, <1>2, UpTo
<1>4. n \in Added
  BY <1>3
<1> QED
  BY <1>4 DEF Added

(* The numbers of one list and then those of another.                      *)
LEMMA SumConcat ==
  ASSUME NEW m \in Nat, NEW n \in Nat, NEW f, NEW g, NEW h, NumbersTo(f, m), NumbersTo(g, n),
         \A k \in 1 .. m : h[k] = f[k], \A k \in 1 .. n : h[m + k] = g[k]
  PROVE SumTo(h, m + n) = SumTo(f, m) + SumTo(g, n)
<1> DEFINE Added == {k \in 0 .. n : SumTo(h, m + k) = SumTo(f, m) + SumTo(g, k)}
<1>0. NumbersTo(h, m + n)
  <2>1. ASSUME NEW k \in 1 .. m + n PROVE h[k] \in Nat
    <3>1. CASE k <= m
      <4>1. k \in 1 .. m
        BY <3>1
      <4> QED
        BY <4>1 DEF NumbersTo
    <3>2. CASE k > m
      <4>1. k - m \in 1 .. n /\ m + (k - m) = k
        BY <3>2
      <4>2. h[m + (k - m)] = g[k - m] /\ g[k - m] \in Nat
        BY <4>1 DEF NumbersTo
      <4> QED
        BY <4>1, <4>2
    <3> QED
      BY <3>1, <3>2
  <2> QED
    BY <2>1 DEF NumbersTo
<1>1. 0 \in Added
  <2>1. SumTo(h, m) = SumTo(f, m)
    BY SumSame
  <2>2. SumTo(f, m) \in Nat /\ SumTo(g, 0) = 0
    BY SumStep
  <2> QED
    BY <2>1, <2>2
<1>2. ASSUME NEW k \in 1 .. n, k - 1 \in Added PROVE k \in Added
  <2>1. SumTo(f, m) \in Nat
    BY SumStep
  <2>2. SumTo(g, k) = SumTo(g, k - 1) + g[k] /\ SumTo(g, k - 1) \in Nat /\ g[k] \in Nat
    BY SumStep
  <2>3. m + k \in 1 .. (m + n) /\ m + k - 1 = m + (k - 1)
    OBVIOUS
  <2>4. SumTo(h, m + k) = SumTo(h, m + k - 1) + h[m + k]
    <3> DEFINE p == m + k
               q == m + n
    <3>1. q \in Nat /\ NumbersTo(h, q) /\ p \in 1 .. q
      BY <1>0, <2>3
    <3> HIDE DEF p, q
    <3>2. SumTo(h, p) = SumTo(h, p - 1) + h[p]
      BY <3>1, SumStep
    <3> QED
      BY <3>2 DEF p
  <2>5. SumTo(h, m + (k - 1)) = SumTo(f, m) + SumTo(g, k - 1) /\ h[m + k] = g[k]
    BY <1>2
  <2>6. SumTo(h, m + k) = SumTo(f, m) + SumTo(g, k - 1) + g[k]
    BY <2>3, <2>4, <2>5
  <2> QED
    BY <2>1, <2>2, <2>6
<1> HIDE DEF Added
<1>3. \A k \in 0 .. n : k \in Added
  BY <1>1, <1>2, UpTo
<1>4. n \in Added
  BY <1>3
<1> QED
  BY <1>4 DEF Added

(* As many ones as there are.                                              *)
LEMMA SumOnes ==
  ASSUME NEW n \in Nat, NEW f, \A k \in 1 .. n : f[k] = 1
  PROVE SumTo(f, n) = n
<1> DEFINE g == [k \in 0 .. n |-> k]
<1>1. NumbersTo(f, n)
  BY DEF NumbersTo
<1>2. g[0] = 0 /\ g[n] = n /\ \A k \in 1 .. n : g[k] = k /\ g[k - 1] = k - 1
  OBVIOUS
<1> HIDE DEF g
<1>3. Sums(g, f, n)
  BY <1>2 DEF Sums
<1> QED
  BY <1>1, <1>2, <1>3, SumIs

-----------------------------------------------------------------------------
\* Lists.

(* A list is a function of its positions ...                               *)
LEMMA ListIs ==
  ASSUME NEW s, Listed(s)
  PROVE Len(s) \in Nat /\ DOMAIN s = 1 .. Len(s) /\ s = [i \in 1 .. Len(s) |-> s[i]]
<1>1. s \in Seq(Range(s))
  BY DEF Listed
<1>2. Len(s) \in Nat /\ DOMAIN s = 1 .. Len(s) /\ s \in [1 .. Len(s) -> Range(s)]
  BY <1>1, LenProperties
<1> QED
  BY <1>2

(* ... and the other way round.                                            *)
LEMMA IsList ==
  ASSUME NEW n \in Nat, NEW s, s = [i \in 1 .. n |-> s[i]]
  PROVE Listed(s) /\ Len(s) = n /\ DOMAIN s = 1 .. n
<1>1. DOMAIN s = 1 .. n
  OBVIOUS
<1>2. s \in [1 .. n -> Range(s)]
  BY <1>1 DEF Range
<1>3. s \in Seq(Range(s))
  BY <1>2, SeqDef
<1>4. Len(s) \in Nat /\ DOMAIN s = 1 .. Len(s)
  BY <1>3, LenProperties
<1>5. Len(s) = n
  BY <1>1, <1>4
<1> QED
  BY <1>1, <1>3, <1>5 DEF Listed

(* The elements of two lists.                                              *)
LEMMA ListConcat ==
  ASSUME NEW s, NEW t, Listed(s), Listed(t)
  PROVE /\ Listed(s \o t) /\ Len(s \o t) = Len(s) + Len(t)
        /\ \A i \in 1 .. Len(s) : (s \o t)[i] = s[i]
        /\ \A i \in 1 .. Len(t) : (s \o t)[Len(s) + i] = t[i]
<1> DEFINE S == Range(s) \cup Range(t)
<1>1. s \in Seq(S) /\ t \in Seq(S)
  <2>1. s \in [1 .. Len(s) -> S] /\ t \in [1 .. Len(t) -> S] /\ Len(s) \in Nat /\ Len(t) \in Nat
    BY ListIs DEF Range
  <2> QED
    BY <2>1, SeqDef
<1> HIDE DEF S
<1>2. /\ s \o t \in Seq(S) /\ Len(s \o t) = Len(s) + Len(t)
      /\ \A i \in 1 .. Len(s) + Len(t) :
           (s \o t)[i] = IF i <= Len(s) THEN s[i] ELSE t[i - Len(s)]
  BY <1>1, ConcatProperties
<1>3. Len(s) \in Nat /\ Len(t) \in Nat
  BY ListIs
<1> DEFINE u == s \o t
           n == Len(s) + Len(t)
<1>4. u \in [1 .. n -> S] /\ n \in Nat
  BY <1>2, <1>3, LenProperties
<1>5. u = [i \in 1 .. n |-> u[i]]
  BY <1>4
<1> HIDE DEF u, n
<1>6. Listed(u)
  BY <1>4, <1>5, IsList
<1> QED
  BY <1>2, <1>3, <1>6 DEF u

\* h[i] is the first i lists of ss, one after another.
Joins(h, ss, m) ==
  /\ h = [i \in 1 .. m |-> h[i]]
  /\ \A i \in 1 .. m : Listed(h[i]) /\ h[i] = IF i = 1 THEN ss[i] ELSE h[i - 1] \o ss[i]

(* FlattenSeq joins one list after another.                                *)
LEMMA FlattenIs ==
  ASSUME NEW ss, Listed(ss), AreTexts(ss)
  PROVE /\ Len(ss) = 0 => FlattenSeq(ss) = ss
        /\ Len(ss) # 0 => \E h : Joins(h, ss, Len(ss)) /\ FlattenSeq(ss) = h[Len(ss)]
<1> DEFINE n == Len(ss)
           Solves(h) == h = [i \in 1 .. n |-> IF i = 1 THEN ss[i] ELSE h[i - 1] \o ss[i]]
           flatten == CHOOSE h : Solves(h)
           Joined == {m \in 0 .. n : \E h : Joins(h, ss, m)}
<1>1. n \in Nat /\ \A i \in 1 .. n : Listed(ss[i])
  BY ListIs DEF AreTexts
<1>2. FlattenSeq(ss) = IF n = 0 THEN ss ELSE flatten[n]
  BY DEF FlattenSeq
<1> HIDE DEF n
<1>3. 0 \in Joined
  <2> DEFINE h == [i \in 1 .. 0 |-> 0]
  <2>1. h = [i \in 1 .. 0 |-> h[i]]
    OBVIOUS
  <2> HIDE DEF h
  <2>2. Joins(h, ss, 0)
    BY <2>1 DEF Joins
  <2> QED
    BY <1>1, <2>2
<1>4. ASSUME NEW m \in 1 .. n, m - 1 \in Joined PROVE m \in Joined
  <2>1. PICK h : Joins(h, ss, m - 1)
    BY <1>4
  <2> DEFINE g == [i \in 1 .. m |-> IF i < m THEN h[i]
                                    ELSE IF m = 1 THEN ss[m] ELSE h[m - 1] \o ss[m]]
  <2>0. DOMAIN g = 1 .. m
    OBVIOUS
  <2>2. /\ g = [i \in 1 .. m |-> g[i]] /\ \A i \in 1 .. m - 1 : g[i] = h[i]
        /\ g[m] = IF m = 1 THEN ss[m] ELSE h[m - 1] \o ss[m]
    <3>1. \A i \in 1 .. m - 1 : g[i] = h[i]
      BY <1>1
    <3>2. g[m] = IF m = 1 THEN ss[m] ELSE h[m - 1] \o ss[m]
      BY <1>1
    <3>3. g = [i \in 1 .. m |-> g[i]]
      BY <2>0
    <3> QED
      BY <3>1, <3>2, <3>3
  <2> HIDE DEF g
  <2>3. Listed(g[m])
    <3>1. m # 1 => Listed(h[m - 1])
      <4>1. m # 1 => m - 1 \in 1 .. m - 1
        BY <1>1
      <4>2. \A i \in 1 .. m - 1 : Listed(h[i])
        BY <2>1 DEF Joins
      <4> QED
        BY <4>1, <4>2
    <3>2. Listed(ss[m])
      BY <1>1
    <3> QED
      BY <2>2, <3>1, <3>2, ListConcat
  <2>4. ASSUME NEW i \in 1 .. m
        PROVE Listed(g[i]) /\ g[i] = IF i = 1 THEN ss[i] ELSE g[i - 1] \o ss[i]
    <3>1. CASE i = m
      <4>1. i # 1 => i - 1 \in 1 .. m - 1
        BY <1>1, <3>1
      <4> QED
        BY <2>2, <2>3, <3>1, <4>1
    <3>2. CASE i # m
      <4>1. i \in 1 .. m - 1 /\ (i # 1 => i - 1 \in 1 .. m - 1)
        BY <1>1, <3>2
      <4> QED
        BY <2>1, <2>2, <4>1 DEF Joins
    <3> QED
      BY <3>1, <3>2
  <2>5. Joins(g, ss, m)
    BY <2>2, <2>4 DEF Joins
  <2> QED
    BY <1>1, <2>5
<1>5. n \in Joined
  <2> HIDE DEF Joined
  <2>1. \A k \in 0 .. n : k \in Joined
    BY <1>1, <1>3, <1>4, UpTo
  <2> QED
    BY <1>1, <2>1
<1>6. PICK g : Joins(g, ss, n)
  BY <1>5
<1>7. Solves(g)
  <2>1. \A i \in 1 .. n : g[i] = IF i = 1 THEN ss[i] ELSE g[i - 1] \o ss[i]
    BY <1>6 DEF Joins
  <2>2. g = [i \in 1 .. n |-> g[i]]
    BY <1>6 DEF Joins
  <2> QED
    BY <2>1, <2>2
<1>8. Solves(flatten)
  <2> HIDE DEF Solves
  <2> QED
    BY <1>7
<1> HIDE DEF flatten
<1> DEFINE Lists == {i \in 0 .. n : i = 0 \/ Listed(flatten[i])}
<1>9. 0 \in Lists
  BY <1>1
<1>10. ASSUME NEW i \in 1 .. n, i - 1 \in Lists PROVE i \in Lists
  <2>1. flatten[i] = IF i = 1 THEN ss[i] ELSE flatten[i - 1] \o ss[i]
    BY <1>8
  <2>2. i # 1 => Listed(flatten[i - 1])
    BY <1>10
  <2>3. Listed(ss[i])
    BY <1>1
  <2>4. Listed(flatten[i])
    BY <2>1, <2>2, <2>3, ListConcat
  <2> QED
    BY <1>1, <2>4
<1> HIDE DEF Lists
<1>11. \A k \in 0 .. n : k \in Lists
  BY <1>1, <1>9, <1>10, UpTo
<1>12. \A i \in 1 .. n : Listed(flatten[i])
  BY <1>1, <1>11 DEF Lists
<1>13. \A i \in 1 .. n : flatten[i] = IF i = 1 THEN ss[i] ELSE flatten[i - 1] \o ss[i]
  BY <1>8
<1>14. flatten = [i \in 1 .. n |-> flatten[i]]
  BY <1>8
<1> HIDE DEF Solves
<1>15. Joins(flatten, ss, n)
  BY <1>12, <1>13, <1>14 DEF Joins
<1> QED
  BY <1>2, <1>15 DEF n

(* What is joined of lists is a list.                                      *)
LEMMA ListFlatten ==
  ASSUME NEW ss, Listed(ss), AreTexts(ss)
  PROVE Listed(FlattenSeq(ss))
<1>1. CASE Len(ss) = 0
  BY <1>1, FlattenIs
<1>2. CASE Len(ss) # 0
  <2>1. PICK h : Joins(h, ss, Len(ss)) /\ FlattenSeq(ss) = h[Len(ss)]
    BY <1>2, FlattenIs
  <2>2. Len(ss) \in 1 .. Len(ss)
    BY <1>2, ListIs
  <2> QED
    BY <2>1, <2>2 DEF Joins
<1> QED
  BY <1>1, <1>2

(* One element is a list.                                                  *)
LEMMA SingleList ==
  ASSUME NEW e
  PROVE Listed(<<e>>) /\ Len(<<e>>) = 1 /\ DOMAIN <<e>> = {1} /\ <<e>>[1] = e
<1> DEFINE s == <<e>>
<1>1. s = [i \in 1 .. 1 |-> s[i]] /\ s[1] = e
  OBVIOUS
<1> HIDE DEF s
<1>2. Listed(s) /\ Len(s) = 1 /\ DOMAIN s = 1 .. 1
  BY <1>1, IsList
<1>3. 1 .. 1 = {1}
  OBVIOUS
<1> QED
  BY <1>1, <1>2, <1>3 DEF s

(* Text as it is scanned is made of lists, one for each of its pieces.     *)
LEMMA ScannedPieces ==
  ASSUME NEW text, Listed(text)
  PROVE \E ss :
          /\ Listed(ss) /\ AreTexts(ss) /\ DOMAIN ss = DOMAIN text /\ Scanned(text) = FlattenSeq(ss)
          /\ \A i \in DOMAIN text :
               ss[i] = IF i \in Spelled(text) THEN <<Marker(text[i + 2].name)>>
                       ELSE IF \E k \in 1 .. 4 : i - k \in Spelled(text) THEN <<>>
                       ELSE <<text[i]>>
<1> DEFINE n == Len(text)
           Piece(i) == IF i \in Spelled(text) THEN <<Marker(text[i + 2].name)>>
                       ELSE IF \E k \in 1 .. 4 : i - k \in Spelled(text) THEN <<>>
                       ELSE <<text[i]>>
           ss == [i \in DOMAIN text |-> Piece(i)]
<1>1. n \in Nat /\ DOMAIN text = 1 .. n
  BY ListIs
<1>2. ASSUME NEW i \in DOMAIN text PROVE Listed(Piece(i))
  <2>1. Listed(<<text[i]>>) /\ Listed(<<Marker(text[i + 2].name)>>) /\ Listed(<<>>)
    BY SingleList, EmptyList
  <2> QED
    BY <2>1
<1>3. Scanned(text) = FlattenSeq(ss)
  BY DEF Scanned
<1>4. \A i \in DOMAIN text : ss[i] = Piece(i)
  OBVIOUS
<1> HIDE DEF n, Piece
<1>5. ss = [i \in 1 .. n |-> ss[i]] /\ DOMAIN ss = DOMAIN text /\ \A i \in DOMAIN ss : Listed(ss[i])
  BY <1>1, <1>2
<1> HIDE DEF ss
<1>6. Listed(ss) /\ AreTexts(ss)
  BY <1>1, <1>5, IsList DEF AreTexts
<1> QED
  BY <1>3, <1>4, <1>5, <1>6 DEF Piece

(* ... and is a text.                                                      *)
LEMMA ScannedList ==
  ASSUME NEW text, Listed(text)
  PROVE Listed(Scanned(text))
BY ScannedPieces, ListFlatten

(* The lists that take the place of the pieces of a text.                  *)
LEMMA SubstitutePieces ==
  ASSUME NEW text, NEW vs, Listed(text), AreTexts(vs)
  PROVE \E ss :
          LET t == Scanned(text)
          IN /\ Listed(ss) /\ AreTexts(ss) /\ DOMAIN ss = DOMAIN t /\ Substitute(text, vs) = FlattenSeq(ss)
             /\ \A i \in DOMAIN t :
                  ss[i] = IF t[i].marker /\ t[i].name \in DOMAIN vs THEN vs[t[i].name] ELSE <<t[i]>>
<1> DEFINE t == Scanned(text)
           n == Len(t)
           Piece(i) == IF t[i].marker /\ t[i].name \in DOMAIN vs THEN vs[t[i].name] ELSE <<t[i]>>
           ss == [i \in DOMAIN t |-> Piece(i)]
<1>1. n \in Nat /\ DOMAIN t = 1 .. n
  BY ScannedList, ListIs
<1>2. ASSUME NEW i \in DOMAIN t PROVE Listed(Piece(i))
  <2>1. Listed(<<t[i]>>)
    BY SingleList
  <2> QED
    BY <2>1 DEF AreTexts
<1>3. Substitute(text, vs) = FlattenSeq(ss)
  BY DEF Substitute
<1>4. \A i \in DOMAIN t : ss[i] = Piece(i)
  OBVIOUS
<1> HIDE DEF n, Piece
<1>5. ss = [i \in 1 .. n |-> ss[i]] /\ DOMAIN ss = DOMAIN t /\ \A i \in DOMAIN ss : Listed(ss[i])
  BY <1>1, <1>2
<1> HIDE DEF ss
<1>6. Listed(ss) /\ AreTexts(ss)
  BY <1>1, <1>5, IsList DEF AreTexts
<1> QED
  BY <1>3, <1>4, <1>5, <1>6 DEF Piece

(* Text with its placeholders replaced is text.                            *)
LEMMA SubstituteList ==
  ASSUME NEW text, NEW vs, Listed(text), AreTexts(vs)
  PROVE Listed(Substitute(text, vs))
BY SubstitutePieces, ListFlatten

(* Sums over the elements of a list.                                       *)
LEMMA SumOfIs ==
  ASSUME NEW n \in Nat, NEW f, f = [i \in 1 .. n |-> f[i]], NumbersTo(f, n)
  PROVE SumOf(f) = SumTo(f, n) /\ SumOf(f) \in Nat
<1>1. Len(f) = n
  BY IsList
<1> QED
  BY <1>1, SumStep DEF SumOf

-----------------------------------------------------------------------------
\* Types of what is rendered.

(* Nothing is a list of anything.                                          *)
LEMMA EmptyTypes ==
  AreRules(<<>>) /\ AreOverrides(<<>>) /\ AreExceptions(<<>>) /\ AreActions(<<>>) /\ AreTexts(<<>>)
BY EmptyList DEF AreRules, AreOverrides, AreExceptions, AreActions, AreTexts

(* The elements of a list that was put together.                           *)
LEMMA ConcatElements ==
  ASSUME NEW s, NEW t, Listed(s), Listed(t), NEW P,
         \A i \in DOMAIN s : s[i] \in P, \A i \in DOMAIN t : t[i] \in P
  PROVE Listed(s \o t) /\ \A i \in DOMAIN (s \o t) : (s \o t)[i] \in P
<1> DEFINE u == s \o t
<1>1. /\ Listed(u) /\ Len(u) = Len(s) + Len(t)
      /\ \A i \in 1 .. Len(s) : u[i] = s[i]
      /\ \A i \in 1 .. Len(t) : u[Len(s) + i] = t[i]
  BY ListConcat
<1> HIDE DEF u
<1>2. /\ Len(s) \in Nat /\ DOMAIN s = 1 .. Len(s) /\ Len(t) \in Nat /\ DOMAIN t = 1 .. Len(t)
      /\ DOMAIN u = 1 .. Len(u)
  BY <1>1, ListIs
<1>3. ASSUME NEW i \in DOMAIN u PROVE u[i] \in P
  <2>1. CASE i \in 1 .. Len(s)
    BY <1>1, <1>2, <2>1
  <2>2. CASE i \notin 1 .. Len(s)
    <3>1. i - Len(s) \in 1 .. Len(t) /\ Len(s) + (i - Len(s)) = i
      BY <1>1, <1>2, <2>2
    <3>2. u[Len(s) + (i - Len(s))] = t[i - Len(s)]
      BY <1>1, <3>1
    <3> QED
      BY <1>2, <3>1, <3>2
  <2> QED
    BY <2>1, <2>2
<1> QED
  BY <1>1, <1>3 DEF u

(* Exceptions of the manifest and of the options.                          *)
LEMMA ConcatExceptions ==
  ASSUME NEW s, NEW t, AreExceptions(s), AreExceptions(t)
  PROVE AreExceptions(s \o t)
<1> DEFINE P == {e \in Range(s) \cup Range(t) : IsException(e)}
<1>1. Listed(s) /\ Listed(t) /\ (\A i \in DOMAIN s : s[i] \in P) /\ \A i \in DOMAIN t : t[i] \in P
  BY DEF AreExceptions, Range
<1>2. \A e \in P : IsException(e)
  OBVIOUS
<1> HIDE DEF P
<1>3. Listed(s \o t) /\ \A i \in DOMAIN (s \o t) : (s \o t)[i] \in P
  BY <1>1, ConcatElements
<1> QED
  BY <1>2, <1>3 DEF AreExceptions

(* A list and its last element.                                            *)
LEMMA AppendIs ==
  ASSUME NEW s, NEW e, Listed(s)
  PROVE /\ Listed(Append(s, e)) /\ Len(Append(s, e)) = Len(s) + 1
        /\ DOMAIN Append(s, e) = 1 .. Len(s) + 1
        /\ Append(s, e)[Len(s) + 1] = e /\ \A i \in 1 .. Len(s) : Append(s, e)[i] = s[i]
<1> DEFINE S == Range(s) \cup {e}
           t == Append(s, e)
<1>1. s \in Seq(S) /\ e \in S
  <2>1. s \in [1 .. Len(s) -> S] /\ Len(s) \in Nat
    BY ListIs DEF Range
  <2> QED
    BY <2>1, SeqDef
<1> HIDE DEF S
<1>2. /\ Len(t) = Len(s) + 1 /\ t[Len(s) + 1] = e /\ \A i \in 1 .. Len(s) : t[i] = s[i]
  BY <1>1, AppendProperties
<1> HIDE DEF t
<1>3. Listed(t)
  BY AppendList DEF t
<1>4. DOMAIN t = 1 .. Len(s) + 1
  BY <1>2, <1>3, ListIs
<1> QED
  BY <1>2, <1>3, <1>4 DEF t

\* h[n] has those of precedence p among the first n of os.
Keeps(h, os, p, m) ==
  /\ h = [n \in 0 .. m |-> h[n]] /\ h[0] = <<>>
  /\ \A n \in 1 .. m : h[n] = IF Precedence(os[n]) = p THEN Append(h[n - 1], os[n]) ELSE h[n - 1]

(* The overrides of one precedence.                                        *)
LEMMA OfPrecedenceElements ==
  ASSUME NEW os, NEW p, Listed(os), NEW P, \A i \in DOMAIN os : os[i] \in P
  PROVE LET of == OfPrecedence(os, p) IN Listed(of) /\ \A i \in DOMAIN of : of[i] \in P
<1> DEFINE n == Len(os)
           Kept(g, k) == IF Precedence(os[k]) = p THEN Append(g[k - 1], os[k]) ELSE g[k - 1]
           Solves(g) == g = [k \in 0 .. n |-> IF k = 0 THEN <<>> ELSE Kept(g, k)]
           those == CHOOSE g : Solves(g)
           Found == {m \in 0 .. n : \E h : Keeps(h, os, p, m)}
<1>1. n \in Nat /\ \A i \in 1 .. n : os[i] \in P
  BY ListIs
<1>2. OfPrecedence(os, p) = those[n]
  BY DEF OfPrecedence
<1> HIDE DEF n
<1>3. 0 \in Found
  <2> DEFINE h == [i \in 0 .. 0 |-> <<>>]
  <2>1. h = [i \in 0 .. 0 |-> h[i]] /\ h[0] = <<>>
    OBVIOUS
  <2> HIDE DEF h
  <2>2. Keeps(h, os, p, 0)
    BY <2>1 DEF Keeps
  <2> QED
    BY <1>1, <2>2
<1>4. ASSUME NEW m \in 1 .. n, m - 1 \in Found PROVE m \in Found
  <2>1. PICK h : Keeps(h, os, p, m - 1)
    BY <1>4
  <2> DEFINE g == [i \in 0 .. m |-> IF i < m THEN h[i] ELSE Kept(h, m)]
  <2>0. DOMAIN g = 0 .. m
    OBVIOUS
  <2>2. \A i \in 0 .. m - 1 : g[i] = h[i]
    BY <1>1
  <2>3. g[m] = Kept(h, m)
    BY <1>1
  <2>4. g = [i \in 0 .. m |-> g[i]]
    BY <2>0
  <2> HIDE DEF g
  <2>5. 0 \in 0 .. m - 1
    BY <1>1
  <2>6. g[0] = <<>>
    <3>1. h[0] = <<>>
      BY <2>1 DEF Keeps
    <3> QED
      BY <2>2, <2>5, <3>1
  <2>7. ASSUME NEW i \in 1 .. m PROVE g[i] = Kept(g, i)
    <3>1. i - 1 \in 0 .. m - 1
      BY <1>1
    <3>2. g[i - 1] = h[i - 1]
      BY <2>2, <3>1
    <3>3. CASE i = m
      BY <2>3, <3>2, <3>3
    <3>4. CASE i # m
      <4>1. i \in 1 .. m - 1 /\ i \in 0 .. m - 1
        BY <1>1, <3>4
      <4>2. h[i] = Kept(h, i)
        BY <2>1, <4>1 DEF Keeps
      <4>3. g[i] = h[i]
        BY <2>2, <4>1
      <4> QED
        BY <3>2, <4>2, <4>3
    <3> QED
      BY <3>3, <3>4
  <2>8. Keeps(g, os, p, m)
    BY <2>4, <2>6, <2>7 DEF Keeps
  <2> QED
    BY <1>1, <2>8
<1>5. n \in Found
  <2> HIDE DEF Found
  <2>1. \A k \in 0 .. n : k \in Found
    BY <1>1, <1>3, <1>4, UpTo
  <2> QED
    BY <1>1, <2>1
<1>6. PICK g : Keeps(g, os, p, n)
  BY <1>5
<1>7. Solves(g)
  <2>1. DOMAIN g = 0 .. n
    BY <1>6 DEF Keeps
  <2>2. g[0] = <<>>
    BY <1>6 DEF Keeps
  <2>3. ASSUME NEW k \in 0 .. n PROVE g[k] = IF k = 0 THEN <<>> ELSE Kept(g, k)
    <3>1. CASE k = 0
      BY <2>2, <3>1, Zenon
    <3>2. CASE k # 0
      <4>1. k \in 1 .. n
        BY <1>1, <3>2
      <4>2. g[k] = Kept(g, k)
        BY <1>6, <4>1 DEF Keeps
      <4> QED
        BY <3>2, <4>2, Zenon
    <3> QED
      BY <3>1, <3>2
  <2> DEFINE R(k) == IF k = 0 THEN <<>> ELSE Kept(g, k)
  <2>4. \A k \in 0 .. n : g[k] = R(k)
    BY <2>3
  <2>5. g = [k \in 0 .. n |-> g[k]]
    BY <1>6 DEF Keeps
  <2> HIDE DEF R
  <2>6. g = [k \in 0 .. n |-> R(k)]
    BY <2>4, <2>5
  <2> QED
    BY <2>6 DEF R
<1>8. Solves(those)
  <2> HIDE DEF Solves
  <2> QED
    BY <1>7
<1> HIDE DEF those
<1>9. those[0] = <<>>
  <2>1. 0 \in 0 .. n
    BY <1>1
  <2> QED
    BY <1>8, <2>1
<1>10. \A k \in 1 .. n : those[k] = Kept(those, k)
  <2> SUFFICES ASSUME NEW k \in 1 .. n PROVE those[k] = Kept(those, k)
    OBVIOUS
  <2>1. k \in 0 .. n /\ k # 0
    BY <1>1
  <2> DEFINE R(i) == IF i = 0 THEN <<>> ELSE Kept(those, i)
  <2>2. those = [i \in 0 .. n |-> R(i)]
    BY <1>8
  <2> HIDE DEF R
  <2>3. those[k] = R(k)
    BY <2>1, <2>2
  <2> QED
    BY <2>1, <2>3 DEF R
<1> DEFINE All(s) == Listed(s) /\ \A i \in DOMAIN s : s[i] \in P
           Typed == {i \in 0 .. n : All(those[i])}
<1>11. 0 \in Typed
  <2>1. All(<<>>)
    BY EmptyList
  <2> HIDE DEF All
  <2> QED
    BY <1>1, <1>9, <2>1
<1>12. ASSUME NEW i \in 1 .. n, i - 1 \in Typed PROVE i \in Typed
  <2> DEFINE s == those[i - 1]
             t == Append(s, os[i])
  <2>1. All(s)
    BY <1>12
  <2>2. those[i] = s \/ those[i] = t
    BY <1>10
  <2>3. os[i] \in P
    BY <1>1
  <2>4. All(t)
    <3>1. Listed(s) /\ \A j \in DOMAIN s : s[j] \in P
      BY <2>1
    <3> HIDE DEF s
    <3>2. /\ Listed(t) /\ DOMAIN t = 1 .. Len(s) + 1 /\ t[Len(s) + 1] = os[i]
          /\ \A j \in 1 .. Len(s) : t[j] = s[j]
      BY <3>1, AppendIs
    <3>3. Len(s) \in Nat /\ DOMAIN s = 1 .. Len(s)
      BY <3>1, ListIs
    <3> HIDE DEF t
    <3>4. \A j \in DOMAIN t : t[j] \in P
      BY <2>3, <3>1, <3>2, <3>3
    <3> QED
      BY <3>2, <3>4
  <2> HIDE DEF s, t, All
  <2>5. All(those[i])
    BY <2>1, <2>2, <2>4
  <2> QED
    BY <1>1, <2>5
<1> HIDE DEF Typed
<1>13. \A k \in 0 .. n : k \in Typed
  BY <1>1, <1>11, <1>12, UpTo
<1>14. n \in Typed
  BY <1>1, <1>13
<1>15. All(those[n])
  BY <1>14 DEF Typed
<1> HIDE DEF All
<1>16. All(OfPrecedence(os, p))
  BY <1>2, <1>15
<1> QED
  BY <1>16 DEF All

(* Those of all precedences, one after another.                            *)
LEMMA ByPrecedenceElements ==
  ASSUME NEW os, Listed(os), NEW P, \A i \in DOMAIN os : os[i] \in P
  PROVE Listed(ByPrecedence(os)) /\ \A i \in DOMAIN ByPrecedence(os) : ByPrecedence(os)[i] \in P
<1> DEFINE All(s) == Listed(s) /\ \A i \in DOMAIN s : s[i] \in P
           a == OfPrecedence(os, 0)
           b == OfPrecedence(os, 1)
           c == OfPrecedence(os, 2)
<1>1. All(a) /\ All(b) /\ All(c)
  BY OfPrecedenceElements
<1>2. ByPrecedence(os) = a \o b \o c
  BY DEF ByPrecedence
<1> HIDE DEF a, b, c
<1> DEFINE d == a \o b
<1>3. All(d)
  BY <1>1, ConcatElements
<1> HIDE DEF d
<1>4. All(d \o c)
  BY <1>1, <1>3, ConcatElements
<1> HIDE DEF All
<1>5. All(ByPrecedence(os))
  BY <1>2, <1>4 DEF d
<1> QED
  BY <1>5 DEF All

(* Overrides in the order they apply in.                                   *)
LEMMA OrderedElements ==
  ASSUME NEW s, NEW t, Listed(s), Listed(t), NEW P,
         \A i \in DOMAIN s : s[i] \in P, \A i \in DOMAIN t : t[i] \in P
  PROVE Listed(Ordered(s, t)) /\ \A i \in DOMAIN Ordered(s, t) : Ordered(s, t)[i] \in P
<1> DEFINE All(u) == Listed(u) /\ \A i \in DOMAIN u : u[i] \in P
           a == ByPrecedence(s)
           b == ByPrecedence(t)
<1>1. All(a) /\ All(b)
  BY ByPrecedenceElements
<1>2. Ordered(s, t) = a \o b
  BY DEF Ordered
<1> HIDE DEF a, b
<1>3. All(a \o b)
  BY <1>1, ConcatElements
<1> HIDE DEF All
<1>4. All(Ordered(s, t))
  BY <1>2, <1>3
<1> QED
  BY <1>4 DEF All

(* They are overrides.                                                     *)
LEMMA OrderedType ==
  ASSUME NEW s, NEW t, AreOverrides(s), AreOverrides(t)
  PROVE AreOverrides(Ordered(s, t))
<1> DEFINE P == {o \in Range(s) \cup Range(t) : IsOverride(o)}
<1>1. Listed(s) /\ Listed(t) /\ (\A i \in DOMAIN s : s[i] \in P) /\ \A i \in DOMAIN t : t[i] \in P
  BY DEF AreOverrides, Range
<1>2. \A o \in P : IsOverride(o)
  OBVIOUS
<1> HIDE DEF P
<1>3. Listed(Ordered(s, t)) /\ \A i \in DOMAIN Ordered(s, t) : Ordered(s, t)[i] \in P
  BY <1>1, OrderedElements
<1> QED
  BY <1>2, <1>3 DEF AreOverrides

(* Actions with their texts rendered are actions.                          *)
LEMMA RenderedActionsType ==
  ASSUME NEW as, NEW vs, AreActions(as), AreTexts(vs)
  PROVE AreActions(RenderedActions(as, vs))
<1> DEFINE Fields(a) == [f \in ActionFields |->
                           IF f \in TextFields THEN Substitute(a.fields[f], vs) ELSE a.fields[f]]
           Rendered1(a) == [a EXCEPT !.fields = Fields(a)]
           bs == [k \in DOMAIN as |-> Rendered1(as[k])]
<1>1. RenderedActions(as, vs) = bs
  BY DEF RenderedActions
<1>2. ASSUME NEW a, IsAction(a) PROVE IsAction(Rendered1(a))
  <2>1. /\ DOMAIN a = {"type", "name", "fields"} /\ DOMAIN a.fields = ActionFields
        /\ Listed(a.fields.rate) /\ Listed(a.fields.body)
    BY <1>2 DEF IsAction
  <2>2. DOMAIN Fields(a) = ActionFields /\ Fields(a).rate = Substitute(a.fields.rate, vs)
          /\ Fields(a).body = Substitute(a.fields.body, vs)
    BY DEF ActionFields, TextFields
  <2>3. Listed(Fields(a).rate) /\ Listed(Fields(a).body)
    BY <2>1, <2>2, SubstituteList
  <2>5. IsFunction(Fields(a))
    BY <2>2 DEF IsFunction
  <2> HIDE DEF Fields
  <2>4. DOMAIN Rendered1(a) = DOMAIN a /\ Rendered1(a).fields = Fields(a) /\ IsFunction(Rendered1(a))
    BY <2>1 DEF IsFunction
  <2> HIDE DEF Rendered1
  <2> QED
    BY <2>1, <2>2, <2>3, <2>4, <2>5 DEF IsAction
<1>3. Len(as) \in Nat /\ DOMAIN as = 1 .. Len(as) /\ \A k \in DOMAIN as : IsAction(as[k])
  BY ListIs DEF AreActions
<1> HIDE DEF Rendered1
<1>4. \A k \in DOMAIN bs : IsAction(bs[k])
  BY <1>2, <1>3
<1>5. bs = [k \in 1 .. Len(as) |-> bs[k]]
  BY <1>3
<1> HIDE DEF bs
<1>6. Listed(bs)
  BY <1>3, <1>5, IsList
<1> QED
  BY <1>1, <1>4, <1>6 DEF AreActions

(* So is a rule, with the tags and parts it had.                           *)
LEMMA RenderedRuleType ==
  ASSUME NEW r, NEW vs, IsRule(r), AreTexts(vs)
  PROVE IsRule(RenderedRule(r, vs)) /\ RenderedRule(r, vs).tags = r.tags
          /\ RenderedRule(r, vs).parts = r.parts
<1> DEFINE w == Substitute(r.when, vs)
           as == RenderedActions(r.actions, vs)
           q == [r EXCEPT !.when = w, !.actions = as]
<1>1. RenderedRule(r, vs) = q
  BY DEF RenderedRule
<1>2. DOMAIN r = {"name", "id", "tags", "stream", "parts", "path", "settings", "when", "actions"}
      /\ IsFiniteSet(r.tags) /\ Listed(r.when) /\ AreActions(r.actions)
  BY DEF IsRule, IsContent
<1>3. Listed(w) /\ AreActions(as)
  BY <1>2, SubstituteList, RenderedActionsType
<1> HIDE DEF w, as
<1>4. /\ DOMAIN q = DOMAIN r /\ q.when = w /\ q.actions = as /\ q.tags = r.tags /\ q.parts = r.parts
      /\ IsFunction(q)
  BY <1>2 DEF IsFunction
<1> HIDE DEF q
<1>5. IsRule(q)
  BY <1>2, <1>3, <1>4 DEF IsRule, IsContent
<1> QED
  BY <1>1, <1>4, <1>5

(* A text that may be absent may be absent when it is rendered.            *)
LEMMA OptionalSubstituted ==
  ASSUME NEW S, NEW vs, IsOptional(S), AreTexts(vs)
  PROVE IsOptional({Substitute(t, vs) : t \in S})
<1>1. \A t \in S : Listed(Substitute(t, vs))
  BY SubstituteList DEF IsOptional
<1>2. \A s, t \in S : s = t
  BY DEF IsOptional
<1> QED
  BY <1>1, <1>2 DEF IsOptional

(* The parts of a document one by one.                                     *)
LEMMA RenderedManifestIs ==
  ASSUME NEW d, NEW vs, IsDocument(d)
  PROVE LET e == RenderedManifest(d, vs)
        IN /\ DOMAIN e = DOMAIN d
           /\ e.title = Substitute(d.title, vs)
           /\ e.commit = {Substitute(t, vs) : t \in d.commit}
           /\ e.variables = [i \in DOMAIN d.variables |-> RenderedVariable(d.variables[i], vs)]
           /\ e.overrides = [i \in DOMAIN d.overrides |-> RenderedOverride(d.overrides[i], vs)]
           /\ e.exceptions = [i \in DOMAIN d.exceptions |-> RenderedException(d.exceptions[i], vs)]
           /\ e.groups = d.groups /\ e.bindings = d.bindings /\ e.mode = d.mode
           /\ IsFunction(e)
<1>1. DOMAIN d = {"title", "variables", "bindings", "overrides", "exceptions", "groups",
                  "mode", "commit"}
  BY DEF IsDocument
<1> QED
  BY <1>1 DEF RenderedManifest, IsFunction

(* A document rendered is a document.                                      *)
LEMMA RenderedManifestType ==
  ASSUME NEW d, NEW vs, IsDocument(d), AreTexts(vs)
  PROVE IsDocument(RenderedManifest(d, vs))
<1> DEFINE e == RenderedManifest(d, vs)
           V(i) == RenderedVariable(d.variables[i], vs)
           O(i) == RenderedOverride(d.overrides[i], vs)
           X(i) == RenderedException(d.exceptions[i], vs)
<1>1. /\ DOMAIN e = DOMAIN d
      /\ e.title = Substitute(d.title, vs)
      /\ e.commit = {Substitute(t, vs) : t \in d.commit}
      /\ e.variables = [i \in DOMAIN d.variables |-> V(i)]
      /\ e.overrides = [i \in DOMAIN d.overrides |-> O(i)]
      /\ e.exceptions = [i \in DOMAIN d.exceptions |-> X(i)]
      /\ e.groups = d.groups /\ IsFunction(e)
  BY RenderedManifestIs
<1>2. /\ DOMAIN d = {"title", "variables", "bindings", "overrides", "exceptions", "groups",
                     "mode", "commit"}
      /\ Listed(d.title) /\ IsOptional(d.commit)
      /\ Listed(d.variables) /\ \A i \in DOMAIN d.variables : IsVariable(d.variables[i])
      /\ Listed(d.overrides) /\ \A i \in DOMAIN d.overrides : IsOverride(d.overrides[i])
      /\ Listed(d.exceptions) /\ \A i \in DOMAIN d.exceptions : IsException(d.exceptions[i])
      /\ Listed(d.groups) /\ AreTexts(d.groups)
  BY DEF IsDocument, AreOverrides, AreExceptions
<1>3. ASSUME NEW i \in DOMAIN d.variables PROVE IsVariable(V(i))
  <2> DEFINE v == d.variables[i]
             D == {Substitute(t, vs) : t \in v.default}
  <2>1. /\ DOMAIN v = {"name", "default", "required"} /\ IsOptional(v.default)
        /\ v.required \in BOOLEAN
    BY <1>2 DEF IsVariable
  <2>2. IsOptional(D)
    BY <2>1, OptionalSubstituted
  <2>3. V(i) = [v EXCEPT !.default = D]
    BY DEF RenderedVariable
  <2> HIDE DEF v, D, V
  <2>4. DOMAIN V(i) = DOMAIN v /\ V(i).default = D /\ V(i).required = v.required
        /\ IsFunction(V(i))
    BY <2>1, <2>3 DEF IsFunction
  <2> QED
    BY <2>1, <2>2, <2>4 DEF IsVariable
<1>4. ASSUME NEW i \in DOMAIN d.overrides PROVE IsOverride(O(i))
  <2> DEFINE o == d.overrides[i]
             N == [f \in DOMAIN o.sets |->
                     IF f \in TextFields THEN Substitute(o.sets[f], vs) ELSE o.sets[f]]
  <2>1. /\ DOMAIN o = {"selector", "action", "sets"} /\ IsFiniteSet(o.selector.tags)
        /\ \A f \in TextFields \cap DOMAIN o.sets : Listed(o.sets[f])
    BY <1>2 DEF IsOverride
  <2>2. DOMAIN N = DOMAIN o.sets /\ \A f \in TextFields \cap DOMAIN o.sets : Listed(N[f])
    BY <2>1, SubstituteList
  <2>3. O(i) = [o EXCEPT !.sets = N]
    BY DEF RenderedOverride
  <2> HIDE DEF o, N, O
  <2>4. DOMAIN O(i) = DOMAIN o /\ O(i).sets = N /\ O(i).selector = o.selector
    BY <2>1, <2>3
  <2> QED
    BY <2>1, <2>2, <2>4 DEF IsOverride
<1>5. ASSUME NEW i \in DOMAIN d.exceptions PROVE IsException(X(i))
  <2> DEFINE x == d.exceptions[i]
             t == Substitute(x.reason, vs)
  <2>1. /\ DOMAIN x = {"name", "ids", "names", "tags", "expires", "reason"}
        /\ IsFiniteSet(x.ids) /\ IsFiniteSet(x.names) /\ IsFiniteSet(x.tags) /\ Listed(x.reason)
        /\ x.expires \in Int
    BY <1>2 DEF IsException
  <2>2. Listed(t)
    BY <2>1, SubstituteList
  <2>3. X(i) = [x EXCEPT !.reason = t]
    BY DEF RenderedException
  <2> HIDE DEF x, t, X
  <2>4. /\ DOMAIN X(i) = DOMAIN x /\ X(i).reason = t
        /\ X(i).ids = x.ids /\ X(i).names = x.names /\ X(i).tags = x.tags
        /\ X(i).expires = x.expires /\ IsFunction(X(i))
    BY <2>1, <2>3 DEF IsFunction
  <2> QED
    BY <2>1, <2>2, <2>4 DEF IsException
<1> HIDE DEF e, V, O, X
<1>6. Listed(e.title) /\ IsOptional(e.commit)
  BY <1>1, <1>2, SubstituteList, OptionalSubstituted
<1>7. Listed(e.variables) /\ \A i \in DOMAIN e.variables : IsVariable(e.variables[i])
  <2>1. DOMAIN e.variables = DOMAIN d.variables /\ \A i \in DOMAIN d.variables : e.variables[i] = V(i)
    BY <1>1
  <2>2. e.variables = [i \in DOMAIN d.variables |-> e.variables[i]]
    BY <1>1
  <2> QED
    BY <1>2, <1>3, <2>1, <2>2, MappedList
<1>8. AreOverrides(e.overrides)
  <2>1. DOMAIN e.overrides = DOMAIN d.overrides /\ \A i \in DOMAIN d.overrides : e.overrides[i] = O(i)
    BY <1>1
  <2>2. e.overrides = [i \in DOMAIN d.overrides |-> e.overrides[i]]
    BY <1>1
  <2> QED
    BY <1>2, <1>4, <2>1, <2>2, MappedList DEF AreOverrides
<1>9. AreExceptions(e.exceptions)
  <2>1. DOMAIN e.exceptions = DOMAIN d.exceptions /\ \A i \in DOMAIN d.exceptions : e.exceptions[i] = X(i)
    BY <1>1
  <2>2. e.exceptions = [i \in DOMAIN d.exceptions |-> e.exceptions[i]]
    BY <1>1
  <2> QED
    BY <1>2, <1>5, <2>1, <2>2, MappedList DEF AreExceptions
<1>10. IsDocument(e)
  BY <1>1, <1>2, <1>6, <1>7, <1>8, <1>9 DEF IsDocument
<1> QED
  BY <1>10 DEF e

(* Names resolve to texts.                                                 *)
LEMMA ResolvedType ==
  ASSUME NEW d, NEW supplied, IsDocument(d), AreTexts(supplied)
  PROVE AreTexts(Resolved(d, supplied))
<1> DEFINE R(n) == Resolutions(d, supplied, n)
<1>1. ASSUME NEW n PROVE \A t \in R(n) : Listed(t)
  <2>1. CASE n \in DOMAIN supplied
    BY <2>1 DEF Resolutions, AreTexts
  <2>2. CASE n \notin DOMAIN supplied
    <3>1. \A i \in DOMAIN d.variables : \A t \in d.variables[i].default : Listed(t)
      BY DEF IsDocument, IsVariable, IsOptional
    <3>2. R(n) = UNION {d.variables[i].default :
                          i \in {j \in DOMAIN d.variables : d.variables[j].name = n}}
      BY <2>2 DEF Resolutions
    <3> QED
      BY <3>1, <3>2
  <2> QED
    BY <2>1, <2>2
<1>2. Resolved(d, supplied) =
        [n \in {m \in Names(d.variables) \cup Targeted(d) : R(m) # {}} |-> CHOOSE t \in R(n) : TRUE]
  BY DEF Resolved
<1> HIDE DEF R
<1> QED
  BY <1>1, <1>2 DEF AreTexts

(* An action with some fields set anew.                                    *)
LEMMA EditedType ==
  ASSUME NEW o, NEW as, IsOverride(o), AreActions(as)
  PROVE AreActions(Edited(o, as))
<1> DEFINE bs == Edited(o, as)
<1>1. ASSUME NEW a, IsAction(a) PROVE IsAction(Changed(o, a))
  <2> DEFINE fs == Overlay(ActionFields, o.sets, a.fields)
             b == [type |-> a.type, name |-> a.name, fields |-> fs]
  <2>1. Changed(o, a) = b
    BY DEF Changed
  <2>2. /\ DOMAIN fs = ActionFields
        /\ fs.rate = IF "rate" \in DOMAIN o.sets THEN o.sets.rate ELSE a.fields.rate
        /\ fs.body = IF "body" \in DOMAIN o.sets THEN o.sets.body ELSE a.fields.body
        /\ IsFunction(fs)
    BY DEF Overlay, ActionFields, IsFunction
  <2>3. Listed(fs.rate) /\ Listed(fs.body)
    BY <1>1, <2>2 DEF IsAction, IsOverride, TextFields
  <2> HIDE DEF fs
  <2>4. DOMAIN b = {"type", "name", "fields"} /\ b.fields = fs /\ IsFunction(b)
    BY DEF IsFunction
  <2> HIDE DEF b
  <2> QED
    BY <2>1, <2>2, <2>3, <2>4 DEF IsAction
<1>2. bs = [k \in DOMAIN as |-> IF k \in Targets(o, as) THEN Changed(o, as[k]) ELSE as[k]]
  BY DEF Edited
<1>3. Len(as) \in Nat /\ DOMAIN as = 1 .. Len(as) /\ \A k \in DOMAIN as : IsAction(as[k])
  BY ListIs DEF AreActions
<1> HIDE DEF bs
<1>4. \A k \in DOMAIN bs : IsAction(bs[k])
  BY <1>1, <1>2, <1>3
<1>5. DOMAIN bs = DOMAIN as
  BY <1>2
<1>6. bs = [k \in 1 .. Len(as) |-> bs[k]]
  BY <1>2, <1>3
<1>7. Listed(bs)
  BY <1>3, <1>6, IsList
<1> QED
  BY <1>4, <1>7 DEF AreActions, bs

\* What is rendered, and what it is made from, keeps its type.
TypesInv ==
  /\ IsDocument(manifest.head) /\ AreRules(manifest.rules) /\ IsOptions(options)
  /\ IsDocument(document) /\ AreTexts(values)
  /\ AreRules(rules) /\ AreRules(kept) /\ AreOverrides(overrides) /\ AreActions(actions)

(* Rules rendered one by one.                                              *)
LEMMA RulesMapped ==
  ASSUME NEW rs, NEW qs, AreRules(rs), qs = [j \in DOMAIN rs |-> qs[j]],
         \A j \in DOMAIN rs : IsRule(qs[j])
  PROVE AreRules(qs) /\ Len(qs) = Len(rs) /\ DOMAIN qs = DOMAIN rs
<1>1. Len(rs) \in Nat /\ DOMAIN rs = 1 .. Len(rs)
  BY ListIs DEF AreRules
<1>2. qs = [j \in 1 .. Len(rs) |-> qs[j]]
  BY <1>1
<1>3. Listed(qs) /\ Len(qs) = Len(rs) /\ DOMAIN qs = 1 .. Len(rs)
  BY <1>1, <1>2, IsList
<1> QED
  BY <1>1, <1>3 DEF AreRules

(* The rules RenderContents starts from are as many as there were.         *)
LEMMA RenderContentsRules ==
  ASSUME AreRules(manifest.rules), AreTexts(values)
  PROVE LET qs == [j \in DOMAIN manifest.rules |-> Written(manifest.rules[j])]
        IN AreRules(qs) /\ Len(qs) = Len(manifest.rules) /\ DOMAIN qs = DOMAIN manifest.rules
<1> DEFINE rs == manifest.rules
           qs == [j \in DOMAIN rs |-> Written(rs[j])]
<1>1. AreRules(rs)
  OBVIOUS
<1>2. \A j \in DOMAIN rs : IsRule(qs[j])
  <2> SUFFICES ASSUME NEW j \in DOMAIN rs PROVE IsRule(Written(rs[j]))
    OBVIOUS
  <2>1. IsRule(rs[j])
    BY <1>1 DEF AreRules
  <2> QED
    BY <2>1, RenderedRuleType DEF Written
<1>3. qs = [j \in DOMAIN rs |-> qs[j]]
  OBVIOUS
<1> HIDE DEF qs, rs
<1>4. AreRules(qs) /\ Len(qs) = Len(rs) /\ DOMAIN qs = DOMAIN rs
  BY <1>1, <1>2, <1>3, RulesMapped
<1> QED
  BY <1>4 DEF qs, rs

(* A variable with a value written as its default.                         *)
LEMMA PinnedVariableType ==
  ASSUME NEW v, NEW pin, NEW vs, IsVariable(v), AreTexts(vs)
  PROVE IsVariable(PinnedVariable(v, pin, vs))
<1>1. CASE pin /\ v.name \in DOMAIN vs
  <2> DEFINE t == vs[v.name]
             u == [v EXCEPT !.default = {t}, !.required = FALSE]
  <2>1. PinnedVariable(v, pin, vs) = u
    BY <1>1 DEF PinnedVariable
  <2>2. Listed(t) /\ DOMAIN v = {"name", "default", "required"}
    BY <1>1 DEF AreTexts, IsVariable
  <2> HIDE DEF t
  <2>3. DOMAIN u = DOMAIN v /\ u.default = {t} /\ u.required = FALSE /\ IsFunction(u)
    BY <2>2 DEF IsFunction
  <2> HIDE DEF u
  <2> QED
    BY <2>1, <2>2, <2>3 DEF IsVariable, IsOptional
<1>2. CASE ~(pin /\ v.name \in DOMAIN vs)
  BY <1>2 DEF PinnedVariable
<1> QED
  BY <1>1, <1>2

\* The document with the options worked in, part by part.
Extended ==
  [document EXCEPT
     !.mode = IF options.mode = {} THEN @ ELSE (CHOOSE m \in options.mode : TRUE).mode,
     !.exceptions = @ \o locals,
     !.commit = IF options.commit = {} THEN @ ELSE options.commit]

(* What the options leave of each part.                                    *)
LEMMA ExtendedIs ==
  ASSUME IsDocument(document), IsOptions(options)
  PROVE /\ IsDocument(Extended) /\ Extended.title = document.title
        /\ Extended.variables = document.variables /\ Extended.overrides = document.overrides
        /\ Extended.groups = document.groups /\ Extended.bindings = document.bindings
        /\ Extended.exceptions = document.exceptions \o locals
        /\ Extended.commit = IF options.commit = {} THEN document.commit ELSE options.commit
        /\ options.mode = {} => Extended.mode = document.mode
<1> DEFINE d == document
           mode == IF options.mode = {} THEN d.mode ELSE (CHOOSE m \in options.mode : TRUE).mode
           es == d.exceptions \o locals
           commit == IF options.commit = {} THEN d.commit ELSE options.commit
           e == [d EXCEPT !.mode = mode, !.exceptions = es, !.commit = commit]
<1>1. Extended = e
  BY DEF Extended
<1>2. /\ DOMAIN d = {"title", "variables", "bindings", "overrides", "exceptions", "groups",
                     "mode", "commit"}
      /\ Listed(d.title) /\ IsOptional(d.commit)
      /\ Listed(d.variables) /\ \A i \in DOMAIN d.variables : IsVariable(d.variables[i])
      /\ AreOverrides(d.overrides) /\ AreExceptions(d.exceptions)
      /\ Listed(d.groups) /\ AreTexts(d.groups)
  BY DEF IsDocument
<1>3. AreExceptions(es) /\ IsOptional(commit)
  BY <1>2, ConcatExceptions DEF IsOptions, locals
<1>4. options.mode = {} => mode = d.mode
  OBVIOUS
<1>5. commit = IF options.commit = {} THEN d.commit ELSE options.commit
  OBVIOUS
<1> HIDE DEF d, mode, es, commit
<1>6. /\ DOMAIN e = DOMAIN d /\ e.title = d.title /\ e.variables = d.variables
      /\ e.overrides = d.overrides /\ e.groups = d.groups /\ e.exceptions = es
      /\ e.commit = commit /\ e.mode = mode /\ e.bindings = d.bindings /\ IsFunction(e)
  BY <1>2 DEF IsFunction
<1> HIDE DEF e
<1>7. IsDocument(e)
  BY <1>2, <1>3, <1>6 DEF IsDocument
<1> QED
  BY <1>1, <1>4, <1>5, <1>6, <1>7 DEF d, es

(* What pinning leaves of each part.                                       *)
LEMMA PinnedIs ==
  ASSUME NEW d, IsDocument(d), AreTexts(values)
  PROVE /\ IsDocument(Pinned(d)) /\ Pinned(d).title = d.title /\ Pinned(d).groups = d.groups
        /\ Pinned(d).exceptions = d.exceptions /\ Pinned(d).commit = d.commit
        /\ Pinned(d).mode = d.mode /\ Pinned(d).overrides = <<>> /\ Pinned(d).bindings = <<>>
        /\ Pinned(d).variables =
             [i \in DOMAIN d.variables |-> PinnedVariable(d.variables[i], options.pin, values)]
<1> DEFINE P(i) == PinnedVariable(d.variables[i], options.pin, values)
           us == [i \in DOMAIN d.variables |-> P(i)]
           none == <<>>
           e == [d EXCEPT !.variables = us, !.bindings = none, !.overrides = none]
<1>1. Pinned(d) = e
  BY DEF Pinned
<1>2. /\ DOMAIN d = {"title", "variables", "bindings", "overrides", "exceptions", "groups",
                     "mode", "commit"}
      /\ Listed(d.title) /\ IsOptional(d.commit)
      /\ Listed(d.variables) /\ \A i \in DOMAIN d.variables : IsVariable(d.variables[i])
      /\ AreOverrides(d.overrides) /\ AreExceptions(d.exceptions)
      /\ Listed(d.groups) /\ AreTexts(d.groups)
  BY DEF IsDocument
<1>3. \A i \in DOMAIN d.variables : IsVariable(P(i))
  BY <1>2, PinnedVariableType
<1>4. AreOverrides(none)
  BY EmptyTypes
<1> HIDE DEF P
<1>5. us = [i \in DOMAIN d.variables |-> us[i]] /\ DOMAIN us = DOMAIN d.variables
  OBVIOUS
<1>6. \A i \in DOMAIN us : IsVariable(us[i])
  BY <1>3
<1> HIDE DEF us
<1>7. Listed(us)
  BY <1>2, <1>5, MappedList
<1> HIDE DEF none
<1>8. /\ DOMAIN e = DOMAIN d /\ e.title = d.title /\ e.variables = us
      /\ e.overrides = none /\ e.groups = d.groups /\ e.exceptions = d.exceptions
      /\ e.bindings = none /\ e.commit = d.commit /\ e.mode = d.mode /\ IsFunction(e)
  BY <1>2 DEF IsFunction
<1> HIDE DEF e
<1>9. IsDocument(e)
  BY <1>2, <1>4, <1>6, <1>7, <1>8 DEF IsDocument
<1> QED
  BY <1>1, <1>8, <1>9 DEF us, P, none

(* The rules with the mode forced on them.                                 *)
LEMMA ForcedRule ==
  ASSUME NEW r, NEW m, IsRule(r)
  PROVE IsRule([r EXCEPT !.settings.mode = m])
          /\ [r EXCEPT !.settings.mode = m].parts = r.parts
          /\ [r EXCEPT !.settings.mode = m].tags = r.tags
          /\ [r EXCEPT !.settings.mode = m].when = r.when
          /\ [r EXCEPT !.settings.mode = m].actions = r.actions
<1> DEFINE s == [r.settings EXCEPT !.mode = m]
           q == [r EXCEPT !.settings.mode = m]
<1>1. DOMAIN r = {"name", "id", "tags", "stream", "parts", "path", "settings", "when", "actions"}
      /\ IsFiniteSet(r.tags) /\ IsContent(r.when, r.actions)
  BY DEF IsRule
<1>2. q = [r EXCEPT !.settings = s]
  OBVIOUS
<1> HIDE DEF s
<1>3. /\ DOMAIN q = DOMAIN r /\ q.when = r.when /\ q.actions = r.actions /\ q.tags = r.tags
      /\ q.parts = r.parts /\ IsFunction(q)
  BY <1>1, <1>2 DEF IsFunction
<1> HIDE DEF q
<1>4. IsRule(q)
  BY <1>1, <1>3 DEF IsRule
<1> QED
  BY <1>3, <1>4 DEF q

\* What ApplyOptions leaves of the document and the rules.
OptionsApplied ==
  /\ document' = IF options.pin THEN Pinned(Extended) ELSE Extended
  /\ rules' = [j \in DOMAIN rules |-> rules'[j]]
  /\ \A j \in DOMAIN rules :
       \/ rules'[j] = rules[j] /\ ~\E m \in options.mode : m.force
       \/ (\E m : rules'[j] = [rules[j] EXCEPT !.settings.mode = m])
            /\ \E m \in options.mode : m.force

(* ApplyOptions in those terms.                                            *)
LEMMA ApplyOptionsIs ==
  ASSUME ApplyOptions
  PROVE OptionsApplied
<1> DEFINE forced == \E m \in options.mode : m.force
           mode == (CHOOSE m \in options.mode : TRUE).mode
           Forced(r) == [r EXCEPT !.settings.mode = mode]
<1>1. document' = IF options.pin THEN Pinned(Extended) ELSE Extended
  BY DEF ApplyOptions, Extended
<1>2. rules' = [j \in DOMAIN rules |-> IF forced THEN Forced(rules[j]) ELSE rules[j]]
  BY DEF ApplyOptions
<1> HIDE DEF forced, mode
<1>3. rules' = [j \in DOMAIN rules |-> rules'[j]]
  BY <1>2
<1>4. \A j \in DOMAIN rules : rules'[j] = IF forced THEN Forced(rules[j]) ELSE rules[j]
  BY <1>2
<1>5. \A j \in DOMAIN rules : \/ rules'[j] = rules[j] /\ ~forced
                              \/ forced /\ \E m : rules'[j] = [rules[j] EXCEPT !.settings.mode = m]
  BY <1>4
<1> QED
  BY <1>1, <1>3, <1>5 DEF OptionsApplied, forced

(* The document and the rules stay what they are, and as many.             *)
LEMMA ApplyOptionsTypes ==
  ASSUME TypesInv, ApplyOptions
  PROVE IsDocument(document') /\ AreRules(rules') /\ Len(rules') = Len(rules)
          /\ DOMAIN rules' = DOMAIN rules
<1>1. OptionsApplied
  BY ApplyOptionsIs
<1>2. IsDocument(document')
  BY <1>1, ExtendedIs, PinnedIs DEF OptionsApplied, TypesInv
<1>3. \A j \in DOMAIN rules : IsRule(rules[j])
  BY DEF TypesInv, AreRules
<1>4. \A j \in DOMAIN rules : IsRule(rules'[j])
  <2> SUFFICES ASSUME NEW j \in DOMAIN rules PROVE IsRule(rules'[j])
    OBVIOUS
  <2>1. IsRule(rules[j])
    BY <1>3
  <2>2. rules'[j] = rules[j] \/ \E m : rules'[j] = [rules[j] EXCEPT !.settings.mode = m]
    BY <1>1 DEF OptionsApplied
  <2>3. CASE rules'[j] = rules[j]
    BY <2>1, <2>3
  <2>4. CASE rules'[j] # rules[j]
    <3>1. PICK m : rules'[j] = [rules[j] EXCEPT !.settings.mode = m]
      BY <2>2, <2>4
    <3> DEFINE r == rules[j]
    <3>2. IsRule(r) /\ rules'[j] = [r EXCEPT !.settings.mode = m]
      BY <2>1, <3>1
    <3> HIDE DEF r
    <3>3. IsRule([r EXCEPT !.settings.mode = m])
      BY <3>2, ForcedRule
    <3> QED
      BY <3>2, <3>3
  <2> QED
    BY <2>3, <2>4
<1>5. rules' = [j \in DOMAIN rules |-> rules'[j]] /\ AreRules(rules)
  BY <1>1 DEF OptionsApplied, TypesInv
<1> QED
  BY <1>2, <1>4, <1>5, RulesMapped

(* A rule kept as edited.                                                  *)
LEMMA KeptRule ==
  ASSUME NEW r, IsRule(r), AreActions(actions), NEW s
  PROVE IsRule([r EXCEPT !.settings = s, !.actions = actions])
          /\ [r EXCEPT !.settings = s, !.actions = actions].tags = r.tags
<1> DEFINE q == [r EXCEPT !.settings = s, !.actions = actions]
<1>1. DOMAIN r = {"name", "id", "tags", "stream", "parts", "path", "settings", "when", "actions"}
      /\ IsFiniteSet(r.tags) /\ Listed(r.when)
  BY DEF IsRule, IsContent
<1>2. /\ DOMAIN q = DOMAIN r /\ q.when = r.when /\ q.actions = actions /\ q.tags = r.tags
      /\ IsFunction(q)
  BY <1>1 DEF IsFunction
<1> HIDE DEF q
<1>3. IsRule(q)
  BY <1>1, <1>2 DEF IsRule, IsContent
<1> QED
  BY <1>2, <1>3 DEF q

\* What CloseRule appends.
Closed ==
  [rules[rule] EXCEPT !.settings = [mode |-> settings.mode, priority |-> settings.priority],
                      !.actions = actions]

(* CloseRule keeps the rule as edited or drops it.                         *)
LEMMA CloseRuleIs ==
  ASSUME TypesInv, CloseRule, rule \in DOMAIN rules
  PROVE /\ kept' = kept \/ kept' = Append(kept, Closed)
        /\ IsRule(Closed) /\ Closed.tags = rules[rule].tags /\ AreRules(Append(kept, Closed))
<1>1. kept' = kept \/ kept' = Append(kept, Closed)
  BY DEF CloseRule, Closed
<1>2. IsRule(rules[rule]) /\ AreActions(actions)
  BY DEF TypesInv, AreRules
<1> DEFINE s == [mode |-> settings.mode, priority |-> settings.priority]
           c == [rules[rule] EXCEPT !.settings = s, !.actions = actions]
<1>3. Closed = c
  BY DEF Closed
<1> HIDE DEF s
<1>4. IsRule(c) /\ c.tags = rules[rule].tags
  BY <1>2, KeptRule
<1> HIDE DEF c
<1> DEFINE t == Append(kept, Closed)
<1>5. Listed(kept) /\ \A j \in DOMAIN kept : IsRule(kept[j])
  BY DEF TypesInv, AreRules
<1>6. /\ Listed(t) /\ DOMAIN t = 1 .. Len(kept) + 1 /\ t[Len(kept) + 1] = Closed
      /\ \A j \in 1 .. Len(kept) : t[j] = kept[j]
  BY <1>5, AppendIs
<1>7. Len(kept) \in Nat /\ DOMAIN kept = 1 .. Len(kept)
  BY <1>5, ListIs
<1> HIDE DEF t
<1>8. \A j \in DOMAIN t : IsRule(t[j])
  BY <1>3, <1>4, <1>5, <1>6, <1>7
<1>9. AreRules(t)
  BY <1>6, <1>8 DEF AreRules
<1> QED
  BY <1>1, <1>3, <1>4, <1>9 DEF t

(* Every step keeps the types.                                             *)
LEMMA TypesStep ==
  ASSUME TypesInv, CheckedInv, [Next]_vars
  PROVE TypesInv'
<1>0. /\ IsDocument(manifest.head) /\ AreRules(manifest.rules) /\ IsOptions(options)
      /\ IsDocument(document) /\ AreTexts(values)
      /\ AreRules(rules) /\ AreRules(kept) /\ AreOverrides(overrides) /\ AreActions(actions)
      /\ AreRules(<<>>) /\ AreActions(<<>>) /\ AreOverrides(<<>>) /\ AreTexts(<<>>)
  BY EmptyTypes DEF TypesInv
<1>1. SUFFICES
        /\ IsDocument(manifest'.head) /\ AreRules(manifest'.rules) /\ IsOptions(options')
        /\ IsDocument(document') /\ AreTexts(values')
        /\ AreRules(rules') /\ AreRules(kept') /\ AreOverrides(overrides') /\ AreActions(actions')
  BY DEF TypesInv
<1>2. CASE Admit \/ ValidateShape \/ ReserveExceptions
  BY <1>0, <1>2 DEF Admit, ValidateShape, ReserveExceptions, requestVars, editVars
<1>3. CASE ResolveVariables
  <2>1. values' = <<>> \/ values' = Resolved(manifest.head, options.supplied)
    BY <1>3 DEF ResolveVariables, head
  <2>2. AreTexts(options.supplied)
    BY <1>0 DEF IsOptions
  <2>3. AreTexts(values')
    BY <1>0, <2>1, <2>2, ResolvedType
  <2> QED
    BY <1>0, <1>3, <2>3 DEF ResolveVariables, requestVars, editVars
<1>4. CASE RenderStrings
  <2>1. document' = RenderedManifest(manifest.head, values) \/ document' = manifest.head
    BY <1>4 DEF RenderStrings, head
  <2>2. IsDocument(document')
    BY <1>0, <2>1, RenderedManifestType
  <2> QED
    BY <1>0, <1>4, <2>2 DEF RenderStrings, requestVars, editVars
<1>5. CASE RenderContents
  <2> DEFINE qs == [j \in DOMAIN manifest.rules |-> Written(manifest.rules[j])]
             gs == RenderedTexts(head.groups, values)
  <2>1. rules' = qs \/ rules' = <<>>
    BY <1>5 DEF RenderContents
  <2>2. AreRules(qs)
    BY <1>0, RenderContentsRules
  <2>3. document' = document \/ document' = [document EXCEPT !.groups = gs]
    BY <1>5 DEF RenderContents
  <2>4. Listed(gs) /\ AreTexts(gs)
    <3> DEFINE ts == head.groups
    <3>1. Listed(ts) /\ AreTexts(ts)
      BY <1>0 DEF IsDocument, head
    <3>2. gs = [i \in DOMAIN ts |-> Substitute(ts[i], values)]
      BY DEF RenderedTexts
    <3> HIDE DEF ts
    <3>3. \A i \in DOMAIN ts : Listed(Substitute(ts[i], values))
      BY <1>0, <3>1, SubstituteList DEF AreTexts
    <3> HIDE DEF gs
    <3>4. gs = [i \in DOMAIN ts |-> gs[i]]
      BY <3>2
    <3>5. AreTexts(gs)
      BY <3>2, <3>3 DEF AreTexts
    <3> QED
      BY <3>1, <3>4, <3>5, MappedList
  <2> HIDE DEF gs, qs
  <2>5. IsDocument(document')
    <3> DEFINE e == [document EXCEPT !.groups = gs]
    <3>1. /\ DOMAIN e = DOMAIN document /\ e.title = document.title /\ e.commit = document.commit
          /\ e.variables = document.variables /\ e.overrides = document.overrides
          /\ e.exceptions = document.exceptions /\ e.groups = gs /\ IsFunction(e)
      BY <1>0 DEF IsDocument, IsFunction
    <3> HIDE DEF e
    <3>2. IsDocument(e)
      BY <1>0, <2>4, <3>1 DEF IsDocument
    <3> QED
      BY <1>0, <2>3, <3>2 DEF e
  <2>6. AreOverrides(overrides')
    <3>1. overrides' = Ordered(manifest.head.overrides, options.overrides)
      BY <1>5 DEF RenderContents, OverridesUsed, head
    <3>2. AreOverrides(manifest.head.overrides) /\ AreOverrides(options.overrides)
      BY <1>0 DEF IsDocument, IsOptions
    <3> QED
      BY <3>1, <3>2, OrderedType
  <2>7. manifest' = manifest /\ options' = options /\ values' = values /\ kept' = kept
        /\ actions' = actions
    BY <1>5 DEF RenderContents, requestVars, editVars
  <2> QED
    BY <1>0, <2>1, <2>2, <2>5, <2>6, <2>7
<1>6. CASE OverrideStep /\ UNCHANGED <<requestVars, values, document, meterVars, loaded>>
  <2>1. manifest' = manifest /\ options' = options /\ values' = values /\ document' = document
    BY <1>6 DEF requestVars
  <2>2. CASE SkipOverrides \/ ReserveSelectors \/ CheckRule \/ FinishCheck
    BY <1>0, <2>1, <2>2 DEF SkipOverrides, ReserveSelectors, CheckRule, FinishCheck, editVars
  <2>3. CASE CopyRule
    <3>1. actions' = rules[rule].actions /\ rule \in DOMAIN rules
      BY <2>3 DEF CopyRule
    <3>2. AreActions(actions')
      BY <1>0, <3>1 DEF AreRules, IsRule, IsContent
    <3> QED
      BY <1>0, <2>1, <2>3, <3>2 DEF CopyRule
  <2>4. CASE PassOverride \/ OverrideRule
    BY <1>0, <2>1, <2>4 DEF PassOverride, OverrideRule, AtOverride
  <2>5. CASE OverrideAction
    <3>1. actions' = Edited(overrides[position], actions) /\ position \in DOMAIN overrides
      BY <2>5 DEF OverrideAction, AtOverride
    <3>2. AreActions(actions')
      BY <1>0, <3>1, EditedType DEF AreOverrides
    <3> QED
      BY <1>0, <2>1, <2>5, <3>2 DEF OverrideAction, AtOverride
  <2>6. CASE CloseRule
    <3>1. rule \in DOMAIN rules
      BY <2>6 DEF CloseRule, CheckedInv
    <3>2. AreRules(kept')
      BY <1>0, <2>6, <3>1, CloseRuleIs
    <3> QED
      BY <1>0, <2>1, <2>6, <3>2 DEF CloseRule
  <2>7. CASE FinishOverrides
    BY <1>0, <2>1, <2>7 DEF FinishOverrides, editVars
  <2> QED
    BY <1>6, <2>2, <2>3, <2>4, <2>5, <2>6, <2>7 DEF OverrideStep
<1>7. CASE ApplyOptions
  <2>1. IsDocument(document') /\ AreRules(rules')
    BY <1>7, ApplyOptionsTypes
  <2> QED
    BY <1>0, <1>7, <2>1 DEF ApplyOptions, requestVars, editVars
<1>8. CASE ReserveMutations \/ CheckDocument \/ WriteManifest
  BY <1>0, <1>8 DEF ReserveMutations, CheckDocument, WriteManifest, requestVars, editVars
<1>9. CASE PassRule \/ LoadFile \/ FinishLoading
  BY <1>0, <1>9 DEF PassRule, LoadFile, FinishLoading, requestVars, editVars
<1>10. CASE Reinstall
  <2>1. manifest'.head = document /\ manifest'.rules = rules
    BY <1>10 DEF Reinstall
  <2>2. IsOptions(options')
    <3>1. /\ options'.supplied = <<>> /\ options'.overrides = <<>> /\ options'.exceptions = <<>>
          /\ options'.commit = {}
      BY <1>10 DEF Reinstall, Outcome!InstallOptions
    <3> QED
      BY <1>0, <3>1, EmptyTypes DEF IsOptions, IsOptional
  <2> QED
    BY <1>0, <1>10, <2>1, <2>2 DEF Reinstall
<1>11. CASE Rest \/ UNCHANGED vars
  BY <1>0, <1>11 DEF Rest, vars, overrideVars, requestVars, editVars
<1> QED
  BY <1>2, <1>3, <1>4, <1>5, <1>6, <1>7, <1>8, <1>9, <1>10, <1>11 DEF Next, ParseStep

-----------------------------------------------------------------------------
\* Numbers.

(* A finite set of numbers has an upper bound ...                          *)
LEMMA FiniteBounded ==
  ASSUME NEW S \in SUBSET Nat, IsFiniteSet(S)
  PROVE  \E b \in Nat : \A x \in S : x <= b
<1> DEFINE n == Cardinality(S)
<1>1. n \in Nat /\ ExistsBijection(1 .. n, S)
  BY FS_CardinalityType
<1>2. PICK f : f \in Bijection(1 .. n, S)
  BY <1>1 DEF ExistsBijection
<1> HIDE DEF n
<1> DEFINE Bounded == {m \in 0 .. n : \E b \in Nat : \A i \in 1 .. m : f[i] <= b}
<1>3. \A i \in 1 .. n : f[i] \in Nat
  BY <1>2 DEF Bijection, Injection
<1>4. 0 \in Bounded
  <2>1. \A i \in 1 .. 0 : f[i] <= 0
    OBVIOUS
  <2> QED
    BY <1>1, <2>1
<1>5. ASSUME NEW m \in 1 .. n, m - 1 \in Bounded PROVE m \in Bounded
  <2>1. PICK b \in Nat : \A i \in 1 .. m - 1 : f[i] <= b
    BY <1>5
  <2>2. f[m] \in Nat
    BY <1>3
  <2>3. PICK c \in Nat : b <= c /\ f[m] <= c
    <3>1. b <= b + f[m] /\ f[m] <= b + f[m] /\ b + f[m] \in Nat
      BY <2>2
    <3> QED
      BY <3>1
  <2>4. \A i \in 1 .. m : f[i] <= c
    <3> SUFFICES ASSUME NEW i \in 1 .. m PROVE f[i] <= c
      OBVIOUS
    <3>1. CASE i = m
      BY <2>3, <3>1
    <3>2. CASE i # m
      <4>1. i \in 1 .. m - 1 /\ i \in 1 .. n
        BY <1>1, <3>2
      <4>2. f[i] <= b /\ f[i] \in Nat
        BY <1>3, <2>1, <4>1
      <4> QED
        BY <2>3, <4>2
    <3> QED
      BY <3>1, <3>2
  <2> QED
    BY <2>4
<1> HIDE DEF Bounded
<1>6. \A m \in 0 .. n : m \in Bounded
  BY <1>1, <1>4, <1>5, UpTo
<1>7. n \in Bounded
  BY <1>1, <1>6
<1>8. PICK b \in Nat : \A i \in 1 .. n : f[i] <= b
  BY <1>7 DEF Bounded
<1>9. \A x \in S : \E i \in 1 .. n : x = f[i]
  BY <1>2 DEF Bijection, Surjection
<1> QED
  BY <1>8, <1>9

(* ... and a greatest element.                                             *)
LEMMA MaxIs ==
  ASSUME NEW S \in SUBSET Nat, IsFiniteSet(S), S # {}
  PROVE  Max(S) \in S /\ \A x \in S : x <= Max(S)
<1> DEFINE Bounds == {b \in Nat : \A x \in S : x <= b}
<1>1. PICK b \in Bounds : \A c \in Bounds : b <= c
  <2>1. Bounds \in SUBSET Nat /\ Bounds # {}
    BY FiniteBounded
  <2> HIDE DEF Bounds
  <2> QED
    BY <2>1, LeastNatural
<1>2. b \in S
  <2> SUFFICES ASSUME b \notin S PROVE FALSE
    OBVIOUS
  <2>1. PICK x \in S : TRUE
    OBVIOUS
  <2>2. x \in Nat /\ x <= b /\ x # b
    BY <1>1, <2>1
  <2>3. b - 1 \in Bounds
    BY <1>1, <2>2
  <2> QED
    BY <1>1, <2>3
<1>3. \E x \in S : \A y \in S : x >= y
  BY <1>1, <1>2
<1>4. Max(S) \in S /\ \A y \in S : Max(S) >= y
  BY <1>3 DEF Max
<1> QED
  BY <1>4

(* Numbers, for terms the provers do not look into.                        *)
LEMMA PlusNat ==
  ASSUME NEW a \in Nat, NEW b \in Nat
  PROVE a + b \in Nat
OBVIOUS

(* The same for products.                                                  *)
LEMMA ProductNat ==
  ASSUME NEW a \in Nat, NEW b \in Nat
  PROVE a * b \in Nat
OBVIOUS

(* The same number for each of some positions.                             *)
LEMMA SumCount ==
  ASSUME NEW n \in Nat, NEW S \in SUBSET (1 .. n), NEW c \in Nat, NEW f,
         \A k \in 1 .. n : f[k] = IF k \in S THEN c ELSE 0
  PROVE NumbersTo(f, n) /\ Cardinality(S) \in Nat /\ SumTo(f, n) = c * Cardinality(S)
<1> DEFINE Before(m) == S \cap (1 .. m)
           Counted == {m \in 0 .. n : SumTo(f, m) = c * Cardinality(Before(m))}
<1>0. IsFiniteSet(S) /\ \A m \in 0 .. n : IsFiniteSet(Before(m)) /\ Cardinality(Before(m)) \in Nat
  <2>1. IsFiniteSet(1 .. n)
    BY FS_Interval
  <2>2. IsFiniteSet(S)
    BY <2>1, FS_Subset
  <2>3. \A m \in 0 .. n : IsFiniteSet(Before(m))
    BY <2>2, FS_Subset
  <2> QED
    BY <2>2, <2>3, FS_CardinalityType
<1>1. NumbersTo(f, n) /\ Cardinality(S) \in Nat
  BY <1>0, FS_CardinalityType DEF NumbersTo
<1>2. 0 \in Counted
  <2>1. Before(0) = {}
    OBVIOUS
  <2>2. Cardinality(Before(0)) = 0
    BY <2>1, FS_EmptySet
  <2> QED
    BY <1>1, <2>2, SumStep
<1>3. ASSUME NEW k \in 1 .. n, k - 1 \in Counted PROVE k \in Counted
  <2>1. SumTo(f, k) = SumTo(f, k - 1) + f[k]
    BY <1>1, SumStep
  <2>2. SumTo(f, k - 1) = c * Cardinality(Before(k - 1))
    BY <1>3
  <2> DEFINE x == Cardinality(Before(k - 1))
  <2>3. x \in Nat /\ IsFiniteSet(Before(k - 1))
    <3>1. k - 1 \in 0 .. n
      OBVIOUS
    <3> QED
      BY <1>0, <3>1
  <2>4. CASE k \in S
    <3>1. Before(k) = Before(k - 1) \cup {k} /\ k \notin Before(k - 1)
      BY <2>4
    <3>2. Cardinality(Before(k)) = x + 1
      BY <2>3, <3>1, FS_AddElement
    <3>3. c * (x + 1) = c * x + c
      <4> HIDE DEF x
      <4> QED
        BY <2>3
    <3> QED
      BY <2>1, <2>2, <2>4, <3>2, <3>3
  <2>5. CASE k \notin S
    <3>1. Before(k) = Before(k - 1)
      BY <2>5
    <3>2. c * x \in Nat
      BY <2>3, ProductNat
    <3> QED
      BY <2>1, <2>2, <2>5, <3>1, <3>2
  <2> QED
    BY <2>4, <2>5
<1> HIDE DEF Counted
<1>4. \A k \in 0 .. n : k \in Counted
  BY <1>2, <1>3, UpTo
<1>5. n \in Counted
  BY <1>4
<1>6. Before(n) = S
  OBVIOUS
<1> QED
  BY <1>1, <1>5, <1>6 DEF Counted

(* The numbers a list is mapped to, and their sum.                         *)
LEMMA MapSum ==
  ASSUME NEW s, Listed(s), NEW f, f = [i \in DOMAIN s |-> f[i]], \A i \in DOMAIN s : f[i] \in Nat
  PROVE /\ Len(s) \in Nat /\ DOMAIN s = 1 .. Len(s)
        /\ NumbersTo(f, Len(s)) /\ SumOf(f) = SumTo(f, Len(s)) /\ SumOf(f) \in Nat
<1>1. Len(s) \in Nat /\ DOMAIN s = 1 .. Len(s)
  BY ListIs
<1>2. f = [i \in 1 .. Len(s) |-> f[i]]
  BY <1>1
<1>3. NumbersTo(f, Len(s))
  BY <1>1 DEF NumbersTo
<1> QED
  BY <1>1, <1>2, <1>3, SumOfIs

-----------------------------------------------------------------------------
\* Sizes are numbers.

(* The size of a field is a number,                                        *)
LEMMA FieldBytesNat ==
  ASSUME NEW f, NEW v, f \in TextFields => Listed(v)
  PROVE FieldBytes(f, v) \in Nat
BY ListIs DEF FieldBytes

(* that of an action,                                                      *)
LEMMA ActionBytesNat ==
  ASSUME NEW a, IsAction(a)
  PROVE ActionBytes(a) \in Nat
<1>1. Listed(a.fields.rate) /\ Listed(a.fields.body)
  BY DEF IsAction
<1>2. /\ FieldBytes("rate", a.fields.rate) \in Nat /\ FieldBytes("burst", a.fields.burst) \in Nat
      /\ FieldBytes("status", a.fields.status) \in Nat /\ FieldBytes("body", a.fields.body) \in Nat
  <2>1. "burst" \notin TextFields /\ "status" \notin TextFields
    BY DEF TextFields
  <2> QED
    BY <1>1, <2>1, FieldBytesNat
<1> QED
  BY <1>2 DEF ActionBytes

(* of a content,                                                           *)
LEMMA ContentBytesNat ==
  ASSUME NEW when, NEW as, IsContent(when, as)
  PROVE ContentBytes(when, as) \in Nat
<1> DEFINE f == [k \in DOMAIN as |-> ActionBytes(as[k])]
<1>1. Listed(as) /\ Listed(when) /\ \A k \in DOMAIN as : IsAction(as[k])
  BY DEF IsContent, AreActions
<1>2. f = [k \in DOMAIN as |-> f[k]] /\ \A k \in DOMAIN as : f[k] \in Nat
  BY <1>1, ActionBytesNat
<1> HIDE DEF f
<1>3. SumOf(f) \in Nat
  BY <1>1, <1>2, MapSum
<1>4. Len(when) \in Nat
  BY <1>1, ListIs
<1>5. Len(when) + SumOf(f) \in Nat
  BY <1>3, <1>4
<1> QED
  BY <1>5 DEF ContentBytes, f

(* of a rule,                                                              *)
LEMMA RuleBytesNat ==
  ASSUME NEW r, IsRule(r)
  PROVE RuleBytes(r) \in Nat
<1>1. ContentBytes(r.when, r.actions) \in Nat
  BY ContentBytesNat DEF IsRule
<1> DEFINE a == IF r.settings.mode = "" THEN 0 ELSE 1
           c == IF "content" \in r.parts THEN ContentBytes(r.when, r.actions) ELSE 0
<1>2. RuleBytes(r) = 1 + a + c
  BY DEF RuleBytes
<1>3. a \in Nat /\ c \in Nat
  BY <1>1
<1> HIDE DEF a, c
<1> QED
  BY <1>2, <1>3

(* and what an override adds to a field,                                   *)
LEMMA GrowthOfNat ==
  ASSUME NEW o, NEW f, IsOverride(o)
  PROVE GrowthOf(o, f) \in Nat
BY FieldBytesNat DEF GrowthOf, IsOverride

(* or clones to do so.                                                     *)
LEMMA ReplacementBytesNat ==
  ASSUME NEW o, IsOverride(o)
  PROVE ReplacementBytes(o) \in Nat
<1>1. GrowthOf(o, "rate") \in Nat /\ GrowthOf(o, "body") \in Nat
  BY GrowthOfNat
<1> QED
  BY <1>1 DEF ReplacementBytes

(* The size of a text that may be absent.                                  *)
LEMMA OptionalBytesIs ==
  ASSUME NEW T, \A t \in T : Listed(t)
  PROVE OptionalBytes(T) \in Nat /\ \A t : T = {t} => OptionalBytes(T) = Len(t)
<1>1. OptionalBytes({}) = 0
  BY DEF OptionalBytes
<1>2. CASE T # {}
  <2>1. OptionalBytes(T) = Len(CHOOSE t \in T : TRUE) /\ (CHOOSE t \in T : TRUE) \in T
    BY <1>2 DEF OptionalBytes
  <2> QED
    BY <2>1, ListIs
<1> QED
  BY <1>1, <1>2

(* The sums that make up the texts of a document.                          *)
LEMMA TextSums ==
  ASSUME NEW d, IsDocument(d)
  PROVE /\ Len(d.title) \in Nat /\ OptionalBytes(d.commit) \in Nat
        /\ \A i \in DOMAIN d.variables : OptionalBytes(d.variables[i].default) \in Nat
        /\ \A i \in DOMAIN d.overrides : ReplacementBytes(d.overrides[i]) \in Nat
        /\ \A i \in DOMAIN d.exceptions : Len(d.exceptions[i].reason) \in Nat
        /\ SumOf([i \in DOMAIN d.variables |-> OptionalBytes(d.variables[i].default)]) \in Nat
        /\ SumOf([i \in DOMAIN d.overrides |-> ReplacementBytes(d.overrides[i])]) \in Nat
        /\ SumOf([i \in DOMAIN d.exceptions |-> Len(d.exceptions[i].reason)]) \in Nat
<1>1. Len(d.title) \in Nat /\ OptionalBytes(d.commit) \in Nat
  BY ListIs, OptionalBytesIs DEF IsDocument, IsOptional
<1>2. /\ \A i \in DOMAIN d.variables : OptionalBytes(d.variables[i].default) \in Nat
      /\ SumOf([i \in DOMAIN d.variables |-> OptionalBytes(d.variables[i].default)]) \in Nat
  <2> DEFINE s == d.variables
             f == [i \in DOMAIN s |-> OptionalBytes(s[i].default)]
  <2>1. Listed(s) /\ \A i \in DOMAIN s : \A t \in s[i].default : Listed(t)
    BY DEF IsDocument, IsVariable, IsOptional
  <2> HIDE DEF s
  <2>2. \A i \in DOMAIN s : OptionalBytes(s[i].default) \in Nat
    BY <2>1, OptionalBytesIs
  <2>3. f = [i \in DOMAIN s |-> f[i]] /\ \A i \in DOMAIN s : f[i] \in Nat
    BY <2>2
  <2> HIDE DEF f
  <2>4. SumOf(f) \in Nat
    BY <2>1, <2>3, MapSum
  <2> QED
    BY <2>2, <2>4 DEF s, f
<1>3. /\ \A i \in DOMAIN d.overrides : ReplacementBytes(d.overrides[i]) \in Nat
      /\ SumOf([i \in DOMAIN d.overrides |-> ReplacementBytes(d.overrides[i])]) \in Nat
  <2> DEFINE s == d.overrides
             f == [i \in DOMAIN s |-> ReplacementBytes(s[i])]
  <2>1. Listed(s) /\ \A i \in DOMAIN s : IsOverride(s[i])
    BY DEF IsDocument, AreOverrides
  <2> HIDE DEF s
  <2>2. \A i \in DOMAIN s : ReplacementBytes(s[i]) \in Nat
    BY <2>1, ReplacementBytesNat
  <2>3. f = [i \in DOMAIN s |-> f[i]] /\ \A i \in DOMAIN s : f[i] \in Nat
    BY <2>2
  <2> HIDE DEF f
  <2>4. SumOf(f) \in Nat
    BY <2>1, <2>3, MapSum
  <2> QED
    BY <2>2, <2>4 DEF s, f
<1>4. /\ \A i \in DOMAIN d.exceptions : Len(d.exceptions[i].reason) \in Nat
      /\ SumOf([i \in DOMAIN d.exceptions |-> Len(d.exceptions[i].reason)]) \in Nat
  <2> DEFINE s == d.exceptions
             f == [i \in DOMAIN s |-> Len(s[i].reason)]
  <2>1. Listed(s) /\ \A i \in DOMAIN s : Listed(s[i].reason)
    BY DEF IsDocument, AreExceptions, IsException
  <2> HIDE DEF s
  <2>2. \A i \in DOMAIN s : Len(s[i].reason) \in Nat
    BY <2>1, ListIs
  <2>3. f = [i \in DOMAIN s |-> f[i]] /\ \A i \in DOMAIN s : f[i] \in Nat
    BY <2>2
  <2> HIDE DEF f
  <2>4. SumOf(f) \in Nat
    BY <2>1, <2>3, MapSum
  <2> QED
    BY <2>2, <2>4 DEF s, f
<1> QED
  BY <1>1, <1>2, <1>3, <1>4

(* The texts of a document have a size,                                    *)
LEMMA TextBytesNat ==
  ASSUME NEW d, IsDocument(d)
  PROVE TextBytes(d) \in Nat
BY TextSums DEF TextBytes

(* and so do texts in a list.                                              *)
LEMMA BytesOfNat ==
  ASSUME NEW ts, Listed(ts), AreTexts(ts)
  PROVE BytesOf(ts) \in Nat
<1> DEFINE f == [i \in DOMAIN ts |-> Len(ts[i])]
<1>1. f = [i \in DOMAIN ts |-> f[i]] /\ \A i \in DOMAIN ts : f[i] \in Nat
  BY ListIs DEF AreTexts
<1> HIDE DEF f
<1>2. SumOf(f) \in Nat
  BY <1>1, MapSum
<1> QED
  BY <1>2 DEF BytesOf, f

(* Rules, as a list of sizes.                                              *)
LEMMA RuleSums ==
  ASSUME NEW rs, AreRules(rs)
  PROVE LET f == [j \in DOMAIN rs |-> RuleBytes(rs[j])]
        IN /\ Len(rs) \in Nat /\ DOMAIN rs = 1 .. Len(rs)
           /\ NumbersTo(f, Len(rs)) /\ SumOf(f) = SumTo(f, Len(rs)) /\ SumOf(f) \in Nat
<1> DEFINE f == [j \in DOMAIN rs |-> RuleBytes(rs[j])]
<1>1. Listed(rs) /\ \A j \in DOMAIN rs : IsRule(rs[j])
  BY DEF AreRules
<1>2. f = [j \in DOMAIN rs |-> f[j]] /\ \A j \in DOMAIN rs : f[j] \in Nat
  BY <1>1, RuleBytesNat
<1> HIDE DEF f
<1>3. /\ Len(rs) \in Nat /\ DOMAIN rs = 1 .. Len(rs)
      /\ NumbersTo(f, Len(rs)) /\ SumOf(f) = SumTo(f, Len(rs)) /\ SumOf(f) \in Nat
  BY <1>1, <1>2, MapSum
<1> QED
  BY <1>3 DEF f

(* A document with its rules has a size.                                   *)
LEMMA DocumentBytesNat ==
  ASSUME NEW d, NEW rs, IsDocument(d), AreRules(rs)
  PROVE DocumentBytes(d, rs) \in Nat
<1>1. TextBytes(d) \in Nat /\ BytesOf(d.groups) \in Nat
  BY TextBytesNat, BytesOfNat DEF IsDocument
<1>2. Len(d.variables) \in Nat /\ Len(d.overrides) \in Nat /\ Len(d.exceptions) \in Nat
  BY ListIs DEF IsDocument, AreOverrides, AreExceptions
<1> DEFINE S == SumOf([j \in DOMAIN rs |-> RuleBytes(rs[j])])
           M == IF d.mode = "" THEN 0 ELSE 1
<1>3. S \in Nat /\ M \in Nat
  BY RuleSums
<1>4. DocumentBytes(d, rs) =
        TextBytes(d) + BytesOf(d.groups) + Len(d.variables) + Len(d.overrides) + Len(d.exceptions)
          + M + S
  BY DEF DocumentBytes
<1> HIDE DEF S, M
<1>5. TextBytes(d) + BytesOf(d.groups) + Len(d.variables) + Len(d.overrides) + Len(d.exceptions)
        + M + S \in Nat
  BY <1>1, <1>2, <1>3, PlusNat, Zenon
<1> QED
  BY <1>4, <1>5, Zenon

(* What a nested file costs is a number.                                   *)
LEMMA NestedWorkNat ==
  ASSUME NEW when, NEW as, IsContent(when, as)
  PROVE NestedWork(when, as) \in Nat
<1> DEFINE f == [k \in DOMAIN as |-> Len(as[k].fields.rate) + Len(as[k].fields.body)]
<1>1. Listed(as) /\ Listed(when) /\ \A k \in DOMAIN as : Listed(as[k].fields.rate) /\ Listed(as[k].fields.body)
  BY DEF IsContent, AreActions, IsAction
<1>2. f = [k \in DOMAIN as |-> f[k]] /\ \A k \in DOMAIN as : f[k] \in Nat
  <2>1. ASSUME NEW k \in DOMAIN as PROVE f[k] \in Nat
    <3>1. Len(as[k].fields.rate) \in Nat /\ Len(as[k].fields.body) \in Nat
      BY <1>1, ListIs
    <3> QED
      BY <3>1, PlusNat, Zenon
  <2> QED
    BY <2>1
<1>3. ContentTextBytes(when, as) = Len(when) + SumOf(f)
  BY DEF ContentTextBytes
<1> HIDE DEF f
<1>4. SumOf(f) \in Nat /\ Len(when) \in Nat /\ ContentBytes(when, as) \in Nat
  BY <1>1, <1>2, MapSum, ListIs, ContentBytesNat
<1>5. Len(when) + SumOf(f) + Len(when) + 3 * ContentBytes(when, as) \in Nat
  BY <1>4, PlusNat, ProductNat, 3 \in Nat, Zenon
<1> QED
  BY <1>3, <1>5, Zenon DEF NestedWork

-----------------------------------------------------------------------------
\* What is reserved for the overrides.

(* The growth of a field counts each override that brings it.              *)
LEMMA FieldGrowthIs ==
  ASSUME AreOverrides(overrides), NEW r, NEW k, NEW f, NEW n
  PROVE /\ FieldGrowth(r, k, f, n) \in Nat
        /\ \A i \in ActionOverrides(r) :
             i <= n /\ k \in Targets(overrides[i], r.actions) =>
               GrowthOf(overrides[i], f) <= FieldGrowth(r, k, f, n)
<1> DEFINE I == {i \in ActionOverrides(r) : i <= n /\ k \in Targets(overrides[i], r.actions)}
           g == [i \in DOMAIN overrides |-> GrowthOf(overrides[i], f)]
           G == {GrowthOf(overrides[i], f) : i \in I}
           S == {0} \cup G
<1>1. Len(overrides) \in Nat /\ DOMAIN overrides = 1 .. Len(overrides)
      /\ \A i \in DOMAIN overrides : IsOverride(overrides[i])
  BY ListIs DEF AreOverrides
<1>2. I \subseteq DOMAIN overrides
  BY DEF ActionOverrides
<1>3. IsFiniteSet(I)
  <2>1. IsFiniteSet(1 .. Len(overrides))
    BY <1>1, FS_Interval
  <2> HIDE DEF I
  <2>2. I \in SUBSET (1 .. Len(overrides))
    BY <1>1, <1>2
  <2> QED
    BY <2>1, <2>2, FS_Subset, Zenon
<1>4. \A i \in I : GrowthOf(overrides[i], f) \in Nat
  BY <1>1, <1>2, GrowthOfNat
<1> HIDE DEF I
<1>5. IsFiniteSet(G)
  <2> DEFINE h == [i \in I |-> GrowthOf(overrides[i], f)]
  <2>1. h \in Surjection(I, G)
    BY DEF Surjection
  <2> QED
    BY <1>3, <2>1, FS_Surjection
<1>6. IsFiniteSet(S) /\ S \in SUBSET Nat /\ S # {}
  <2>1. G \in SUBSET Nat
    BY <1>4
  <2>2. IsFiniteSet({0})
    BY FS_Singleton
  <2> HIDE DEF G
  <2>3. IsFiniteSet({0} \cup G)
    BY <1>5, <2>2, FS_Union, Zenon
  <2> QED
    BY <2>1, <2>3
<1>7. \A i \in I : GrowthOf(overrides[i], f) \in S
  OBVIOUS
<1>8. FieldGrowth(r, k, f, n) = Max(S)
  BY DEF FieldGrowth, I
<1> HIDE DEF S
<1>9. Max(S) \in Nat /\ \A x \in S : x <= Max(S)
  BY <1>6, MaxIs
<1> QED
  BY <1>7, <1>8, <1>9 DEF I

(* The bound of a content is its size and all that actions may grow.       *)
LEMMA ContentBoundNat ==
  ASSUME AreOverrides(overrides), NEW r, IsRule(r), NEW n
  PROVE LET g == [k \in DOMAIN r.actions |-> ActionGrowth(r, k, n)]
        IN /\ ContentBound(r, n) \in Nat
           /\ Len(r.actions) \in Nat /\ DOMAIN r.actions = 1 .. Len(r.actions)
           /\ NumbersTo(g, Len(r.actions)) /\ SumOf(g) = SumTo(g, Len(r.actions))
           /\ ContentBound(r, n) = ContentBytes(r.when, r.actions) + SumOf(g)
<1> DEFINE as == r.actions
           g == [k \in DOMAIN as |-> ActionGrowth(r, k, n)]
<1>1. Listed(as) /\ ContentBytes(r.when, as) \in Nat
  BY ContentBytesNat DEF IsRule, IsContent, AreActions
<1>2. \A k : ActionGrowth(r, k, n) \in Nat
  <2> SUFFICES ASSUME NEW k PROVE ActionGrowth(r, k, n) \in Nat
    OBVIOUS
  <2>1. /\ FieldGrowth(r, k, "rate", n) \in Nat /\ FieldGrowth(r, k, "burst", n) \in Nat
        /\ FieldGrowth(r, k, "status", n) \in Nat /\ FieldGrowth(r, k, "body", n) \in Nat
    BY FieldGrowthIs
  <2> QED
    BY <2>1 DEF ActionGrowth
<1>3. ContentBound(r, n) = ContentBytes(r.when, as) + SumOf(g)
  BY DEF ContentBound
<1>4. g = [k \in DOMAIN as |-> g[k]] /\ \A k \in DOMAIN as : g[k] \in Nat
  BY <1>2
<1> HIDE DEF g, as
<1>5. /\ Len(as) \in Nat /\ DOMAIN as = 1 .. Len(as)
      /\ NumbersTo(g, Len(as)) /\ SumOf(g) = SumTo(g, Len(as)) /\ SumOf(g) \in Nat
  BY <1>1, <1>4, MapSum
<1>6. ContentBound(r, n) \in Nat
  <2>1. ContentBytes(r.when, as) + SumOf(g) \in Nat
    BY <1>1, <1>5, PlusNat, Zenon
  <2> QED
    BY <1>3, <2>1, Zenon
<1> QED
  BY <1>3, <1>5, <1>6 DEF g, as

(* The latest of some overrides is one of them.                            *)
LEMMA LatestIs ==
  ASSUME NEW n \in Nat, NEW S \in SUBSET (1 .. n), S # {}
  PROVE Latest(S) \in S
<1>1. IsFiniteSet(S)
  <2>1. IsFiniteSet(1 .. n)
    BY FS_Interval
  <2> QED
    BY <2>1, FS_Subset
<1>2. S \in SUBSET Nat
  OBVIOUS
<1>3. Max(S) \in S /\ \A i \in S : i <= Max(S)
  BY <1>1, <1>2, MaxIs
<1> HIDE DEF Latest
<1>4. \E j \in S : \A i \in S : i <= j
  BY <1>3
<1> QED
  BY <1>4 DEF Latest

(* A field is no larger than it was and the growth reserved for it.        *)
LEMMA FieldBounded ==
  ASSUME AreOverrides(overrides), NEW r, NEW st, NEW as, NEW n \in 0 .. Len(overrides),
         AppliedTo(overrides, r, st, as, n), NEW k \in DOMAIN r.actions, NEW f \in ActionFields,
         FieldBytes(f, r.actions[k].fields[f]) \in Nat
  PROVE FieldBytes(f, as[k].fields[f])
          <= FieldBytes(f, r.actions[k].fields[f]) + FieldGrowth(r, k, f, n)
<1> DEFINE S == SettingAction(overrides, f, r, k, n)
           old == r.actions[k].fields[f]
           growth == FieldGrowth(r, k, f, n)
<1>1. as[k].fields[f] = Effective(overrides, S, f, old)
  BY DEF AppliedTo
<1>2. /\ growth \in Nat
      /\ \A i \in ActionOverrides(r) :
           i <= n /\ k \in Targets(overrides[i], r.actions) => GrowthOf(overrides[i], f) <= growth
  BY FieldGrowthIs
<1>3. Len(overrides) \in Nat /\ DOMAIN overrides = 1 .. Len(overrides)
      /\ \A i \in DOMAIN overrides : IsOverride(overrides[i])
  BY ListIs DEF AreOverrides
<1>4. S \in SUBSET (1 .. n) /\ n \in Nat
  BY <1>3 DEF SettingAction, Setting
<1>5. CASE S = {}
  <2>1. as[k].fields[f] = old
    BY <1>1, <1>5 DEF Effective
  <2> DEFINE b == FieldBytes(f, old)
  <2>2. b \in Nat
    OBVIOUS
  <2> HIDE DEF b, growth
  <2>3. b <= b + growth
    BY <1>2, <2>2
  <2> QED
    BY <2>1, <2>3 DEF b, growth
<1>6. CASE S # {}
  <2> DEFINE j == Latest(S)
  <2>1. j \in S
    <3> HIDE DEF S
    <3> QED
      BY <1>4, <1>6, LatestIs
  <2>2. as[k].fields[f] = overrides[j].sets[f]
    BY <1>1, <1>6 DEF Effective
  <2>3. /\ j \in 1 .. n /\ MatchesRule(overrides[j], r) /\ f \in DOMAIN overrides[j].sets
        /\ overrides[j].action # NoAction /\ k \in Targets(overrides[j], r.actions)
    BY <2>1 DEF SettingAction, Setting
  <2> HIDE DEF j
  <2>4. j \in ActionOverrides(r) /\ j <= n /\ j \in DOMAIN overrides
    BY <1>3, <2>3 DEF ActionOverrides
  <2>5. GrowthOf(overrides[j], f) <= growth
    BY <1>2, <2>3, <2>4
  <2>6. GrowthOf(overrides[j], f) = FieldBytes(f, as[k].fields[f])
    BY <2>2, <2>3 DEF GrowthOf
  <2>7. GrowthOf(overrides[j], f) \in Nat
    BY <1>3, <2>4, GrowthOfNat
  <2> DEFINE b == FieldBytes(f, old)
             c == FieldBytes(f, as[k].fields[f])
  <2>8. b \in Nat /\ c \in Nat /\ c <= growth
    BY <2>5, <2>6, <2>7
  <2> HIDE DEF b, c, growth
  <2>9. c <= b + growth
    BY <1>2, <2>8
  <2> QED
    BY <2>9 DEF b, c, growth
<1> QED
  BY <1>5, <1>6

(* Two fields together are within their bounds.                            *)
LEMMA BothBounded ==
  ASSUME NEW a \in Nat, NEW b \in Nat, NEW c \in Nat, NEW d \in Nat, NEW e \in Nat, NEW f \in Nat,
         a <= b + c, d <= e + f
  PROVE /\ a + d \in Nat /\ b + e \in Nat /\ c + f \in Nat
        /\ a + d <= (b + e) + (c + f)
OBVIOUS

(* An action is no larger than it was and all its growth.                  *)
LEMMA ActionBounded ==
  ASSUME AreOverrides(overrides), NEW r, IsRule(r), NEW st, NEW as, AreActions(as),
         NEW n \in 0 .. Len(overrides), AppliedTo(overrides, r, st, as, n),
         NEW k \in DOMAIN r.actions
  PROVE ActionBytes(as[k]) <= ActionBytes(r.actions[k]) + ActionGrowth(r, k, n)
<1> DEFINE old(f) == FieldBytes(f, r.actions[k].fields[f])
           new(f) == FieldBytes(f, as[k].fields[f])
           growth(f) == FieldGrowth(r, k, f, n)
<1>1. IsAction(r.actions[k]) /\ IsAction(as[k])
  BY DEF IsRule, IsContent, AreActions, AppliedTo
<1>2. \A f \in ActionFields : old(f) \in Nat /\ new(f) \in Nat
  <2>1. \A f \in TextFields : Listed(r.actions[k].fields[f]) /\ Listed(as[k].fields[f])
    BY <1>1 DEF IsAction, TextFields
  <2> QED
    BY <2>1, FieldBytesNat
<1>3. \A f \in ActionFields : growth(f) \in Nat /\ new(f) <= old(f) + growth(f)
  BY <1>2, FieldGrowthIs, FieldBounded
<1>4. {"rate", "burst", "status", "body"} = ActionFields
  BY DEF ActionFields
<1>5. /\ ActionBytes(as[k]) = new("rate") + new("burst") + new("status") + new("body")
      /\ ActionBytes(r.actions[k]) = old("rate") + old("burst") + old("status") + old("body")
      /\ ActionGrowth(r, k, n) = growth("rate") + growth("burst") + growth("status") + growth("body")
  BY DEF ActionBytes, ActionGrowth
<1> HIDE DEF old, new, growth
<1>6. new("rate") + new("burst") + new("status") + new("body") <=
        (old("rate") + old("burst") + old("status") + old("body"))
          + (growth("rate") + growth("burst") + growth("status") + growth("body"))
  <2>1. /\ old("rate") \in Nat /\ old("burst") \in Nat /\ old("status") \in Nat /\ old("body") \in Nat
        /\ new("rate") \in Nat /\ new("burst") \in Nat /\ new("status") \in Nat /\ new("body") \in Nat
    BY <1>2, <1>4
  <2>2. /\ growth("rate") \in Nat /\ growth("burst") \in Nat /\ growth("status") \in Nat
        /\ growth("body") \in Nat
        /\ new("rate") <= old("rate") + growth("rate")
        /\ new("burst") <= old("burst") + growth("burst")
        /\ new("status") <= old("status") + growth("status")
        /\ new("body") <= old("body") + growth("body")
    BY <1>3, <1>4
  <2> DEFINE old2 == old("rate") + old("burst")
             new2 == new("rate") + new("burst")
             growth2 == growth("rate") + growth("burst")
             old3 == old2 + old("status")
             new3 == new2 + new("status")
             growth3 == growth2 + growth("status")
  <2>3. old2 \in Nat /\ new2 \in Nat /\ growth2 \in Nat /\ new2 <= old2 + growth2
    <3>1. old("rate") \in Nat /\ new("rate") \in Nat /\ growth("rate") \in Nat
      BY <2>1, <2>2
    <3>2. old("burst") \in Nat /\ new("burst") \in Nat /\ growth("burst") \in Nat
      BY <2>1, <2>2
    <3>3. new("rate") <= old("rate") + growth("rate") /\ new("burst") <= old("burst") + growth("burst")
      BY <2>2
    <3>4. QED
      BY <3>1, <3>2, <3>3, BothBounded
  <2> HIDE DEF old2, new2, growth2
  <2>4. old3 \in Nat /\ new3 \in Nat /\ growth3 \in Nat /\ new3 <= old3 + growth3
    <3>1. old("status") \in Nat /\ new("status") \in Nat /\ growth("status") \in Nat
      BY <2>1, <2>2
    <3>2. new("status") <= old("status") + growth("status")
      BY <2>2
    <3>3. QED
      BY <2>3, <3>1, <3>2, BothBounded
  <2> HIDE DEF old3, new3, growth3
  <2>5. new3 + new("body") <= (old3 + old("body")) + (growth3 + growth("body"))
    <3>1. old("body") \in Nat /\ new("body") \in Nat /\ growth("body") \in Nat
      BY <2>1, <2>2
    <3>2. new("body") <= old("body") + growth("body")
      BY <2>2
    <3>3. QED
      BY <2>4, <3>1, <3>2, BothBounded
  <2> QED
    BY <2>5, Zenon DEF old2, new2, growth2, old3, new3, growth3
<1> QED
  BY <1>5, <1>6, Zenon

(* Sums of numbers below two others.                                       *)
LEMMA SumsBelow ==
  ASSUME NEW n \in Nat, NEW f, NEW g, NEW h, NumbersTo(f, n), NumbersTo(g, n), NumbersTo(h, n),
         \A k \in 1 .. n : f[k] <= g[k] + h[k]
  PROVE SumTo(f, n) <= SumTo(g, n) + SumTo(h, n)
<1> DEFINE p == [k \in 1 .. n |-> g[k] + h[k]]
<1>1. \A k \in 1 .. n : p[k] = g[k] + h[k] /\ p[k] \in Nat
  BY DEF NumbersTo
<1> HIDE DEF p
<1>2. NumbersTo(p, n) /\ \A k \in 1 .. n : f[k] <= p[k]
  BY <1>1 DEF NumbersTo
<1>3. SumTo(f, n) <= SumTo(p, n)
  BY <1>2, SumMonotone
<1>4. SumTo(p, n) = SumTo(g, n) + SumTo(h, n)
  BY <1>1, SumPlus
<1> QED
  BY <1>3, <1>4

(* Lists with the same positions are as long.                              *)
LEMMA SameLength ==
  ASSUME NEW a \in Nat, NEW b \in Nat, 1 .. a = 1 .. b
  PROVE a = b
<1>1. a \in 1 .. a \/ a = 0
  OBVIOUS
<1>2. b \in 1 .. b \/ b = 0
  OBVIOUS
<1>3. a <= b \/ a = 0
  BY <1>1
<1>4. b <= a \/ b = 0
  BY <1>2
<1> QED
  BY <1>3, <1>4

(* The content of a rule under edit is within its bound (overrides.rs:167). *)
LEMMA ContentBounded ==
  ASSUME AreOverrides(overrides), NEW r, IsRule(r), NEW st, NEW as, AreActions(as),
         NEW n \in 0 .. Len(overrides), AppliedTo(overrides, r, st, as, n)
  PROVE ContentBytes(r.when, as) \in Nat /\ ContentBytes(r.when, as) <= ContentBound(r, n)
<1> DEFINE m == Len(r.actions)
           old == [k \in DOMAIN r.actions |-> ActionBytes(r.actions[k])]
           new == [k \in DOMAIN as |-> ActionBytes(as[k])]
           growth == [k \in DOMAIN r.actions |-> ActionGrowth(r, k, n)]
           w == Len(r.when)
<1>1. /\ m \in Nat /\ DOMAIN r.actions = 1 .. m
      /\ NumbersTo(growth, m) /\ SumOf(growth) = SumTo(growth, m)
      /\ ContentBound(r, n) = ContentBytes(r.when, r.actions) + SumOf(growth)
  BY ContentBoundNat
<1>2. /\ w \in Nat /\ Listed(r.actions) /\ Listed(as) /\ Listed(r.when)
      /\ \A k \in DOMAIN as : IsAction(as[k])
      /\ \A k \in DOMAIN r.actions : IsAction(r.actions[k])
  BY ListIs DEF IsRule, IsContent, AreActions
<1>3. DOMAIN as = DOMAIN r.actions /\ Len(as) = m
  <2>1. DOMAIN as = DOMAIN r.actions
    BY DEF AppliedTo
  <2>2. Len(as) \in Nat /\ DOMAIN as = 1 .. Len(as)
    BY <1>2, ListIs
  <2> QED
    BY <1>1, <2>1, <2>2, SameLength, Zenon
<1>4. /\ \A k \in DOMAIN r.actions : old[k] \in Nat /\ old = [i \in DOMAIN r.actions |-> old[i]]
      /\ \A k \in DOMAIN as : new[k] \in Nat /\ new = [i \in DOMAIN as |-> new[i]]
  BY <1>2, ActionBytesNat
<1>5. \A k \in 1 .. m : new[k] <= old[k] + growth[k]
  <2> SUFFICES ASSUME NEW k \in 1 .. m PROVE new[k] <= old[k] + growth[k]
    OBVIOUS
  <2>1. k \in DOMAIN r.actions
    BY <1>1
  <2>2. ActionBytes(as[k]) <= ActionBytes(r.actions[k]) + ActionGrowth(r, k, n)
    BY <2>1, ActionBounded
  <2> QED
    BY <1>3, <2>1, <2>2
<1>6. ContentBytes(r.when, as) = w + SumOf(new) /\ ContentBytes(r.when, r.actions) = w + SumOf(old)
  BY DEF ContentBytes
<1> HIDE DEF old, new, growth, w
<1>7. NumbersTo(old, m) /\ SumOf(old) = SumTo(old, m) /\ SumOf(old) \in Nat
  <2>1. old = [i \in DOMAIN r.actions |-> old[i]]
    BY DEF old
  <2> QED
    BY <1>2, <1>4, <2>1, MapSum DEF m
<1>8. NumbersTo(new, m) /\ SumOf(new) = SumTo(new, m) /\ SumOf(new) \in Nat
  <2>1. new = [i \in DOMAIN as |-> new[i]]
    BY DEF new
  <2>2. NumbersTo(new, Len(as)) /\ SumOf(new) = SumTo(new, Len(as)) /\ SumOf(new) \in Nat
    BY <1>2, <1>4, <2>1, MapSum
  <2> QED
    BY <1>3, <2>2
<1>9. SumTo(new, m) <= SumTo(old, m) + SumTo(growth, m) /\ SumTo(growth, m) \in Nat
  BY <1>1, <1>5, <1>7, <1>8, SumsBelow, SumStep
<1> DEFINE N == SumOf(new)
           O == SumOf(old)
           G == SumOf(growth)
<1>10. N \in Nat /\ O \in Nat /\ G \in Nat /\ N <= O + G
  BY <1>1, <1>7, <1>8, <1>9
<1> HIDE DEF N, O, G
<1>11. w + N \in Nat /\ w + N <= (w + O) + G
  BY <1>2, <1>10
<1> QED
  BY <1>1, <1>6, <1>11, Zenon DEF N, O, G

-----------------------------------------------------------------------------
\* WorkPaid.

\* Comparisons and copied bytes, one override with one rule.
CompareUnits(r, i) ==
  MatchUnits(overrides[i], r) + (IF i \in ActionOverrides(r) THEN Len(r.actions) ELSE 0)
CopyUnits(r, i) == IF i \in ActionOverrides(r) THEN EditBound(r, i) ELSE 0

CompareRow(r) == [i \in DOMAIN overrides |-> CompareUnits(r, i)]
CopyRow(r) == [i \in DOMAIN overrides |-> CopyUnits(r, i)]

\* The same for whole rules.
MatchTotals == [j \in DOMAIN rules |-> RuleMatchUnits(rules[j])]
CompareTotals == [j \in DOMAIN rules |-> SumOf(CompareRow(rules[j]))]
CopyTotals == [j \in DOMAIN rules |-> RuleBytes(rules[j]) + ProjectedFor(rules[j])]

(* The comparisons of one rule with the overrides.                         *)
LEMMA CompareRowIs ==
  ASSUME AreOverrides(overrides), NEW r, IsRule(r)
  PROVE LET n == Len(overrides)
        IN /\ n \in Nat /\ DOMAIN overrides = 1 .. n
           /\ NumbersTo(CompareRow(r), n) /\ SumOf(CompareRow(r)) = SumTo(CompareRow(r), n)
           /\ \A i \in 1 .. n : CompareRow(r)[i] = CompareUnits(r, i) /\ CompareUnits(r, i) \in Nat
           /\ SumOf(CompareRow(r)) \in Nat /\ RuleMatchUnits(r) \in Nat
           /\ Len(r.actions) * Cardinality(ActionOverrides(r)) \in Nat
           /\ SumOf(CompareRow(r)) = RuleMatchUnits(r) + Len(r.actions) * Cardinality(ActionOverrides(r))
<1> DEFINE n == Len(overrides)
           c == Len(r.actions)
           S == ActionOverrides(r)
           M(i) == MatchUnits(overrides[i], r)
           A(i) == IF i \in S THEN c ELSE 0
           f == [i \in DOMAIN overrides |-> M(i)]
           g == [i \in DOMAIN overrides |-> A(i)]
           h == [i \in DOMAIN overrides |-> M(i) + A(i)]
<1>1. /\ Listed(overrides) /\ n \in Nat /\ DOMAIN overrides = 1 .. n
      /\ \A i \in 1 .. n : IsOverride(overrides[i])
  BY ListIs DEF AreOverrides
<1>2. c \in Nat /\ IsFiniteSet(r.tags)
  BY ListIs DEF IsRule, IsContent, AreActions
<1>3. S \in SUBSET (1 .. n)
  BY <1>1 DEF ActionOverrides
<1>4. \A i \in 1 .. n : M(i) \in Nat
  <2> SUFFICES ASSUME NEW i \in 1 .. n PROVE M(i) \in Nat
    OBVIOUS
  <2> DEFINE a == Cardinality(r.tags)
             b == Cardinality(overrides[i].selector.tags)
  <2>1. a \in Nat /\ b \in Nat
    BY <1>1, <1>2, FS_CardinalityType DEF IsOverride
  <2>2. M(i) = 1 + a * b
    BY DEF MatchUnits
  <2> HIDE DEF a, b, M
  <2>3. 1 + a * b \in Nat
    BY <2>1, PlusNat, ProductNat, 1 \in Nat, Zenon
  <2> QED
    BY <2>2, <2>3, Zenon
<1>5. /\ RuleMatchUnits(r) = SumOf(f) /\ CompareRow(r) = h
      /\ \A i : CompareUnits(r, i) = M(i) + A(i)
  BY DEF RuleMatchUnits, CompareRow, CompareUnits
<1> HIDE DEF n, c, S, M
<1>6. \A i \in 1 .. n : A(i) \in Nat /\ f[i] = M(i) /\ g[i] = A(i) /\ h[i] = M(i) + A(i)
  BY <1>1, <1>2
<1>7. f = [i \in DOMAIN overrides |-> f[i]] /\ g = [i \in DOMAIN overrides |-> g[i]]
        /\ h = [i \in DOMAIN overrides |-> h[i]]
  OBVIOUS
<1>8. \A i \in 1 .. n : g[i] = IF i \in S THEN c ELSE 0
  BY <1>6
<1> HIDE DEF A, f, g, h
<1>9. \A i \in 1 .. n : h[i] \in Nat /\ f[i] \in Nat
  BY <1>4, <1>6
<1>10. NumbersTo(f, n) /\ SumOf(f) = SumTo(f, n) /\ SumOf(f) \in Nat
  BY <1>1, <1>7, <1>9, MapSum DEF n
<1>11. NumbersTo(h, n) /\ SumOf(h) = SumTo(h, n) /\ SumOf(h) \in Nat
  BY <1>1, <1>7, <1>9, MapSum DEF n
<1>12. NumbersTo(g, n) /\ Cardinality(S) \in Nat /\ SumTo(g, n) = c * Cardinality(S)
  BY <1>1, <1>2, <1>3, <1>8, SumCount
<1>13. SumTo(h, n) = SumTo(f, n) + SumTo(g, n)
  <2>1. \A i \in 1 .. n : h[i] = f[i] + g[i]
    BY <1>6
  <2> QED
    BY <1>1, <1>10, <1>12, <2>1, SumPlus
<1>14. c * Cardinality(S) \in Nat
  BY <1>2, <1>12, ProductNat
<1>15. \A i \in 1 .. n : h[i] = CompareUnits(r, i) /\ CompareUnits(r, i) \in Nat
  BY <1>5, <1>6, <1>9
<1> QED
  BY <1>1, <1>5, <1>10, <1>11, <1>12, <1>13, <1>14, <1>15 DEF n, c, S

(* The bytes of one edit are a number.                                     *)
LEMMA EditBoundNat ==
  ASSUME AreOverrides(overrides), NEW r, IsRule(r), NEW i \in DOMAIN overrides
  PROVE EditBound(r, i) \in Nat
<1>1. ContentBound(r, i - 1) \in Nat /\ ContentBound(r, i) \in Nat
  BY ContentBoundNat
<1>2. ReplacementBytes(overrides[i]) \in Nat
  BY ReplacementBytesNat DEF AreOverrides
<1>3. ContentBound(r, i - 1) + ReplacementBytes(overrides[i]) + ContentBound(r, i) \in Nat
  BY <1>1, <1>2, PlusNat, Zenon
<1> QED
  BY <1>3 DEF EditBound

(* The bytes the overrides copy of one rule.                               *)
LEMMA CopyRowIs ==
  ASSUME AreOverrides(overrides), NEW r, IsRule(r)
  PROVE LET n == Len(overrides)
        IN /\ n \in Nat /\ DOMAIN overrides = 1 .. n
           /\ NumbersTo(CopyRow(r), n) /\ ProjectedFor(r) = SumTo(CopyRow(r), n)
           /\ \A i \in 1 .. n : CopyRow(r)[i] = CopyUnits(r, i) /\ CopyUnits(r, i) \in Nat
           /\ ProjectedFor(r) \in Nat /\ RuleBytes(r) \in Nat
<1> DEFINE h == [i \in DOMAIN overrides |-> CopyUnits(r, i)]
<1>1. Listed(overrides) /\ Len(overrides) \in Nat /\ DOMAIN overrides = 1 .. Len(overrides)
  BY ListIs DEF AreOverrides
<1>2. \A i \in DOMAIN overrides : CopyUnits(r, i) \in Nat
  BY EditBoundNat DEF CopyUnits
<1>3. h = [i \in DOMAIN overrides |-> h[i]] /\ \A i \in DOMAIN overrides : h[i] = CopyUnits(r, i)
  OBVIOUS
<1>4. CopyRow(r) = h /\ ProjectedFor(r) = SumOf(h)
  BY DEF CopyRow, ProjectedFor, CopyUnits
<1> HIDE DEF h
<1>5. NumbersTo(h, Len(overrides)) /\ SumOf(h) = SumTo(h, Len(overrides)) /\ SumOf(h) \in Nat
  BY <1>1, <1>2, <1>3, MapSum
<1>6. RuleBytes(r) \in Nat
  BY RuleBytesNat
<1> QED
  BY <1>1, <1>2, <1>3, <1>4, <1>5, <1>6

(* The totals over the rules.                                              *)
LEMMA TotalsAre ==
  ASSUME AreRules(rules), AreOverrides(overrides)
  PROVE LET n == Len(rules)
        IN /\ n \in Nat /\ DOMAIN rules = 1 .. n
           /\ NumbersTo(MatchTotals, n) /\ AllMatchUnits = SumTo(MatchTotals, n)
           /\ NumbersTo(CompareTotals, n) /\ SumOf(CompareTotals) = SumTo(CompareTotals, n)
           /\ NumbersTo(CopyTotals, n) /\ SumOf(CopyTotals) = SumTo(CopyTotals, n)
           /\ \A j \in 1 .. n :
                /\ MatchTotals[j] = RuleMatchUnits(rules[j])
                /\ CompareTotals[j] = SumOf(CompareRow(rules[j]))
                /\ CopyTotals[j] = RuleBytes(rules[j]) + ProjectedFor(rules[j])
<1>1. /\ Listed(rules) /\ Len(rules) \in Nat /\ DOMAIN rules = 1 .. Len(rules)
      /\ \A j \in DOMAIN rules : IsRule(rules[j])
  BY ListIs DEF AreRules
<1>2. \A j \in DOMAIN rules : RuleMatchUnits(rules[j]) \in Nat /\ SumOf(CompareRow(rules[j])) \in Nat
  BY <1>1, CompareRowIs
<1>3. \A j \in DOMAIN rules : RuleBytes(rules[j]) + ProjectedFor(rules[j]) \in Nat
  <2>1. \A j \in DOMAIN rules : RuleBytes(rules[j]) \in Nat /\ ProjectedFor(rules[j]) \in Nat
    BY <1>1, CopyRowIs
  <2> QED
    BY <2>1, PlusNat, Zenon
<1>4. \A j \in DOMAIN rules :
        /\ MatchTotals[j] = RuleMatchUnits(rules[j])
        /\ CompareTotals[j] = SumOf(CompareRow(rules[j]))
        /\ CopyTotals[j] = RuleBytes(rules[j]) + ProjectedFor(rules[j])
  BY DEF MatchTotals, CompareTotals, CopyTotals
<1>5. /\ MatchTotals = [j \in DOMAIN rules |-> MatchTotals[j]]
      /\ CompareTotals = [j \in DOMAIN rules |-> CompareTotals[j]]
      /\ CopyTotals = [j \in DOMAIN rules |-> CopyTotals[j]]
  BY DEF MatchTotals, CompareTotals, CopyTotals
<1>6. AllMatchUnits = SumOf(MatchTotals)
  BY DEF AllMatchUnits, MatchTotals
<1>7. NumbersTo(MatchTotals, Len(rules)) /\ SumOf(MatchTotals) = SumTo(MatchTotals, Len(rules))
  BY <1>1, <1>2, <1>4, <1>5, MapSum
<1>8. NumbersTo(CompareTotals, Len(rules)) /\ SumOf(CompareTotals) = SumTo(CompareTotals, Len(rules))
  BY <1>1, <1>2, <1>4, <1>5, MapSum
<1>9. NumbersTo(CopyTotals, Len(rules)) /\ SumOf(CopyTotals) = SumTo(CopyTotals, Len(rules))
  BY <1>1, <1>3, <1>4, <1>5, MapSum
<1> QED
  BY <1>1, <1>4, <1>6, <1>7, <1>8, <1>9

-----------------------------------------------------------------------------
\* Exceptions.

(* The tags of rules, summed up.                                           *)
LEMMA TagsOfIs ==
  ASSUME NEW rs, AreRules(rs)
  PROVE LET f == [j \in DOMAIN rs |-> Cardinality(rs[j].tags)]
        IN /\ Len(rs) \in Nat /\ DOMAIN rs = 1 .. Len(rs)
           /\ NumbersTo(f, Len(rs)) /\ TagsOf(rs) = SumTo(f, Len(rs)) /\ TagsOf(rs) \in Nat
<1> DEFINE f == [j \in DOMAIN rs |-> Cardinality(rs[j].tags)]
<1>1. Listed(rs) /\ \A j \in DOMAIN rs : Cardinality(rs[j].tags) \in Nat
  BY FS_CardinalityType DEF AreRules, IsRule
<1>2. f = [j \in DOMAIN rs |-> f[j]] /\ \A j \in DOMAIN rs : f[j] \in Nat
  BY <1>1
<1>3. TagsOf(rs) = SumOf(f)
  BY DEF TagsOf
<1> HIDE DEF f
<1>4. /\ Len(rs) \in Nat /\ DOMAIN rs = 1 .. Len(rs)
      /\ NumbersTo(f, Len(rs)) /\ SumOf(f) = SumTo(f, Len(rs)) /\ SumOf(f) \in Nat
  BY <1>1, <1>2, MapSum
<1> QED
  BY <1>3, <1>4 DEF f

(* Rules with the same tags have as many.                                  *)
LEMMA SameTags ==
  ASSUME NEW rs, NEW qs, AreRules(rs), AreRules(qs), Len(qs) = Len(rs),
         \A j \in DOMAIN rs : qs[j].tags = rs[j].tags
  PROVE TagsOf(qs) = TagsOf(rs)
<1> DEFINE f == [j \in DOMAIN rs |-> Cardinality(rs[j].tags)]
           g == [j \in DOMAIN qs |-> Cardinality(qs[j].tags)]
           n == Len(rs)
<1>1. /\ n \in Nat /\ DOMAIN rs = 1 .. n /\ NumbersTo(f, n) /\ TagsOf(rs) = SumTo(f, n)
  BY TagsOfIs
<1>2. DOMAIN qs = 1 .. n /\ TagsOf(qs) = SumTo(g, n)
  BY TagsOfIs
<1>3. \A j \in 1 .. n : f[j] = g[j]
  BY <1>1, <1>2
<1> HIDE DEF f, g
<1> QED
  BY <1>1, <1>2, <1>3, SumSame

(* Products grow with their factors.                                       *)
LEMMA ProductBelow ==
  ASSUME NEW a \in Nat, NEW b \in Nat, NEW c \in Nat, a <= b
  PROVE a * c <= b * c
<1>1. PICK d \in Nat : b = a + d
  <2>1. b - a \in Nat /\ b = a + (b - a)
    OBVIOUS
  <2> QED
    BY <2>1
<1>2. b * c = a * c + d * c
  BY <1>1
<1>3. a * c \in Nat /\ d * c \in Nat
  BY ProductNat
<1> QED
  BY <1>2, <1>3

(* Fewer rules with fewer tags are compared with less; what an exception   *)
(* is compared by is its selectors.                                        *)
LEMMA ExceptionUnitsBelow ==
  ASSUME NEW es, NEW ds, AreExceptions(es), AreExceptions(ds), Len(ds) = Len(es),
         \A i \in DOMAIN es : ds[i].ids = es[i].ids /\ ds[i].names = es[i].names /\ ds[i].tags = es[i].tags,
         NEW rs, NEW qs, AreRules(rs), AreRules(qs), Len(qs) <= Len(rs), TagsOf(qs) <= TagsOf(rs)
  PROVE ExceptionUnits(ds, qs) \in Nat /\ ExceptionUnits(es, rs) \in Nat
          /\ ExceptionUnits(ds, qs) <= ExceptionUnits(es, rs)
<1> DEFINE n == Len(es)
           U(e, l, t) == l * (1 + Cardinality(e.ids) + Cardinality(e.names)) + t * Cardinality(e.tags)
           f == [i \in DOMAIN es |-> U(es[i], Len(rs), TagsOf(rs))]
           g == [i \in DOMAIN ds |-> U(ds[i], Len(qs), TagsOf(qs))]
<1>1. /\ Listed(es) /\ Listed(ds) /\ n \in Nat /\ DOMAIN es = 1 .. n /\ DOMAIN ds = 1 .. n
      /\ \A i \in 1 .. n : IsException(es[i])
  BY ListIs DEF AreExceptions
<1>2. Len(rs) \in Nat /\ Len(qs) \in Nat /\ TagsOf(rs) \in Nat /\ TagsOf(qs) \in Nat
  BY TagsOfIs
<1>3. ASSUME NEW i \in 1 .. n
      PROVE /\ U(ds[i], Len(qs), TagsOf(qs)) \in Nat /\ U(es[i], Len(rs), TagsOf(rs)) \in Nat
            /\ U(ds[i], Len(qs), TagsOf(qs)) <= U(es[i], Len(rs), TagsOf(rs))
  <2> DEFINE a == Cardinality(es[i].ids)
             b == Cardinality(es[i].names)
             c == Cardinality(es[i].tags)
             l == Len(rs)
             m == Len(qs)
             t == TagsOf(rs)
             u == TagsOf(qs)
  <2>1. a \in Nat /\ b \in Nat /\ c \in Nat
    BY <1>1, FS_CardinalityType DEF IsException
  <2>2. U(es[i], l, t) = l * (1 + a + b) + t * c /\ U(ds[i], m, u) = m * (1 + a + b) + u * c
    BY <1>1
  <2>3. l \in Nat /\ m \in Nat /\ t \in Nat /\ u \in Nat /\ m <= l /\ u <= t
    BY <1>2
  <2> HIDE DEF a, b, c, l, m, t, u, U
  <2>4. 1 + a + b \in Nat
    BY <2>1
  <2> DEFINE s == 1 + a + b
  <2> HIDE DEF s
  <2>5. s \in Nat
    BY <2>4 DEF s
  <2>6. m * s <= l * s /\ u * c <= t * c /\ m * s \in Nat /\ l * s \in Nat /\ u * c \in Nat /\ t * c \in Nat
    BY <2>1, <2>3, <2>5, ProductBelow, ProductNat
  <2> DEFINE ms == m * s
             ls == l * s
             uc == u * c
             tc == t * c
  <2>7. ms \in Nat /\ ls \in Nat /\ uc \in Nat /\ tc \in Nat /\ ms <= ls /\ uc <= tc
    BY <2>6
  <2> HIDE DEF ms, ls, uc, tc
  <2>8. ms + uc \in Nat /\ ls + tc \in Nat /\ ms + uc <= ls + tc
    BY <2>7
  <2> QED
    BY <2>2, <2>8, Zenon DEF ms, ls, uc, tc, s, l, m, t, u
<1>4. ExceptionUnits(es, rs) = SumOf(f) /\ ExceptionUnits(ds, qs) = SumOf(g)
  BY DEF ExceptionUnits
<1> HIDE DEF U
<1>5. /\ f = [i \in DOMAIN es |-> f[i]] /\ g = [i \in DOMAIN ds |-> g[i]]
      /\ \A i \in 1 .. n : f[i] = U(es[i], Len(rs), TagsOf(rs)) /\ g[i] = U(ds[i], Len(qs), TagsOf(qs))
  BY <1>1
<1> HIDE DEF f, g
<1>6. \A i \in 1 .. n : f[i] \in Nat /\ g[i] \in Nat /\ g[i] <= f[i]
  BY <1>3, <1>5
<1>7. NumbersTo(f, n) /\ SumOf(f) = SumTo(f, n) /\ SumOf(f) \in Nat
  BY <1>1, <1>5, <1>6, MapSum
<1>8. NumbersTo(g, n) /\ SumOf(g) = SumTo(g, n) /\ SumOf(g) \in Nat
  <2>1. Len(ds) = n
    OBVIOUS
  <2>2. NumbersTo(g, Len(ds)) /\ SumOf(g) = SumTo(g, Len(ds)) /\ SumOf(g) \in Nat
    BY <1>1, <1>5, <1>6, MapSum
  <2> QED
    BY <2>1, <2>2
<1>9. SumTo(g, n) <= SumTo(f, n)
  BY <1>1, <1>6, <1>7, <1>8, SumMonotone
<1> QED
  BY <1>4, <1>7, <1>8, <1>9

\* What the application has done with the rule at hand.
ComparedHere == IF position = 0 THEN 0 ELSE SumTo(CompareRow(rules[rule]), position - 1)
CopiedHere ==
  IF position = 0 THEN 0 ELSE RuleBytes(rules[rule]) + SumTo(CopyRow(rules[rule]), position - 1)

\* What exceptions are still compared with, once.
ExceptionsLeft(rs) == ExceptionUnits(document.exceptions \o locals, rs)

\* Every comparison still to be made has been reserved.
ComparePaid ==
  /\ compared \in Nat /\ selectorWork \in Nat /\ compared <= selectorWork
  /\ stage \in {"variables", "strings"} =>
       compared + ExceptionUnits(head.exceptions \o locals, manifest.rules) <= selectorWork
  /\ stage = "contents" => compared + ExceptionsLeft(manifest.rules) <= selectorWork
  /\ stage \in {"overrides", "mutations", "options"} =>
       compared + ExceptionsLeft(rules) <= selectorWork
  /\ stage = "checking" =>
       compared + ExceptionsLeft(rules) + SumTo(CompareTotals, rule - 1) + 2 * AllMatchUnits
         <= selectorWork + 2 * SumTo(MatchTotals, rule - 1)
  /\ stage = "applying" =>
       compared + ExceptionsLeft(rules) + SumOf(CompareTotals)
         <= selectorWork + SumTo(CompareTotals, rule - 1) + ComparedHere
  /\ stage = "document" =>
       compared + ExceptionUnits(document.exceptions, rules) <= selectorWork

\* So has every byte still to be copied.
CopyPaid ==
  /\ copied \in Nat /\ renderWork \in Nat /\ copied <= renderWork
  /\ stage = "checking" => projected = SumTo(CopyTotals, rule - 1)
  /\ stage = "applying" =>
       copied + SumOf(CopyTotals) <= renderWork + SumTo(CopyTotals, rule - 1) + CopiedHere
  /\ stage = "options" =>
       copied + OptionGrowth + 4 * (DocumentBytes(document, rules) + OptionGrowth) <= renderWork
  /\ stage \in {"document", "writing"} => copied + 4 * DocumentBytes(document, rules) <= renderWork

RuleTags == [j \in DOMAIN rules |-> Cardinality(rules[j].tags)]

\* Rules and overrides are gone through in order; kept ones are among them.
ProgressInv ==
  /\ stage \in {"checking", "applying"} => rule \in 1 .. Len(rules) + 1
  /\ stage = "applying" =>
       /\ position \in 0 .. Len(overrides) + 1
       /\ Len(kept) < rule
       /\ TagsOf(kept) <= SumTo(RuleTags, rule - 1)

PaidInv == ComparePaid /\ CopyPaid /\ ProgressInv

-----------------------------------------------------------------------------
\* Progress.

(* One rule or override further on.                                        *)
LEMMA Underway ==
  ASSUME NEW n \in Nat, NEW T, NumbersTo(T, n), NEW k \in 1 .. n,
         NEW m \in Nat, NEW row, NumbersTo(row, m), NEW b \in Nat, T[k] = b + SumTo(row, m),
         NEW p \in 1 .. m, NEW x \in Nat, NEW y \in Nat, NEW e \in Nat,
         x + e + SumTo(T, n) <= y + SumTo(T, k - 1) + (b + SumTo(row, p - 1)),
         NEW d \in Nat, d <= row[p]
  PROVE /\ x + d <= y
        /\ x + d + e + SumTo(T, n) <= y + SumTo(T, k - 1) + (b + SumTo(row, p))
<1>1. /\ SumTo(T, k) = SumTo(T, k - 1) + T[k] /\ SumTo(T, k) \in Nat /\ SumTo(T, k - 1) \in Nat
      /\ T[k] \in Nat
  BY SumStep
<1>2. /\ SumTo(row, p) = SumTo(row, p - 1) + row[p] /\ SumTo(row, p) \in Nat
      /\ SumTo(row, p - 1) \in Nat /\ row[p] \in Nat
  BY SumStep
<1>3. SumTo(T, k) <= SumTo(T, n) /\ SumTo(T, n) \in Nat
  <2>1. k \in 0 .. n
    OBVIOUS
  <2> QED
    BY <2>1, SumGrows
<1>4. SumTo(row, p) <= SumTo(row, m) /\ SumTo(row, m) \in Nat
  <2>1. p \in 0 .. m
    OBVIOUS
  <2> QED
    BY <2>1, SumGrows
<1> DEFINE Tn == SumTo(T, n)
           Tk == SumTo(T, k)
           Tj == SumTo(T, k - 1)
           Rm == SumTo(row, m)
           Rp == SumTo(row, p)
           Rq == SumTo(row, p - 1)
<1>5. /\ Tk = Tj + T[k] /\ Tk \in Nat /\ Tj \in Nat /\ T[k] \in Nat /\ Tk <= Tn /\ Tn \in Nat
      /\ Rp = Rq + row[p] /\ Rp \in Nat /\ Rq \in Nat /\ row[p] \in Nat /\ Rp <= Rm /\ Rm \in Nat
      /\ x + e + Tn <= y + Tj + (b + Rq) /\ T[k] = b + Rm
  BY <1>1, <1>2, <1>3, <1>4
<1> HIDE DEF Tn, Tk, Tj, Rm, Rp, Rq
<1>6. x + d <= y /\ x + d + e + Tn <= y + Tj + (b + Rp)
  BY <1>5
<1> QED
  BY <1>6 DEF Tn, Tj, Rp

(* No rule has no tag.                                                     *)
LEMMA NotYet ==
  ASSUME NEW rs, rs = <<>>
  PROVE TagsOf(rs) = 0 /\ Len(rs) = 0
<1> DEFINE f == [j \in DOMAIN rs |-> Cardinality(rs[j].tags)]
<1>1. Listed(rs) /\ Len(rs) = 0 /\ DOMAIN rs = {}
  BY EmptyList
<1>2. f = [j \in DOMAIN rs |-> f[j]] /\ \A j \in DOMAIN rs : f[j] \in Nat
  BY <1>1
<1> HIDE DEF f
<1>3. NumbersTo(f, 0) /\ SumOf(f) = SumTo(f, 0)
  BY <1>1, <1>2, MapSum
<1>4. SumTo(f, 0) = 0
  BY <1>3, SumStep
<1> QED
  BY <1>1, <1>3, <1>4 DEF TagsOf, f

(* What the sums are made of is all they depend on.                        *)
LEMMA SameTotals ==
  ASSUME overrides' = overrides, rules' = rules, document' = document, options' = options
  PROVE /\ MatchTotals' = MatchTotals /\ CompareTotals' = CompareTotals /\ CopyTotals' = CopyTotals
        /\ AllMatchUnits' = AllMatchUnits /\ ExceptionsLeft(rules)' = ExceptionsLeft(rules)
        /\ RuleTags' = RuleTags
        /\ \A r : CompareRow(r)' = CompareRow(r) /\ CopyRow(r)' = CopyRow(r)
<1>1. MatchTotals' = MatchTotals
  BY DEF MatchTotals, RuleMatchUnits
<1>2. CompareTotals' = CompareTotals
  BY DEF CompareTotals, CompareRow, CompareUnits, ActionOverrides
<1>3. CopyTotals' = CopyTotals
  BY DEF CopyTotals, ProjectedFor, EditBound, ContentBound, ActionGrowth, FieldGrowth, ActionOverrides
<1>4. AllMatchUnits' = AllMatchUnits
  BY DEF AllMatchUnits, RuleMatchUnits
<1>5. ExceptionsLeft(rules)' = ExceptionsLeft(rules)
  BY DEF ExceptionsLeft, locals
<1>6. RuleTags' = RuleTags
  BY DEF RuleTags
<1>7. ASSUME NEW r PROVE CompareRow(r)' = CompareRow(r) /\ CopyRow(r)' = CopyRow(r)
  <2>1. CompareRow(r)' = CompareRow(r)
    BY DEF CompareRow, CompareUnits, ActionOverrides
  <2>2. CopyRow(r)' = CopyRow(r)
    BY DEF CopyRow, CopyUnits, EditBound, ContentBound, ActionGrowth, FieldGrowth, ActionOverrides
  <2> QED
    BY <2>1, <2>2
<1> QED
  BY <1>1, <1>2, <1>3, <1>4, <1>5, <1>6, <1>7

(* One rule more, and its tags.                                            *)
LEMMA TagsAppended ==
  ASSUME NEW rs, NEW q, AreRules(rs), AreRules(Append(rs, q)), IsRule(q)
  PROVE TagsOf(Append(rs, q)) = TagsOf(rs) + Cardinality(q.tags)
<1> DEFINE qs == Append(rs, q)
           f == [j \in DOMAIN rs |-> Cardinality(rs[j].tags)]
           g == [j \in DOMAIN qs |-> Cardinality(qs[j].tags)]
           n == Len(rs)
<1>1. n \in Nat /\ DOMAIN rs = 1 .. n /\ NumbersTo(f, n) /\ TagsOf(rs) = SumTo(f, n)
  BY TagsOfIs
<1>2. /\ Len(qs) = n + 1 /\ DOMAIN qs = 1 .. n + 1 /\ qs[n + 1] = q
      /\ \A j \in 1 .. n : qs[j] = rs[j]
  BY AppendIs DEF AreRules
<1>3. NumbersTo(g, Len(qs)) /\ TagsOf(qs) = SumTo(g, Len(qs))
  BY TagsOfIs
<1> HIDE DEF qs
<1>4. \A j \in 1 .. n : f[j] = g[j]
  BY <1>1, <1>2
<1>5. g[n + 1] = Cardinality(q.tags)
  BY <1>1, <1>2
<1> HIDE DEF f, g, n
<1>6. SumTo(f, n) = SumTo(g, n)
  BY <1>1, <1>4, SumSame
<1> DEFINE m == n + 1
<1>7. m \in Nat /\ m \in 1 .. m /\ m - 1 = n /\ NumbersTo(g, m) /\ TagsOf(qs) = SumTo(g, m)
      /\ g[m] = Cardinality(q.tags)
  BY <1>1, <1>2, <1>3, <1>5
<1> HIDE DEF m
<1>8. SumTo(g, m) = SumTo(g, m - 1) + g[m]
  BY <1>7, SumStep
<1> QED
  BY <1>1, <1>6, <1>7, <1>8 DEF qs

(* The tags of the rules at hand, one by one.                              *)
LEMMA RuleTagsAre ==
  ASSUME AreRules(rules)
  PROVE /\ Len(rules) \in Nat /\ DOMAIN rules = 1 .. Len(rules)
        /\ NumbersTo(RuleTags, Len(rules)) /\ TagsOf(rules) = SumTo(RuleTags, Len(rules))
        /\ \A j \in 1 .. Len(rules) : RuleTags[j] = Cardinality(rules[j].tags)
<1>1. /\ Len(rules) \in Nat /\ DOMAIN rules = 1 .. Len(rules)
      /\ NumbersTo(RuleTags, Len(rules)) /\ TagsOf(rules) = SumTo(RuleTags, Len(rules))
  BY TagsOfIs DEF RuleTags
<1> QED
  BY <1>1 DEF RuleTags

(* Steps outside the check and the application of overrides.               *)
LEMMA OtherStages ==
  ASSUME Next, ~OverrideStep, ~Rest
  PROVE stage' \notin {"checking", "applying"}
<1>1. CASE Admit \/ ValidateShape \/ ReserveExceptions \/ ResolveVariables \/ RenderStrings
  BY <1>1 DEF Admit, ValidateShape, ReserveExceptions, ResolveVariables, RenderStrings, Go
<1>2. CASE RenderContents \/ ReserveMutations \/ ApplyOptions \/ CheckDocument
  BY <1>2 DEF RenderContents, ReserveMutations, ApplyOptions, CheckDocument, Go
<1>3. CASE PassRule \/ LoadFile \/ FinishLoading \/ Reinstall \/ WriteManifest
  BY <1>3 DEF PassRule, LoadFile, FinishLoading, Reinstall, WriteManifest, Go
<1> QED
  BY <1>1, <1>2, <1>3 DEF Next, ParseStep

(* Every step keeps the order of rules and overrides.                      *)
LEMMA ProgressStep ==
  ASSUME TypesInv, CheckedInv, ProgressInv, [Next]_vars
  PROVE ProgressInv'
<1> DEFINE n == Len(rules)
           m == Len(overrides)
<1>1. n \in Nat /\ DOMAIN rules = 1 .. n /\ m \in Nat /\ DOMAIN overrides = 1 .. m
  BY ListIs DEF TypesInv, AreRules, AreOverrides
<1>2. /\ stage \in {"checking", "applying"} => rule \in 1 .. n + 1
      /\ stage = "applying" =>
           position \in 0 .. m + 1 /\ Len(kept) < rule /\ TagsOf(kept) <= SumTo(RuleTags, rule - 1)
  BY DEF ProgressInv
<1>3. SUFFICES
        /\ stage' \in {"checking", "applying"} => rule' \in 1 .. Len(rules') + 1
        /\ stage' = "applying" =>
             /\ position' \in 0 .. Len(overrides') + 1
             /\ Len(kept') < rule'
             /\ TagsOf(kept') <= SumTo(RuleTags', rule' - 1)
  BY DEF ProgressInv, TagsOf
<1>4. CASE OverrideStep
  <2>1. CASE SkipOverrides \/ FinishOverrides
    BY <2>1 DEF SkipOverrides, FinishOverrides
  <2>2. CASE ReserveSelectors
    BY <1>1, <2>2 DEF ReserveSelectors, Go
  <2>3. CASE CheckRule
    <3>1. /\ rules' = rules /\ rule' = rule + 1 /\ rule \in DOMAIN rules /\ stage' # "applying"
      BY <2>3 DEF CheckRule, Go
    <3> QED
      BY <1>1, <3>1
  <2>4. CASE FinishCheck
    <3>1. /\ rules' = rules /\ overrides' = overrides /\ rule' = 1 /\ position' = 0 /\ kept' = <<>>
      BY <2>4 DEF FinishCheck
    <3>2. TagsOf(kept') = 0 /\ Len(kept') = 0
      BY <3>1, NotYet
    <3>3. SumTo(RuleTags', 0) = 0
      <4>1. RuleTags' = RuleTags
        BY <3>1 DEF RuleTags
      <4>2. SumTo(RuleTags, 0) = 0
        BY RuleTagsAre, SumStep DEF TypesInv
      <4> QED
        BY <4>1, <4>2
    <3> QED
      BY <1>1, <3>1, <3>2, <3>3
  <2>5. CASE CopyRule \/ PassOverride \/ OverrideRule \/ OverrideAction
    <3>1. /\ rules' = rules /\ overrides' = overrides /\ rule' = rule /\ kept' = kept
          /\ stage = "applying"
          /\ position' = 1 \/ (position \in DOMAIN overrides /\ position' = position + 1)
      BY <2>5 DEF CopyRule, PassOverride, OverrideRule, OverrideAction, AtOverride
    <3>2. RuleTags' = RuleTags
      BY <3>1 DEF RuleTags
    <3> QED
      BY <1>1, <1>2, <3>1, <3>2
  <2>6. CASE CloseRule
    <3>1. /\ rules' = rules /\ overrides' = overrides /\ rule' = rule + 1 /\ position' = 0
          /\ stage = "applying" /\ position > 0
      BY <2>6 DEF CloseRule
    <3>2. rule \in 1 .. n
      BY <1>1, <3>1 DEF CheckedInv
    <3>3. RuleTags' = RuleTags
      BY <3>1 DEF RuleTags
    <3>4. SumTo(RuleTags, rule) = SumTo(RuleTags, rule - 1) + RuleTags[rule]
          /\ SumTo(RuleTags, rule - 1) \in Nat /\ RuleTags[rule] \in Nat
          /\ RuleTags[rule] = Cardinality(rules[rule].tags)
      BY <3>2, RuleTagsAre, SumStep DEF TypesInv
    <3>5. Len(kept) \in Nat /\ TagsOf(kept) \in Nat
      BY TagsOfIs DEF TypesInv
    <3>6. kept' = kept \/ (kept' = Append(kept, Closed) /\ Len(kept') = Len(kept) + 1
                            /\ TagsOf(kept') = TagsOf(kept) + RuleTags[rule])
      <4>1. /\ kept' = kept \/ kept' = Append(kept, Closed)
            /\ IsRule(Closed) /\ Closed.tags = rules[rule].tags /\ AreRules(Append(kept, Closed))
        BY <1>1, <2>6, <3>2, CloseRuleIs
      <4>2. TagsOf(Append(kept, Closed)) = TagsOf(kept) + Cardinality(Closed.tags)
        BY <4>1, TagsAppended DEF TypesInv
      <4>3. Len(Append(kept, Closed)) = Len(kept) + 1
        BY AppendIs DEF TypesInv, AreRules
      <4> QED
        BY <3>4, <4>1, <4>2, <4>3
    <3>7. Len(kept') < rule' /\ TagsOf(kept') <= SumTo(RuleTags, rule)
      <4>1. Len(kept) < rule /\ TagsOf(kept) <= SumTo(RuleTags, rule - 1) /\ rule \in Nat
        BY <1>2, <3>1, <3>2
      <4>2. CASE kept' = kept
        BY <3>1, <3>4, <3>5, <4>1, <4>2
      <4>3. CASE kept' = Append(kept, Closed) /\ Len(kept') = Len(kept) + 1
                   /\ TagsOf(kept') = TagsOf(kept) + RuleTags[rule]
        BY <3>1, <3>4, <3>5, <4>1, <4>3
      <4> QED
        BY <3>6, <4>2, <4>3
    <3> QED
      BY <1>1, <3>1, <3>2, <3>3, <3>7
  <2> QED
    BY <1>4, <2>1, <2>2, <2>3, <2>4, <2>5, <2>6 DEF OverrideStep
<1>5. CASE Rest \/ UNCHANGED vars
  <2>1. UNCHANGED <<stage, rule, position, rules, overrides, kept>>
    BY <1>5 DEF Rest, vars, overrideVars, editVars
  <2>2. RuleTags' = RuleTags
    BY <2>1 DEF RuleTags
  <2> QED
    BY <1>2, <2>1, <2>2
<1>6. CASE Next /\ ~OverrideStep /\ ~Rest
  BY <1>6, OtherStages
<1> QED
  BY <1>4, <1>5, <1>6 DEF Next, ParseStep

(* The exceptions of the document and the local ones.                      *)
LEMMA ExceptionsLeftIs ==
  ASSUME TypesInv, NEW rs, NEW qs, AreRules(rs), AreRules(qs),
         Len(qs) <= Len(rs), TagsOf(qs) <= TagsOf(rs)
  PROVE ExceptionsLeft(qs) \in Nat /\ ExceptionsLeft(rs) \in Nat
          /\ ExceptionsLeft(qs) <= ExceptionsLeft(rs)
<1> DEFINE es == document.exceptions \o locals
<1>1. AreExceptions(es)
  BY ConcatExceptions DEF TypesInv, IsDocument, IsOptions, locals
<1>2. ExceptionsLeft(qs) = ExceptionUnits(es, qs) /\ ExceptionsLeft(rs) = ExceptionUnits(es, rs)
  BY DEF ExceptionsLeft
<1> HIDE DEF es
<1> QED
  BY <1>1, <1>2, ExceptionUnitsBelow

(* The comparisons left are a number.                                      *)
LEMMA ExceptionsLeftNat ==
  ASSUME TypesInv, NEW rs, AreRules(rs)
  PROVE ExceptionsLeft(rs) \in Nat
<1>1. Len(rs) \in Nat /\ TagsOf(rs) \in Nat
  BY TagsOfIs
<1>2. Len(rs) <= Len(rs) /\ TagsOf(rs) <= TagsOf(rs)
  BY <1>1
<1> QED
  BY <1>2, ExceptionsLeftIs

\* The arithmetic of the check of one rule.
LEMMA CheckPaid ==
  ASSUME NEW c \in Nat, NEW s \in Nat, NEW e \in Nat, NEW a \in Nat,
         NEW t \in Nat, NEW q \in Nat, NEW m \in Nat, NEW u \in Nat, NEW x \in {0, u}, q + m <= a,
         c + e + t + 2 * a <= s + 2 * q
  PROVE c + x + m <= s + 2 * x /\ c + m <= s + 2 * x
          /\ c + u + m + e + (t + (m + u)) + 2 * a <= s + 2 * u + 2 * (q + m)
OBVIOUS

(* Checking a rule pays for its actions and uses what is paid.             *)
LEMMA CompareChecked ==
  ASSUME TypesInv, ProgressInv, ComparePaid, CheckRule, UNCHANGED <<options, document>>
  PROVE ComparePaid'
<1> DEFINE r == rules[rule]
           n == Len(rules)
           E == ExceptionsLeft(rules)
           A == AllMatchUnits
           T == CompareTotals
           M == MatchTotals
           m == RuleMatchUnits(r)
           u == Len(r.actions) * Cardinality(ActionOverrides(r))
           x == IF Inline(r) THEN u ELSE 0
           paid == Within("selector", selectorWork + 2 * x)
<1>1. /\ rules' = rules /\ overrides' = overrides /\ rule' = rule + 1 /\ rule \in DOMAIN rules
      /\ stage = "checking" /\ selectorWork' = selectorWork + 2 * x
      /\ compared' = compared + (IF paid THEN x ELSE 0) + m
      /\ (stage' = "checking" /\ Inline(r) /\ paid) \/ stage' = "refused"
  BY DEF CheckRule, Go
<1>2. T' = T /\ M' = M /\ A' = A /\ E' = E
  BY <1>1, SameTotals
<1>3. /\ n \in Nat /\ DOMAIN rules = 1 .. n /\ NumbersTo(M, n) /\ A = SumTo(M, n)
      /\ NumbersTo(T, n)
      /\ \A j \in 1 .. n : M[j] = RuleMatchUnits(rules[j]) /\ T[j] = SumOf(CompareRow(rules[j]))
  BY TotalsAre DEF TypesInv
<1>4. rule \in 1 .. n
  BY <1>1, <1>3
<1>5. m \in Nat /\ u \in Nat /\ SumOf(CompareRow(r)) = m + u
  BY <1>1, CompareRowIs DEF TypesInv, AreRules
<1>6. E \in Nat
  BY ExceptionsLeftNat DEF TypesInv
<1>7. compared \in Nat /\ selectorWork \in Nat
      /\ compared + E + SumTo(T, rule - 1) + 2 * A <= selectorWork + 2 * SumTo(M, rule - 1)
  BY <1>1 DEF ComparePaid
<1>8. M[rule] = m /\ T[rule] = m + u
  BY <1>3, <1>4, <1>5
<1>9. x \in {0, u} /\ (Inline(r) => x = u)
  OBVIOUS
<1>10. SUFFICES
         /\ compared' \in Nat /\ selectorWork' \in Nat /\ compared' <= selectorWork'
         /\ stage' = "checking" =>
              compared' + E' + SumTo(T', rule' - 1) + 2 * A' <= selectorWork' + 2 * SumTo(M', rule' - 1)
  BY <1>1 DEF ComparePaid
<1> HIDE DEF r, n, E, A, T, M, m, u, x, paid
<1>11. SumTo(T, rule) = SumTo(T, rule - 1) + T[rule] /\ SumTo(T, rule - 1) \in Nat
  BY <1>3, <1>4, SumStep
<1>12. SumTo(M, rule) = SumTo(M, rule - 1) + M[rule] /\ SumTo(M, rule - 1) \in Nat
  BY <1>3, <1>4, SumStep
<1>13. SumTo(M, rule) <= A /\ A \in Nat
  <2>1. rule \in 0 .. n
    BY <1>3, <1>4
  <2> QED
    BY <1>3, <2>1, SumGrows
<1> DEFINE t == SumTo(T, rule - 1)
           q == SumTo(M, rule - 1)
<1>14. /\ t \in Nat /\ q \in Nat /\ q + m <= A
       /\ compared + E + t + 2 * A <= selectorWork + 2 * q
       /\ SumTo(T, rule) = t + (m + u) /\ SumTo(M, rule) = q + m
  BY <1>7, <1>8, <1>11, <1>12, <1>13
<1> HIDE DEF t, q
<1>15. /\ compared + x + m <= selectorWork + 2 * x /\ compared + m <= selectorWork + 2 * x
       /\ compared + u + m + E + (t + (m + u)) + 2 * A <= selectorWork + 2 * u + 2 * (q + m)
  BY <1>5, <1>6, <1>7, <1>9, <1>13, <1>14, CheckPaid
<1>16. x \in Nat
  BY <1>5, <1>9
<1>17. compared' \in Nat /\ selectorWork' \in Nat /\ compared' <= selectorWork'
  BY <1>1, <1>5, <1>7, <1>15, <1>16
<1>18. ASSUME stage' = "checking"
       PROVE compared' + E' + SumTo(T', rule' - 1) + 2 * A' <= selectorWork' + 2 * SumTo(M', rule' - 1)
  <2>1. compared' = compared + u + m /\ selectorWork' = selectorWork + 2 * u
    BY <1>1, <1>9, <1>18
  <2>2. rule' - 1 = rule
    BY <1>1, <1>4
  <2>3. SumTo(T', rule' - 1) = t + (m + u) /\ SumTo(M', rule' - 1) = q + m /\ E' = E /\ A' = A
    BY <1>2, <1>14, <2>2
  <2> QED
    BY <1>15, <2>1, <2>3
<1> QED
  BY <1>17, <1>18

(* A finished check leaves what the application will compare.              *)
LEMMA CompareFinished ==
  ASSUME TypesInv, ProgressInv, ComparePaid, FinishCheck, UNCHANGED <<options, document>>
  PROVE ComparePaid'
<1> DEFINE n == Len(rules)
           E == ExceptionsLeft(rules)
           A == AllMatchUnits
           T == CompareTotals
           M == MatchTotals
<1>1. /\ rules' = rules /\ overrides' = overrides /\ rule' = 1 /\ position' = 0
      /\ rule \notin DOMAIN rules /\ stage = "checking" /\ stage' \in {"applying", "refused"}
      /\ selectorWork' = selectorWork /\ compared' = compared
  BY DEF FinishCheck, Go
<1>2. T' = T /\ E' = E /\ SumOf(T)' = SumOf(T)
  BY <1>1, SameTotals
<1>3. /\ n \in Nat /\ DOMAIN rules = 1 .. n /\ NumbersTo(M, n) /\ A = SumTo(M, n)
      /\ NumbersTo(T, n) /\ SumOf(T) = SumTo(T, n)
  BY TotalsAre DEF TypesInv
<1>4. rule = n + 1
  BY <1>1, <1>3 DEF ProgressInv
<1>5. E \in Nat
  BY ExceptionsLeftNat DEF TypesInv
<1>6. compared \in Nat /\ selectorWork \in Nat /\ compared <= selectorWork
      /\ compared + E + SumTo(T, rule - 1) + 2 * A <= selectorWork + 2 * SumTo(M, rule - 1)
  BY <1>1 DEF ComparePaid
<1>7. ComparedHere' = 0
  BY <1>1 DEF ComparedHere
<1>8. SUFFICES
        /\ compared' \in Nat /\ selectorWork' \in Nat /\ compared' <= selectorWork'
        /\ stage' = "applying" =>
             compared' + E' + SumOf(T)' <= selectorWork' + SumTo(T', rule' - 1) + ComparedHere'
  BY <1>1 DEF ComparePaid
<1> HIDE DEF n, E, A, T, M
<1>9. SumTo(T, 0) = 0 /\ SumTo(T, n) \in Nat /\ A \in Nat
  BY <1>3, SumStep
<1>10. rule - 1 = n /\ rule' - 1 = 0
  BY <1>1, <1>3, <1>4
<1>11. compared + E + SumTo(T, n) + 2 * A <= selectorWork + 2 * A
  BY <1>3, <1>6, <1>10
<1>12. compared + E + SumTo(T, n) <= selectorWork + 0 + 0
  BY <1>5, <1>6, <1>9, <1>11
<1> QED
  BY <1>1, <1>2, <1>3, <1>6, <1>7, <1>9, <1>10, <1>12

(* Selectors are paid for twice: once for the check, once to apply.        *)
LEMMA CompareReserved ==
  ASSUME TypesInv, ComparePaid, ReserveSelectors, UNCHANGED <<options, document>>
  PROVE ComparePaid'
<1> DEFINE n == Len(rules)
           E == ExceptionsLeft(rules)
           A == AllMatchUnits
           T == CompareTotals
           M == MatchTotals
<1>1. /\ rules' = rules /\ overrides' = overrides /\ rule' = 1 /\ stage = "overrides"
      /\ stage' \in {"checking", "refused"}
      /\ selectorWork' = selectorWork + 2 * A /\ compared' = compared
  BY DEF ReserveSelectors, Go, SelectorUnits
<1>2. T' = T /\ M' = M /\ A' = A /\ E' = E
  BY <1>1, SameTotals
<1>3. /\ n \in Nat /\ NumbersTo(M, n) /\ A = SumTo(M, n) /\ NumbersTo(T, n)
  BY TotalsAre DEF TypesInv
<1>4. E \in Nat
  BY ExceptionsLeftNat DEF TypesInv
<1>5. compared \in Nat /\ selectorWork \in Nat /\ compared <= selectorWork
      /\ compared + E <= selectorWork
  BY <1>1 DEF ComparePaid
<1>6. SUFFICES
        /\ compared' \in Nat /\ selectorWork' \in Nat /\ compared' <= selectorWork'
        /\ stage' = "checking" =>
             compared' + E' + SumTo(T', rule' - 1) + 2 * A' <= selectorWork' + 2 * SumTo(M', rule' - 1)
  BY <1>1 DEF ComparePaid
<1> HIDE DEF n, E, A, T, M
<1>7. SumTo(T, 0) = 0 /\ SumTo(M, 0) = 0 /\ A \in Nat /\ rule' - 1 = 0
  BY <1>1, <1>3, SumStep
<1>8. compared + E + 0 + 2 * A <= selectorWork + 2 * A + 2 * 0
  BY <1>4, <1>5, <1>7
<1> QED
  BY <1>1, <1>2, <1>5, <1>7, <1>8

(* What applying one override costs was reserved for it.                   *)
LEMMA EditPaid ==
  ASSUME TypesInv, AppliedInv, CheckedInv, PassOverride \/ OverrideRule \/ OverrideAction,
         compared \in Nat, copied \in Nat
  PROVE /\ stage = "applying" /\ position \in 1 .. Len(overrides) /\ position' = position + 1
        /\ rule \in 1 .. Len(rules) /\ UNCHANGED <<rule, rules, overrides, selectorWork, renderWork>>
        /\ \E d \in Nat : compared' = compared + d /\ d <= CompareUnits(rules[rule], position)
        /\ \E d \in Nat : copied' = copied + d /\ d <= CopyUnits(rules[rule], position)
<1> DEFINE r == rules[rule]
           o == overrides[position]
           m == MatchUnits(o, r)
           l == Len(r.actions)
<1>1. /\ stage = "applying" /\ position > 0 /\ position \in DOMAIN overrides
      /\ position' = position + 1 /\ UNCHANGED <<rule, rules, overrides, selectorWork, renderWork>>
  BY DEF PassOverride, OverrideRule, OverrideAction, AtOverride
<1>2. /\ Len(overrides) \in Nat /\ DOMAIN overrides = 1 .. Len(overrides) /\ IsOverride(o)
      /\ Len(rules) \in Nat /\ DOMAIN rules = 1 .. Len(rules)
      /\ \A j \in DOMAIN rules : IsRule(rules[j])
  BY <1>1, ListIs DEF TypesInv, AreOverrides, AreRules
<1>3. rule \in 1 .. Len(rules) /\ position \in 1 .. Len(overrides)
  BY <1>1, <1>2 DEF CheckedInv
<1>4. IsRule(r) /\ AreOverrides(overrides) /\ AreActions(actions)
  BY <1>2, <1>3 DEF TypesInv
<1>5. m \in Nat
  <2>1. Cardinality(r.tags) \in Nat /\ Cardinality(o.selector.tags) \in Nat
    BY <1>2, <1>4, FS_CardinalityType DEF IsRule, IsOverride
  <2>2. 1 + Cardinality(r.tags) * Cardinality(o.selector.tags) \in Nat
    BY <2>1, PlusNat, ProductNat, 1 \in Nat, Zenon
  <2> QED
    BY <2>2 DEF MatchUnits
<1>6. l \in Nat /\ Listed(r.actions)
  BY <1>4, ListIs DEF IsRule, IsContent, AreActions
<1>7. /\ CompareUnits(r, position) = m + (IF position \in ActionOverrides(r) THEN l ELSE 0)
      /\ CopyUnits(r, position) = IF position \in ActionOverrides(r) THEN EditBound(r, position) ELSE 0
  BY DEF CompareUnits, CopyUnits
<1>8. CopyUnits(r, position) \in Nat
  BY <1>3, <1>4, CopyRowIs
<1>9. CASE PassOverride \/ OverrideRule
  <2>1. compared' = compared + m /\ copied' = copied
    BY <1>9 DEF PassOverride, OverrideRule
  <2>2. m <= CompareUnits(r, position)
    <3> HIDE DEF m, l
    <3> QED
      BY <1>5, <1>6, <1>7
  <2>3. \E d \in Nat : compared' = compared + d /\ d <= CompareUnits(r, position)
    BY <1>5, <2>1, <2>2
  <2>4. copied' = copied + 0 /\ 0 <= CopyUnits(r, position)
    BY <1>8, <2>1
  <2> QED
    BY <1>1, <1>3, <2>3, <2>4
<1>10. CASE OverrideAction
  <2> DEFINE b == ContentBytes(r.when, actions)
             c == ContentBytes(r.when, Edited(o, actions))
             w == ReplacementBytes(o)
             n == position - 1
  <2>1. /\ MatchesRule(o, r) /\ o.action # NoAction
        /\ compared' = compared + m + Len(actions) /\ copied' = copied + b + w + c
    BY <1>10 DEF OverrideAction, AtOverride
  <2>2. position \in ActionOverrides(r)
    BY <1>1, <2>1 DEF ActionOverrides
  <2>3. AppliedTo(overrides, r, settings, actions, n)
    BY <1>1 DEF AppliedInv, AppliedSoFar
  <2>4. Len(actions) = l
    <3>1. DOMAIN actions = DOMAIN r.actions
      BY <2>3 DEF AppliedTo
    <3>2. Len(actions) \in Nat /\ DOMAIN actions = 1 .. Len(actions) /\ DOMAIN r.actions = 1 .. l
      BY <1>4, <1>6, ListIs DEF AreActions
    <3> QED
      BY <1>6, <3>1, <3>2, SameLength, Zenon
  <2>5. n \in Nat /\ n + 1 = position /\ n \in 0 .. Len(overrides) /\ position \in 0 .. Len(overrides)
    BY <1>2, <1>3
  <2> DEFINE st == Overlay(RuleFields, o.sets, settings)
             as == Edited(o, actions)
  <2>6. AppliedTo(overrides, r, st, as, position)
    <3> HIDE DEF n, r
    <3>1. MatchesRule(overrides[n + 1], r) /\ overrides[n + 1].action # NoAction
      BY <2>1, <2>5
    <3>2. AppliedTo(overrides, r, Overlay(RuleFields, overrides[n + 1].sets, settings),
                    Edited(overrides[n + 1], actions), n + 1)
      BY <2>3, <2>5, <3>1, ActionApplied
    <3> QED
      BY <2>5, <3>2
  <2>7. AreActions(as)
    BY <1>2, <1>4, EditedType
  <2>8. b \in Nat /\ b <= ContentBound(r, n)
    <3> HIDE DEF n, r
    <3> QED
      BY <1>4, <2>3, <2>5, ContentBounded
  <2>9. c \in Nat /\ c <= ContentBound(r, position)
    <3> HIDE DEF st, as, r
    <3>1. ContentBytes(r.when, as) \in Nat /\ ContentBytes(r.when, as) <= ContentBound(r, position)
      BY <1>4, <2>5, <2>6, <2>7, ContentBounded
    <3> QED
      BY <3>1 DEF as
  <2>10. w \in Nat /\ ContentBound(r, n) \in Nat /\ ContentBound(r, position) \in Nat
    BY <1>2, <1>4, ReplacementBytesNat, ContentBoundNat
  <2>11. CopyUnits(r, position) = ContentBound(r, n) + w + ContentBound(r, position)
    BY <1>7, <2>2 DEF EditBound
  <2> DEFINE x == ContentBound(r, n)
             y == ContentBound(r, position)
  <2> HIDE DEF b, c, w, x, y, m, l
  <2>13. b + w + c \in Nat /\ b + w + c <= x + w + y
    BY <2>8, <2>9, <2>10 DEF x, y
  <2>14. m + l \in Nat /\ m + l <= CompareUnits(r, position)
    BY <1>5, <1>6, <1>7, <2>2
  <2>15. b + w + c <= CopyUnits(r, position)
    BY <2>11, <2>13 DEF x, y
  <2>16. compared' = compared + (m + l) /\ copied' = copied + (b + w + c)
    BY <1>5, <1>6, <2>1, <2>4, <2>8, <2>9, <2>10
  <2> QED
    BY <1>1, <1>3, <2>13, <2>14, <2>15, <2>16
<1> QED
  BY <1>9, <1>10

(* Checking a rule adds what it will copy.                                 *)
LEMMA CopyChecked ==
  ASSUME TypesInv, ProgressInv, CopyPaid, CheckRule, UNCHANGED <<options, document>>
  PROVE CopyPaid'
<1> DEFINE r == rules[rule]
           n == Len(rules)
           C == CopyTotals
<1>1. /\ rules' = rules /\ overrides' = overrides /\ rule' = rule + 1 /\ rule \in DOMAIN rules
      /\ stage = "checking" /\ stage' \in {"checking", "refused"}
      /\ copied' = copied /\ renderWork' = renderWork
      /\ stage' = "checking" => projected' = projected + RuleBytes(r) + ProjectedFor(r)
  BY DEF CheckRule, Go
<1>2. C' = C
  BY <1>1, SameTotals
<1>3. /\ n \in Nat /\ DOMAIN rules = 1 .. n /\ NumbersTo(C, n)
      /\ \A j \in 1 .. n : C[j] = RuleBytes(rules[j]) + ProjectedFor(rules[j])
  BY TotalsAre DEF TypesInv
<1>4. rule \in 1 .. n
  BY <1>1, <1>3
<1>5. copied \in Nat /\ renderWork \in Nat /\ copied <= renderWork
      /\ projected = SumTo(C, rule - 1)
  BY <1>1 DEF CopyPaid
<1>6. C[rule] = RuleBytes(r) + ProjectedFor(r)
  BY <1>3, <1>4
<1>7. RuleBytes(r) \in Nat /\ ProjectedFor(r) \in Nat
  BY <1>1, CopyRowIs DEF TypesInv, AreRules
<1>8. SUFFICES stage' = "checking" => projected' = SumTo(C', rule' - 1)
  BY <1>1, <1>5 DEF CopyPaid
<1> HIDE DEF C, n, r
<1>9. SumTo(C, rule) = SumTo(C, rule - 1) + C[rule] /\ SumTo(C, rule - 1) \in Nat
  BY <1>3, <1>4, SumStep
<1>10. rule' - 1 = rule
  BY <1>1, <1>4
<1>11. stage' = "checking" => projected' = SumTo(C, rule)
  BY <1>1, <1>5, <1>6, <1>7, <1>9
<1> QED
  BY <1>2, <1>10, <1>11

(* A finished check pays for all of it.                                    *)
LEMMA CopyFinished ==
  ASSUME TypesInv, ProgressInv, CopyPaid, FinishCheck, UNCHANGED <<options, document>>
  PROVE CopyPaid'
<1> DEFINE n == Len(rules)
           C == CopyTotals
<1>1. /\ rules' = rules /\ overrides' = overrides /\ rule' = 1 /\ position' = 0
      /\ rule \notin DOMAIN rules /\ stage = "checking" /\ stage' \in {"applying", "refused"}
      /\ copied' = copied
      /\ renderWork' = renderWork + projected \/ (renderWork' = renderWork /\ stage' = "refused")
  BY DEF FinishCheck, Go
<1>2. C' = C /\ SumOf(C)' = SumOf(C)
  BY <1>1, SameTotals
<1>3. /\ n \in Nat /\ DOMAIN rules = 1 .. n /\ NumbersTo(C, n) /\ SumOf(C) = SumTo(C, n)
  BY TotalsAre DEF TypesInv
<1>4. rule = n + 1
  BY <1>1, <1>3 DEF ProgressInv
<1>5. copied \in Nat /\ renderWork \in Nat /\ copied <= renderWork
      /\ projected = SumTo(C, rule - 1)
  BY <1>1 DEF CopyPaid
<1>6. CopiedHere' = 0
  BY <1>1 DEF CopiedHere
<1>7. SUFFICES
        /\ renderWork' \in Nat /\ copied' <= renderWork'
        /\ stage' = "applying" =>
             copied' + SumOf(C)' <= renderWork' + SumTo(C', rule' - 1) + CopiedHere'
  BY <1>1, <1>5 DEF CopyPaid
<1> HIDE DEF n, C
<1>8. SumTo(C, 0) = 0 /\ SumTo(C, n) \in Nat
  BY <1>3, SumStep
<1>9. rule - 1 = n /\ rule' - 1 = 0
  BY <1>1, <1>3, <1>4
<1>10. projected \in Nat /\ projected = SumTo(C, n)
  BY <1>5, <1>8, <1>9
<1>11. renderWork' \in Nat /\ copied' <= renderWork'
  BY <1>1, <1>5, <1>10
<1>12. stage' = "applying" => renderWork' = renderWork + SumTo(C, n)
  BY <1>1, <1>10
<1>13. copied + SumTo(C, n) <= renderWork + SumTo(C, n) + 0 + 0
  BY <1>5, <1>8
<1> QED
  BY <1>1, <1>2, <1>3, <1>6, <1>8, <1>9, <1>11, <1>12, <1>13

(* A rule is copied before it is edited.                                   *)
LEMMA CopyRulePaid ==
  ASSUME TypesInv, CheckedInv, ProgressInv, ComparePaid, CopyPaid, CopyRule,
         UNCHANGED <<options, document>>
  PROVE ComparePaid' /\ CopyPaid'
<1> DEFINE r == rules[rule]
           n == Len(rules)
           E == ExceptionsLeft(rules)
           T == CompareTotals
           C == CopyTotals
           b == RuleBytes(r)
           p == ProjectedFor(r)
<1>1. /\ rules' = rules /\ overrides' = overrides /\ rule' = rule /\ position' = 1 /\ position = 0
      /\ rule \in DOMAIN rules /\ stage = "applying" /\ stage' = "applying"
      /\ selectorWork' = selectorWork /\ compared' = compared /\ renderWork' = renderWork
      /\ copied' = copied + b
  BY DEF CopyRule
<1>2. /\ T' = T /\ C' = C /\ E' = E /\ SumOf(T)' = SumOf(T) /\ SumOf(C)' = SumOf(C)
      /\ CompareRow(r)' = CompareRow(r) /\ CopyRow(r)' = CopyRow(r)
  <2>1. T' = T /\ C' = C /\ E' = E /\ SumOf(T)' = SumOf(T) /\ SumOf(C)' = SumOf(C)
    BY <1>1, SameTotals
  <2>2. CompareRow(r)' = CompareRow(r)
    BY <1>1 DEF CompareRow, CompareUnits, ActionOverrides
  <2>3. CopyRow(r)' = CopyRow(r)
    BY <1>1 DEF CopyRow, CopyUnits, EditBound, ContentBound, ActionGrowth, FieldGrowth, ActionOverrides
  <2> QED
    BY <2>1, <2>2, <2>3
<1>3. /\ n \in Nat /\ DOMAIN rules = 1 .. n /\ NumbersTo(C, n) /\ SumOf(C) = SumTo(C, n)
      /\ \A j \in 1 .. n : C[j] = RuleBytes(rules[j]) + ProjectedFor(rules[j])
  BY TotalsAre DEF TypesInv
<1>4. IsRule(r) /\ AreOverrides(overrides) /\ rule \in 1 .. n
  BY <1>1, <1>3 DEF TypesInv, AreRules
<1>5. /\ NumbersTo(CompareRow(r), Len(overrides)) /\ Len(overrides) \in Nat
      /\ NumbersTo(CopyRow(r), Len(overrides)) /\ b \in Nat /\ p \in Nat
  BY <1>4, CompareRowIs, CopyRowIs
<1>6. ComparedHere' = SumTo(CompareRow(r)', 0) /\ CopiedHere' = b + SumTo(CopyRow(r)', 0)
  <2>1. b' = b
    BY <1>1
  <2> QED
    BY <1>1, <2>1 DEF ComparedHere, CopiedHere
<1>7. ComparedHere = 0 /\ CopiedHere = 0
  BY <1>1 DEF ComparedHere, CopiedHere
<1>8. /\ compared \in Nat /\ selectorWork \in Nat /\ compared <= selectorWork
      /\ compared + E + SumOf(T) <= selectorWork + SumTo(T, rule - 1) + ComparedHere
  BY <1>1 DEF ComparePaid
<1>9. /\ copied \in Nat /\ renderWork \in Nat /\ copied <= renderWork
      /\ copied + SumOf(C) <= renderWork + SumTo(C, rule - 1) + CopiedHere
  BY <1>1 DEF CopyPaid
<1>10. C[rule] = b + p
  BY <1>3, <1>4
<1>11. SUFFICES
         /\ compared' + E' + SumOf(T)' <= selectorWork' + SumTo(T', rule' - 1) + ComparedHere'
         /\ copied' \in Nat /\ copied' <= renderWork'
         /\ copied' + SumOf(C)' <= renderWork' + SumTo(C', rule' - 1) + CopiedHere'
  BY <1>1, <1>8, <1>9 DEF ComparePaid, CopyPaid
<1> HIDE DEF E, T, C, b, p, r, n
<1>12. SumTo(CompareRow(r), 0) = 0 /\ SumTo(CopyRow(r), 0) = 0
  BY <1>5, SumStep
<1>13. ComparedHere' = 0 /\ CopiedHere' = b
  BY <1>2, <1>5, <1>6, <1>12
<1>14. compared' + E' + SumOf(T)' <= selectorWork' + SumTo(T', rule' - 1) + ComparedHere'
  BY <1>1, <1>2, <1>7, <1>8, <1>13
<1>15. /\ SumTo(C, rule) = SumTo(C, rule - 1) + C[rule] /\ SumTo(C, rule - 1) \in Nat
       /\ SumTo(C, rule) <= SumTo(C, n) /\ SumTo(C, n) \in Nat
  <2>1. rule \in 0 .. n
    BY <1>3, <1>4
  <2> QED
    BY <1>3, <1>4, <2>1, SumStep, SumGrows
<1> DEFINE cn == SumTo(C, n)
           cj == SumTo(C, rule - 1)
<1>16. copied + cn <= renderWork + cj + 0 /\ cj + (b + p) <= cn /\ cn \in Nat /\ cj \in Nat
  BY <1>3, <1>7, <1>9, <1>10, <1>15
<1> HIDE DEF cn, cj
<1>17. copied + b \in Nat /\ copied + b <= renderWork /\ copied + b + cn <= renderWork + cj + b
  BY <1>5, <1>9, <1>16
<1>18. copied' \in Nat /\ copied' <= renderWork'
  BY <1>1, <1>17
<1>19. copied' + SumOf(C)' <= renderWork' + SumTo(C', rule' - 1) + CopiedHere'
  BY <1>1, <1>2, <1>3, <1>13, <1>17 DEF cn, cj
<1> QED
  BY <1>14, <1>18, <1>19

(* One override applied, or passed.                                        *)
LEMMA EditStepPaid ==
  ASSUME TypesInv, AppliedInv, CheckedInv, ProgressInv, ComparePaid, CopyPaid,
         PassOverride \/ OverrideRule \/ OverrideAction, stage' = "applying",
         UNCHANGED <<options, document>>
  PROVE ComparePaid' /\ CopyPaid'
<1> DEFINE r == rules[rule]
           n == Len(rules)
           m == Len(overrides)
           p == position
           E == ExceptionsLeft(rules)
           T == CompareTotals
           C == CopyTotals
           b == RuleBytes(r)
           R == CompareRow(r)
           S == CopyRow(r)
<1>0. /\ compared \in Nat /\ selectorWork \in Nat /\ compared <= selectorWork
      /\ copied \in Nat /\ renderWork \in Nat /\ copied <= renderWork
  BY DEF ComparePaid, CopyPaid
<1>1. /\ stage = "applying" /\ p \in 1 .. m /\ position' = p + 1
      /\ rule \in 1 .. n /\ rule' = rule /\ rules' = rules /\ overrides' = overrides
      /\ selectorWork' = selectorWork /\ renderWork' = renderWork
  BY <1>0, EditPaid
<1>2. PICK d \in Nat : compared' = compared + d /\ d <= CompareUnits(r, p)
  BY <1>0, EditPaid
<1>3. PICK g \in Nat : copied' = copied + g /\ g <= CopyUnits(r, p)
  BY <1>0, EditPaid
<1>4. /\ T' = T /\ C' = C /\ E' = E /\ SumOf(T)' = SumOf(T) /\ SumOf(C)' = SumOf(C)
      /\ R' = R /\ S' = S /\ b' = b
  <2>1. T' = T /\ C' = C /\ E' = E /\ SumOf(T)' = SumOf(T) /\ SumOf(C)' = SumOf(C)
    BY <1>1, SameTotals
  <2>2. R' = R
    BY <1>1 DEF CompareRow, CompareUnits, ActionOverrides
  <2>3. S' = S
    BY <1>1 DEF CopyRow, CopyUnits, EditBound, ContentBound, ActionGrowth, FieldGrowth, ActionOverrides
  <2> QED
    BY <1>1, <2>1, <2>2, <2>3
<1>5. /\ n \in Nat /\ DOMAIN rules = 1 .. n
      /\ NumbersTo(T, n) /\ SumOf(T) = SumTo(T, n)
      /\ NumbersTo(C, n) /\ SumOf(C) = SumTo(C, n)
      /\ \A j \in 1 .. n : /\ T[j] = SumOf(CompareRow(rules[j]))
                           /\ C[j] = RuleBytes(rules[j]) + ProjectedFor(rules[j])
  BY TotalsAre DEF TypesInv
<1>6. IsRule(r) /\ AreOverrides(overrides)
  BY <1>1, <1>5 DEF TypesInv, AreRules
<1>7. /\ m \in Nat /\ NumbersTo(R, m) /\ SumOf(R) = SumTo(R, m) /\ R[p] = CompareUnits(r, p)
      /\ SumOf(R) \in Nat
  BY <1>1, <1>6, CompareRowIs
<1>8. /\ NumbersTo(S, m) /\ ProjectedFor(r) = SumTo(S, m) /\ S[p] = CopyUnits(r, p) /\ b \in Nat
  BY <1>1, <1>6, CopyRowIs
<1>9. E \in Nat
  BY ExceptionsLeftNat DEF TypesInv
<1>10. /\ ComparedHere = SumTo(R, p - 1) /\ CopiedHere = b + SumTo(S, p - 1)
  BY <1>1 DEF ComparedHere, CopiedHere
<1>11. /\ ComparedHere' = SumTo(R', p + 1 - 1) /\ CopiedHere' = b' + SumTo(S', p + 1 - 1)
  BY <1>1 DEF ComparedHere, CopiedHere
<1>12. /\ compared + E + SumOf(T) <= selectorWork + SumTo(T, rule - 1) + ComparedHere
       /\ copied + SumOf(C) <= renderWork + SumTo(C, rule - 1) + CopiedHere
  BY <1>1 DEF ComparePaid, CopyPaid
<1>13. T[rule] = 0 + SumTo(R, m) /\ C[rule] = b + SumTo(S, m)
  <2>1. T[rule] = SumOf(R) /\ C[rule] = b + ProjectedFor(r)
    BY <1>1, <1>5
  <2> HIDE DEF T, R, C, S, b
  <2> QED
    BY <1>7, <1>8, <2>1
<1>14. SUFFICES
         /\ compared' \in Nat /\ compared' <= selectorWork
         /\ compared' + E' + SumOf(T)' <= selectorWork + SumTo(T', rule' - 1) + ComparedHere'
         /\ copied' \in Nat /\ copied' <= renderWork
         /\ copied' + SumOf(C)' <= renderWork + SumTo(C', rule' - 1) + CopiedHere'
  BY <1>0, <1>1 DEF ComparePaid, CopyPaid
<1>15. d <= R[p] /\ g <= S[p]
  BY <1>2, <1>3, <1>7, <1>8
<1> HIDE DEF r, n, m, p, E, T, C, b, R, S
<1>16. SumTo(R, p - 1) \in Nat /\ SumTo(R, p) \in Nat
  BY <1>1, <1>7, SumStep
<1>17. compared + E + SumTo(T, n) <= selectorWork + SumTo(T, rule - 1) + (0 + SumTo(R, p - 1))
  BY <1>5, <1>10, <1>12, <1>16
<1>18. /\ compared + d <= selectorWork
       /\ compared + d + E + SumTo(T, n) <= selectorWork + SumTo(T, rule - 1) + (0 + SumTo(R, p))
  BY <1>0, <1>1, <1>2, <1>5, <1>7, <1>9, <1>13, <1>15, <1>17, Underway, 0 \in Nat
<1>19. copied + 0 + SumTo(C, n) <= renderWork + SumTo(C, rule - 1) + (b + SumTo(S, p - 1))
  BY <1>0, <1>5, <1>10, <1>12
<1>20. /\ copied + g <= renderWork
       /\ copied + g + 0 + SumTo(C, n) <= renderWork + SumTo(C, rule - 1) + (b + SumTo(S, p))
  BY <1>0, <1>1, <1>3, <1>5, <1>7, <1>8, <1>13, <1>15, <1>19, Underway, 0 \in Nat
<1>21. p + 1 - 1 = p
  BY <1>1, <1>7
<1>22. compared' + E' + SumOf(T)' <= selectorWork + SumTo(T', rule' - 1) + ComparedHere'
  BY <1>1, <1>2, <1>4, <1>5, <1>11, <1>16, <1>18, <1>21
<1>23. copied' + SumOf(C)' <= renderWork + SumTo(C', rule' - 1) + CopiedHere'
  BY <1>0, <1>1, <1>3, <1>4, <1>5, <1>11, <1>20, <1>21
<1> QED
  BY <1>0, <1>2, <1>3, <1>18, <1>20, <1>22, <1>23

(* A rule that is done has cost its total.                                 *)
LEMMA CloseRulePaid ==
  ASSUME TypesInv, CheckedInv, ProgressInv, ComparePaid, CopyPaid, CloseRule,
         UNCHANGED <<options, document>>
  PROVE ComparePaid' /\ CopyPaid'
<1> DEFINE r == rules[rule]
           n == Len(rules)
           m == Len(overrides)
           E == ExceptionsLeft(rules)
           T == CompareTotals
           C == CopyTotals
           b == RuleBytes(r)
           R == CompareRow(r)
           S == CopyRow(r)
<1>1. /\ stage = "applying" /\ stage' = "applying" /\ position > 0 /\ position \notin DOMAIN overrides
      /\ position' = 0 /\ rule' = rule + 1 /\ rules' = rules /\ overrides' = overrides
      /\ selectorWork' = selectorWork /\ renderWork' = renderWork
      /\ compared' = compared /\ copied' = copied
  BY DEF CloseRule
<1>2. T' = T /\ C' = C /\ E' = E /\ SumOf(T)' = SumOf(T) /\ SumOf(C)' = SumOf(C)
  BY <1>1, SameTotals
<1>3. /\ n \in Nat /\ DOMAIN rules = 1 .. n
      /\ NumbersTo(T, n) /\ SumOf(T) = SumTo(T, n)
      /\ NumbersTo(C, n) /\ SumOf(C) = SumTo(C, n)
      /\ \A j \in 1 .. n : /\ T[j] = SumOf(CompareRow(rules[j]))
                           /\ C[j] = RuleBytes(rules[j]) + ProjectedFor(rules[j])
  BY TotalsAre DEF TypesInv
<1>4. IsRule(r) /\ AreOverrides(overrides) /\ rule \in 1 .. n
  BY <1>1, <1>3 DEF TypesInv, AreRules, CheckedInv
<1>5. /\ m \in Nat /\ DOMAIN overrides = 1 .. m /\ SumOf(R) = SumTo(R, m) /\ SumOf(R) \in Nat
  BY <1>4, CompareRowIs
<1>6. ProjectedFor(r) = SumTo(S, m) /\ b \in Nat /\ ProjectedFor(r) \in Nat
  BY <1>4, CopyRowIs
<1>7. position = m + 1
  BY <1>1, <1>5 DEF ProgressInv
<1>8. /\ ComparedHere = SumTo(R, position - 1) /\ CopiedHere = b + SumTo(S, position - 1)
      /\ ComparedHere' = 0 /\ CopiedHere' = 0
  BY <1>1 DEF ComparedHere, CopiedHere
<1>9. /\ compared \in Nat /\ selectorWork \in Nat /\ compared <= selectorWork
      /\ copied \in Nat /\ renderWork \in Nat /\ copied <= renderWork
      /\ compared + E + SumOf(T) <= selectorWork + SumTo(T, rule - 1) + ComparedHere
      /\ copied + SumOf(C) <= renderWork + SumTo(C, rule - 1) + CopiedHere
  BY <1>1 DEF ComparePaid, CopyPaid
<1>10. T[rule] = SumOf(R) /\ C[rule] = b + ProjectedFor(r)
  BY <1>3, <1>4
<1>11. SUFFICES
         /\ compared + E' + SumOf(T)' <= selectorWork + SumTo(T', rule' - 1) + ComparedHere'
         /\ copied + SumOf(C)' <= renderWork + SumTo(C', rule' - 1) + CopiedHere'
  BY <1>1, <1>9 DEF ComparePaid, CopyPaid
<1> HIDE DEF r, n, m, E, T, C, b, R, S
<1>12. /\ SumTo(T, rule) = SumTo(T, rule - 1) + T[rule] /\ SumTo(T, rule - 1) \in Nat
       /\ SumTo(C, rule) = SumTo(C, rule - 1) + C[rule] /\ SumTo(C, rule - 1) \in Nat
  BY <1>3, <1>4, SumStep
<1>13. position - 1 = m /\ rule' - 1 = rule
  BY <1>1, <1>4, <1>5, <1>7
<1>14. ComparedHere = SumOf(R) /\ CopiedHere = b + ProjectedFor(r)
  BY <1>5, <1>6, <1>8, <1>13
<1>15. /\ SumTo(T, rule) = SumTo(T, rule - 1) + ComparedHere
       /\ SumTo(C, rule) = SumTo(C, rule - 1) + CopiedHere
  BY <1>10, <1>12, <1>14
<1>16. ComparedHere \in Nat /\ CopiedHere \in Nat
  BY <1>5, <1>6, <1>14
<1>17. /\ selectorWork + SumTo(T, rule - 1) + ComparedHere = selectorWork + SumTo(T, rule) + 0
       /\ renderWork + SumTo(C, rule - 1) + CopiedHere = renderWork + SumTo(C, rule) + 0
  BY <1>9, <1>12, <1>15, <1>16
<1> QED
  BY <1>2, <1>8, <1>9, <1>13, <1>17

(* What is kept is compared with exceptions at no greater cost.            *)
LEMMA FinishOverridesPaid ==
  ASSUME TypesInv, ProgressInv, ComparePaid, CopyPaid, FinishOverrides,
         UNCHANGED <<options, document>>
  PROVE ComparePaid' /\ CopyPaid'
<1> DEFINE n == Len(rules)
           E == ExceptionsLeft(rules)
           K == ExceptionsLeft(kept)
           T == CompareTotals
<1>1. /\ stage = "applying" /\ position = 0 /\ rule \notin DOMAIN rules
      /\ rules' = kept /\ stage' = "mutations"
      /\ selectorWork' = selectorWork /\ renderWork' = renderWork
      /\ compared' = compared /\ copied' = copied
  BY DEF FinishOverrides
<1>2. /\ n \in Nat /\ DOMAIN rules = 1 .. n /\ NumbersTo(T, n) /\ SumOf(T) = SumTo(T, n)
  BY TotalsAre DEF TypesInv
<1>3. rule = n + 1 /\ Len(kept) < rule /\ TagsOf(kept) <= SumTo(RuleTags, rule - 1)
  BY <1>1, <1>2 DEF ProgressInv
<1>4. K \in Nat /\ E \in Nat /\ K <= E
  <2>1. rule - 1 = n
    BY <1>2, <1>3
  <2>2. TagsOf(rules) = SumTo(RuleTags, n) /\ Len(kept) \in Nat
    BY RuleTagsAre, TagsOfIs DEF TypesInv
  <2>3. Len(kept) <= Len(rules) /\ TagsOf(kept) <= TagsOf(rules)
    BY <1>2, <1>3, <2>1, <2>2
  <2> QED
    BY <2>3, ExceptionsLeftIs DEF TypesInv
<1>5. ExceptionsLeft(rules)' = K
  BY <1>1 DEF ExceptionsLeft, locals
<1>6. ComparedHere = 0
  BY <1>1 DEF ComparedHere
<1>7. /\ compared \in Nat /\ selectorWork \in Nat /\ compared <= selectorWork
      /\ copied \in Nat /\ renderWork \in Nat /\ copied <= renderWork
      /\ compared + E + SumOf(T) <= selectorWork + SumTo(T, rule - 1) + ComparedHere
  BY <1>1 DEF ComparePaid, CopyPaid
<1>8. SUFFICES compared + ExceptionsLeft(rules)' <= selectorWork
  BY <1>1, <1>7 DEF ComparePaid, CopyPaid
<1> HIDE DEF n, E, K, T
<1>9. SumTo(T, n) \in Nat /\ rule - 1 = n
  BY <1>2, <1>3, SumStep
<1>10. compared + E + SumTo(T, n) <= selectorWork + SumTo(T, n) + 0
  BY <1>2, <1>6, <1>7, <1>9
<1>11. compared + K <= selectorWork
  BY <1>4, <1>7, <1>9, <1>10
<1> QED
  BY <1>5, <1>11

(* No overrides, nothing to pay.                                           *)
LEMMA SkipOverridesPaid ==
  ASSUME ComparePaid, CopyPaid, SkipOverrides, UNCHANGED <<options, document>>
  PROVE ComparePaid' /\ CopyPaid'
<1>1. /\ stage = "overrides" /\ stage' = "mutations" /\ rules' = rules
      /\ selectorWork' = selectorWork /\ renderWork' = renderWork
      /\ compared' = compared /\ copied' = copied
  BY DEF SkipOverrides
<1>2. ExceptionsLeft(rules)' = ExceptionsLeft(rules)
  BY <1>1 DEF ExceptionsLeft, locals
<1> QED
  BY <1>1, <1>2 DEF ComparePaid, CopyPaid

(* Overrides.                                                              *)
LEMMA OverridesPaid ==
  ASSUME TypesInv, AppliedInv, CheckedInv, ProgressInv, ComparePaid, CopyPaid,
         [Next]_vars, OverrideStep, UNCHANGED <<options, document>>
  PROVE ComparePaid' /\ CopyPaid'
<1>1. CASE SkipOverrides
  BY <1>1, SkipOverridesPaid
<1>2. CASE ReserveSelectors
  <2>1. ComparePaid'
    BY <1>2, CompareReserved
  <2>2. CopyPaid'
    <3>1. /\ copied' = copied /\ renderWork' = renderWork /\ projected' = 0 /\ rule' = 1
          /\ stage' \in {"checking", "refused"} /\ rules' = rules /\ overrides' = overrides
      BY <1>2 DEF ReserveSelectors, Go
    <3>2. SumTo(CopyTotals, 0) = 0 /\ CopyTotals' = CopyTotals
      <4>1. Len(rules) \in Nat /\ NumbersTo(CopyTotals, Len(rules))
        BY TotalsAre DEF TypesInv
      <4> QED
        BY <3>1, <4>1, SumStep, SameTotals
    <3>3. rule' - 1 = 0
      BY <3>1
    <3> QED
      BY <3>1, <3>2, <3>3 DEF CopyPaid
  <2> QED
    BY <2>1, <2>2
<1>3. CASE CheckRule
  BY <1>3, CompareChecked, CopyChecked
<1>4. CASE FinishCheck
  BY <1>4, CompareFinished, CopyFinished
<1>5. CASE CopyRule
  BY <1>5, CopyRulePaid
<1>6. CASE PassOverride \/ OverrideRule \/ OverrideAction
  <2>1. stage' \in {"applying", "refused"} \/ stage' = stage
    BY <1>6 DEF PassOverride, OverrideRule, OverrideAction, AtOverride, Go
  <2>2. stage = "applying"
    BY <1>6 DEF PassOverride, OverrideRule, OverrideAction, AtOverride
  <2>3. stage' = "applying"
    BY <2>1, <2>2, NotRefused
  <2> QED
    BY <1>6, <2>3, EditStepPaid
<1>7. CASE CloseRule
  BY <1>7, CloseRulePaid
<1>8. CASE FinishOverrides
  BY <1>8, FinishOverridesPaid
<1> QED
  BY <1>1, <1>2, <1>3, <1>4, <1>5, <1>6, <1>7, <1>8 DEF OverrideStep

-----------------------------------------------------------------------------
\* The options make the document no larger than was reserved.

Reasons(es) == SumOf([i \in DOMAIN es |-> Len(es[i].reason)])

(* The reasons of exceptions, summed up.                                   *)
LEMMA ReasonsAre ==
  ASSUME NEW es, AreExceptions(es)
  PROVE LET f == [i \in DOMAIN es |-> Len(es[i].reason)]
        IN /\ Len(es) \in Nat /\ DOMAIN es = 1 .. Len(es) /\ Listed(es)
           /\ NumbersTo(f, Len(es)) /\ Reasons(es) = SumTo(f, Len(es)) /\ Reasons(es) \in Nat
           /\ \A i \in 1 .. Len(es) : Len(es[i].reason) \in Nat
<1> DEFINE f == [i \in DOMAIN es |-> Len(es[i].reason)]
<1>1. Listed(es) /\ \A i \in DOMAIN es : Len(es[i].reason) \in Nat
  BY ListIs DEF AreExceptions, IsException
<1>2. f = [i \in DOMAIN es |-> f[i]] /\ (\A i \in DOMAIN es : f[i] \in Nat) /\ Reasons(es) = SumOf(f)
  BY <1>1 DEF Reasons
<1> HIDE DEF f
<1>3. /\ Len(es) \in Nat /\ DOMAIN es = 1 .. Len(es)
      /\ NumbersTo(f, Len(es)) /\ SumOf(f) = SumTo(f, Len(es)) /\ SumOf(f) \in Nat
  BY <1>1, <1>2, MapSum
<1> QED
  BY <1>1, <1>2, <1>3 DEF f

(* Those of the manifest and the local ones.                               *)
LEMMA ReasonsJoined ==
  ASSUME NEW s, NEW t, AreExceptions(s), AreExceptions(t)
  PROVE Reasons(s \o t) = Reasons(s) + Reasons(t) /\ Len(s \o t) = Len(s) + Len(t)
<1> DEFINE u == s \o t
           f == [i \in DOMAIN s |-> Len(s[i].reason)]
           g == [i \in DOMAIN t |-> Len(t[i].reason)]
           h == [i \in DOMAIN u |-> Len(u[i].reason)]
           m == Len(s)
           n == Len(t)
<1>1. m \in Nat /\ DOMAIN s = 1 .. m /\ NumbersTo(f, m) /\ Reasons(s) = SumTo(f, m) /\ Listed(s)
  BY ReasonsAre
<1>2. n \in Nat /\ DOMAIN t = 1 .. n /\ NumbersTo(g, n) /\ Reasons(t) = SumTo(g, n) /\ Listed(t)
  BY ReasonsAre
<1>3. AreExceptions(u)
  BY ConcatExceptions
<1>4. /\ Len(u) = m + n
      /\ \A i \in 1 .. m : u[i] = s[i]
      /\ \A i \in 1 .. n : u[m + i] = t[i]
  BY <1>1, <1>2, ListConcat
<1>5. DOMAIN u = 1 .. Len(u) /\ Reasons(u) = SumTo(h, Len(u))
  BY <1>3, ReasonsAre
<1> HIDE DEF u, m, n
<1>6. \A i \in 1 .. m : h[i] = f[i]
  <2>1. \A i \in 1 .. m : i \in DOMAIN u
    BY <1>1, <1>2, <1>4, <1>5
  <2> QED
    BY <1>1, <1>4, <2>1
<1>7. \A i \in 1 .. n : h[m + i] = g[i]
  <2>1. \A i \in 1 .. n : m + i \in DOMAIN u
    BY <1>1, <1>2, <1>4, <1>5
  <2> QED
    BY <1>2, <1>4, <2>1
<1> HIDE DEF f, g, h
<1>8. SumTo(h, m + n) = SumTo(f, m) + SumTo(g, n)
  BY <1>1, <1>2, <1>6, <1>7, SumConcat
<1> QED
  BY <1>1, <1>2, <1>4, <1>5, <1>8 DEF u, m, n

(* An exception is one byte and its reason.                                *)
LEMMA ExceptionBytesSum ==
  ASSUME NEW es, AreExceptions(es)
  PROVE SumOf([i \in DOMAIN es |-> ExceptionBytes(es[i])]) = Len(es) + Reasons(es)
<1> DEFINE n == Len(es)
           f == [i \in DOMAIN es |-> Len(es[i].reason)]
           one == [i \in DOMAIN es |-> 1]
           h == [i \in DOMAIN es |-> ExceptionBytes(es[i])]
<1>1. /\ n \in Nat /\ DOMAIN es = 1 .. n /\ NumbersTo(f, n) /\ Reasons(es) = SumTo(f, n)
      /\ Listed(es) /\ \A i \in 1 .. n : Len(es[i].reason) \in Nat
  BY ReasonsAre
<1>2. \A i \in 1 .. n : f[i] = Len(es[i].reason) /\ one[i] = 1 /\ h[i] = ExceptionBytes(es[i])
  BY <1>1
<1>3. \A i \in 1 .. n : ExceptionBytes(es[i]) = 1 + Len(es[i].reason)
  BY DEF ExceptionBytes
<1>4. h = [i \in DOMAIN es |-> h[i]]
  OBVIOUS
<1> HIDE DEF f, one, h
<1>5. \A i \in 1 .. n : h[i] = one[i] + f[i]
  BY <1>2, <1>3
<1>6. NumbersTo(one, n) /\ SumTo(one, n) = n
  <2>1. \A i \in 1 .. n : one[i] = 1
    BY <1>2
  <2>2. NumbersTo(one, n)
    BY <2>1 DEF NumbersTo
  <2> QED
    BY <1>1, <2>1, <2>2, SumOnes
<1>7. SumTo(h, n) = SumTo(one, n) + SumTo(f, n)
  BY <1>1, <1>5, <1>6, SumPlus
<1>8. \A i \in DOMAIN es : h[i] \in Nat
  <2> SUFFICES ASSUME NEW i \in 1 .. n PROVE h[i] \in Nat
    BY <1>1
  <2>1. h[i] = 1 + Len(es[i].reason) /\ Len(es[i].reason) \in Nat
    BY <1>1, <1>2, <1>3
  <2> QED
    BY <2>1
<1>9. SumOf(h) = SumTo(h, n)
  BY <1>1, <1>4, <1>8, MapSum
<1> QED
  BY <1>1, <1>6, <1>7, <1>9 DEF h, n

(* A value written as a default takes what was reserved for it.            *)
LEMMA PinnedBytes ==
  ASSUME NEW vs, Listed(vs), \A i \in DOMAIN vs : IsVariable(vs[i]), AreTexts(values),
         NEW us, us = [i \in DOMAIN vs |-> PinnedVariable(vs[i], options.pin, values)] \/ us = vs
  PROVE /\ SumOf([i \in DOMAIN us |-> OptionalBytes(us[i].default)])
             <= SumOf([i \in DOMAIN vs |-> OptionalBytes(vs[i].default)])
                  + SumOf([i \in DOMAIN vs |-> PinBytes(vs[i])])
        /\ SumOf([i \in DOMAIN vs |-> PinBytes(vs[i])]) \in Nat
        /\ SumOf([i \in DOMAIN us |-> OptionalBytes(us[i].default)]) \in Nat
        /\ SumOf([i \in DOMAIN vs |-> OptionalBytes(vs[i].default)]) \in Nat
        /\ Len(us) = Len(vs)
<1> DEFINE n == Len(vs)
           P(i) == PinBytes(vs[i])
           O(i) == OptionalBytes(vs[i].default)
           Q(i) == OptionalBytes(us[i].default)
           f == [i \in DOMAIN us |-> Q(i)]
           g == [i \in DOMAIN vs |-> O(i)]
           h == [i \in DOMAIN vs |-> P(i)]
<1>1. n \in Nat /\ DOMAIN vs = 1 .. n /\ DOMAIN us = 1 .. n
  BY ListIs
<1>2. Listed(us) /\ Len(us) = n
  <2>1. us = [i \in 1 .. n |-> us[i]]
    <3>1. vs = [i \in 1 .. n |-> vs[i]]
      BY ListIs
    <3>2. CASE us = vs
      BY <3>1, <3>2
    <3>3. CASE us = [i \in DOMAIN vs |-> PinnedVariable(vs[i], options.pin, values)]
      BY <1>1, <3>3
    <3> QED
      BY <3>2, <3>3
  <2> HIDE DEF n
  <2> QED
    BY <1>1, <2>1, IsList
<1>3. ASSUME NEW i \in 1 .. n
      PROVE P(i) \in Nat /\ O(i) \in Nat /\ Q(i) \in Nat /\ Q(i) <= O(i) + P(i)
  <2> DEFINE v == vs[i]
             written == options.pin /\ v.name \in DOMAIN values
  <2>1. DOMAIN v = {"name", "default", "required"} /\ \A t \in v.default : Listed(t)
    BY <1>1 DEF IsVariable, IsOptional
  <2>2. O(i) \in Nat
    BY <2>1, OptionalBytesIs
  <2>3. CASE written /\ us[i] = PinnedVariable(v, options.pin, values)
    <3> DEFINE t == values[v.name]
               u == [v EXCEPT !.default = {t}, !.required = FALSE]
    <3>1. us[i] = u
      BY <2>3 DEF PinnedVariable
    <3>2. Listed(t)
      BY <2>3 DEF AreTexts
    <3>3. P(i) = 1 + Len(t)
      BY <2>3 DEF PinBytes
    <3> HIDE DEF t, v
    <3>4. u.default = {t}
      BY <2>1
    <3>5. OptionalBytes({t}) = Len(t) /\ Len(t) \in Nat
      BY <3>2, OptionalBytesIs, ListIs
    <3> HIDE DEF u
    <3>6. Q(i) = Len(t)
      BY <3>1, <3>4, <3>5
    <3> HIDE DEF P, O, Q
    <3> QED
      BY <2>2, <3>3, <3>5, <3>6
  <2>4. CASE ~(written /\ us[i] = PinnedVariable(v, options.pin, values))
    <3>1. us[i] = v
      BY <1>1, <2>4 DEF PinnedVariable
    <3>2. Q(i) = O(i)
      BY <3>1
    <3>3. P(i) \in Nat
      <4>1. CASE written
        <5>1. Len(values[v.name]) \in Nat
          BY <4>1, ListIs DEF AreTexts
        <5> QED
          BY <4>1, <5>1 DEF PinBytes
      <4>2. CASE ~written
        BY <4>2 DEF PinBytes
      <4> QED
        BY <4>1, <4>2
    <3> HIDE DEF P, O, Q
    <3> QED
      BY <2>2, <3>2, <3>3
  <2> QED
    BY <2>3, <2>4
<1> HIDE DEF P, O, Q
<1>4. /\ f = [i \in DOMAIN us |-> f[i]] /\ g = [i \in DOMAIN vs |-> g[i]]
      /\ h = [i \in DOMAIN vs |-> h[i]]
      /\ \A i \in 1 .. n : f[i] = Q(i) /\ g[i] = O(i) /\ h[i] = P(i)
  BY <1>1
<1> HIDE DEF f, g, h
<1>5. \A i \in 1 .. n : f[i] \in Nat /\ g[i] \in Nat /\ h[i] \in Nat /\ f[i] <= g[i] + h[i]
  BY <1>3, <1>4
<1>6. NumbersTo(g, n) /\ SumOf(g) = SumTo(g, n) /\ SumOf(g) \in Nat
  BY <1>1, <1>4, <1>5, MapSum
<1>7. NumbersTo(h, n) /\ SumOf(h) = SumTo(h, n) /\ SumOf(h) \in Nat
  BY <1>1, <1>4, <1>5, MapSum
<1>8. NumbersTo(f, n) /\ SumOf(f) = SumTo(f, n) /\ SumOf(f) \in Nat
  <2>1. NumbersTo(f, Len(us)) /\ SumOf(f) = SumTo(f, Len(us)) /\ SumOf(f) \in Nat
    BY <1>1, <1>2, <1>4, <1>5, MapSum
  <2> QED
    BY <1>2, <2>1
<1>9. SumTo(f, n) <= SumTo(g, n) + SumTo(h, n)
  BY <1>1, <1>5, <1>6, <1>7, <1>8, SumsBelow
<1> QED
  BY <1>2, <1>6, <1>7, <1>8, <1>9 DEF f, g, h, P, O, Q, n

(* There are n numbers up to n.                                            *)
LEMMA CountTo ==
  ASSUME NEW n \in Nat
  PROVE Cardinality(1 .. n) = n
<1>1. Cardinality(1 .. n) = IF 1 > n THEN 0 ELSE n - 1 + 1
  BY FS_Interval
<1> QED
  BY <1>1

(* A forced mode is one part more.                                         *)
LEMMA ForcedBytes ==
  ASSUME NEW r, NEW m, IsRule(r)
  PROVE RuleBytes([r EXCEPT !.settings.mode = m]) <= RuleBytes(r) + 1
<1> DEFINE q == [r EXCEPT !.settings.mode = m]
           c == IF "content" \in r.parts THEN ContentBytes(r.when, r.actions) ELSE 0
           a == IF r.settings.mode = "" THEN 0 ELSE 1
           b == IF q.settings.mode = "" THEN 0 ELSE 1
<1>1. q.parts = r.parts /\ q.when = r.when /\ q.actions = r.actions
  BY ForcedRule
<1>2. RuleBytes(r) = 1 + a + c
  BY DEF RuleBytes
<1> HIDE DEF q
<1>3. RuleBytes(q) = 1 + b + c
  BY <1>1 DEF RuleBytes
<1>4. c \in Nat
  BY ContentBytesNat DEF IsRule
<1>5. a \in {0, 1} /\ b \in {0, 1}
  OBVIOUS
<1> HIDE DEF a, b, c
<1>6. RuleBytes(q) <= RuleBytes(r) + 1
  BY <1>2, <1>3, <1>4, <1>5
<1> QED
  BY <1>6 DEF q

(* A forced mode is that for every rule.                                   *)
LEMMA RulesForced ==
  ASSUME NEW rs, NEW qs, AreRules(rs), AreRules(qs), Len(qs) = Len(rs), NEW forced \in BOOLEAN,
         \A j \in DOMAIN rs :
           qs[j] = rs[j] \/ (forced /\ \E m : qs[j] = [rs[j] EXCEPT !.settings.mode = m])
  PROVE /\ SumOf([j \in DOMAIN qs |-> RuleBytes(qs[j])])
             <= SumOf([j \in DOMAIN rs |-> RuleBytes(rs[j])]) + (IF forced THEN Len(rs) ELSE 0)
        /\ SumOf([j \in DOMAIN qs |-> RuleBytes(qs[j])]) \in Nat
        /\ SumOf([j \in DOMAIN rs |-> RuleBytes(rs[j])]) \in Nat
<1> DEFINE n == Len(rs)
           f == [j \in DOMAIN qs |-> RuleBytes(qs[j])]
           g == [j \in DOMAIN rs |-> RuleBytes(rs[j])]
           S == IF forced THEN 1 .. n ELSE {}
           one == [j \in 1 .. n |-> IF j \in S THEN 1 ELSE 0]
<1>1. n \in Nat /\ DOMAIN rs = 1 .. n /\ NumbersTo(g, n) /\ SumOf(g) = SumTo(g, n) /\ SumOf(g) \in Nat
  BY RuleSums
<1>2. DOMAIN qs = 1 .. n /\ NumbersTo(f, n) /\ SumOf(f) = SumTo(f, n) /\ SumOf(f) \in Nat
  BY RuleSums
<1>3. ASSUME NEW j \in 1 .. n
      PROVE f[j] <= g[j] + one[j]
  <2>1. f[j] = RuleBytes(qs[j]) /\ g[j] = RuleBytes(rs[j])
    BY <1>1, <1>2
  <2>2. f[j] \in Nat /\ g[j] \in Nat
    BY <1>1, <1>2 DEF NumbersTo
  <2>3. CASE qs[j] = rs[j]
    <3>1. f[j] = g[j]
      BY <2>1, <2>3
    <3>2. one[j] \in {0, 1}
      OBVIOUS
    <3> HIDE DEF f, g, one
    <3> QED
      BY <2>2, <3>1, <3>2
  <2>4. CASE forced /\ \E m : qs[j] = [rs[j] EXCEPT !.settings.mode = m]
    <3>1. PICK m : qs[j] = [rs[j] EXCEPT !.settings.mode = m]
      BY <2>4
    <3>2. IsRule(rs[j])
      BY <1>1 DEF AreRules
    <3>3. RuleBytes(qs[j]) <= RuleBytes(rs[j]) + 1
      BY <3>1, <3>2, ForcedBytes
    <3>4. one[j] = 1
      BY <2>4
    <3> HIDE DEF f, g, one
    <3> QED
      BY <2>1, <3>3, <3>4
  <2> QED
    BY <1>1, <2>3, <2>4
<1>4. NumbersTo(one, n) /\ SumTo(one, n) = 1 * Cardinality(S)
  <2>1. S \in SUBSET (1 .. n) /\ \A k \in 1 .. n : one[k] = IF k \in S THEN 1 ELSE 0
    OBVIOUS
  <2> HIDE DEF S, one, n
  <2> QED
    BY <1>1, <2>1, SumCount
<1>5. Cardinality(S) = IF forced THEN n ELSE 0
  <2>1. CASE forced
    <3> HIDE DEF n
    <3>2. Cardinality(1 .. n) = n
      BY <1>1, CountTo
    <3> QED
      BY <2>1, <3>2 DEF n
  <2>2. CASE ~forced
    BY <2>2, FS_EmptySet
  <2> QED
    BY <2>1, <2>2
<1> HIDE DEF f, g, one, S, n
<1>6. SumTo(f, n) <= SumTo(g, n) + SumTo(one, n)
  BY <1>1, <1>2, <1>3, <1>4, SumsBelow
<1>7. SumTo(one, n) = IF forced THEN n ELSE 0
  <2>1. CASE forced
    BY <1>1, <1>4, <1>5, <2>1
  <2>2. CASE ~forced
    BY <1>4, <1>5, <2>2
  <2> QED
    BY <2>1, <2>2
<1>8. SumOf(f) <= SumOf(g) + (IF forced THEN n ELSE 0)
  BY <1>1, <1>2, <1>6, <1>7
<1> QED
  BY <1>1, <1>2, <1>8 DEF f, g, n

\* The parts of a size.
VariableBytes(vs) == SumOf([i \in DOMAIN vs |-> OptionalBytes(vs[i].default)])
OverridesBytes(os) == SumOf([i \in DOMAIN os |-> ReplacementBytes(os[i])])
RulesBytes(rs) == SumOf([j \in DOMAIN rs |-> RuleBytes(rs[j])])
ModePart(d) == IF d.mode = "" THEN 0 ELSE 1

(* A size is the sum of its parts.                                         *)
LEMMA DocumentParts ==
  ASSUME NEW d, NEW rs, IsDocument(d), AreRules(rs)
  PROVE /\ Len(d.title) \in Nat /\ OptionalBytes(d.commit) \in Nat /\ VariableBytes(d.variables) \in Nat
        /\ OverridesBytes(d.overrides) \in Nat /\ Reasons(d.exceptions) \in Nat
        /\ BytesOf(d.groups) \in Nat /\ Len(d.variables) \in Nat /\ Len(d.overrides) \in Nat
        /\ Len(d.exceptions) \in Nat /\ ModePart(d) \in {0, 1} /\ RulesBytes(rs) \in Nat
        /\ DocumentBytes(d, rs) =
             Len(d.title) + OptionalBytes(d.commit) + VariableBytes(d.variables)
               + OverridesBytes(d.overrides) + Reasons(d.exceptions) + BytesOf(d.groups)
               + Len(d.variables) + Len(d.overrides) + Len(d.exceptions) + ModePart(d) + RulesBytes(rs)
<1>1. /\ Len(d.title) \in Nat /\ OptionalBytes(d.commit) \in Nat /\ VariableBytes(d.variables) \in Nat
      /\ OverridesBytes(d.overrides) \in Nat /\ Reasons(d.exceptions) \in Nat
  BY TextSums DEF VariableBytes, OverridesBytes, Reasons
<1>2. BytesOf(d.groups) \in Nat
  BY BytesOfNat DEF IsDocument
<1>3. Len(d.variables) \in Nat /\ Len(d.overrides) \in Nat /\ Len(d.exceptions) \in Nat
  BY ListIs DEF IsDocument, AreOverrides, AreExceptions
<1>4. ModePart(d) \in {0, 1}
  BY DEF ModePart
<1>5. RulesBytes(rs) \in Nat
  BY RuleSums DEF RulesBytes
<1>6. TextBytes(d) = Len(d.title) + OptionalBytes(d.commit) + VariableBytes(d.variables)
                       + OverridesBytes(d.overrides) + Reasons(d.exceptions)
  BY DEF TextBytes, VariableBytes, OverridesBytes, Reasons
<1>7. DocumentBytes(d, rs) =
        TextBytes(d) + BytesOf(d.groups) + Len(d.variables) + Len(d.overrides) + Len(d.exceptions)
          + ModePart(d) + RulesBytes(rs)
  BY DEF DocumentBytes, ModePart, RulesBytes
<1> QED
  BY <1>1, <1>2, <1>3, <1>4, <1>5, <1>6, <1>7, Zenon

(* The parts of what the options may add.                                  *)
LEMMA GrowthParts ==
  ASSUME TypesInv
  PROVE LET p == OptionalBytes(options.commit)
            e == SumOf([i \in DOMAIN document.variables |-> PinBytes(document.variables[i])])
            s == IF options.mode = {} THEN 0 ELSE 1
            b == IF \E m \in options.mode : m.force THEN Len(rules) ELSE 0
        IN /\ p \in Nat /\ e \in Nat /\ s \in Nat /\ b \in Nat
           /\ Len(locals) \in Nat /\ Reasons(locals) \in Nat
           /\ OptionGrowth = (Len(locals) + Reasons(locals)) + (s + b) + e + p
           /\ OptionGrowth \in Nat
<1> DEFINE p == OptionalBytes(options.commit)
           e == SumOf([i \in DOMAIN document.variables |-> PinBytes(document.variables[i])])
           s == IF options.mode = {} THEN 0 ELSE 1
           b == IF \E m \in options.mode : m.force THEN Len(rules) ELSE 0
           x == SumOf([i \in DOMAIN locals |-> ExceptionBytes(locals[i])])
<1>1. AreExceptions(locals) /\ \A t \in options.commit : Listed(t)
  BY DEF TypesInv, IsOptions, IsOptional, locals
<1>2. p \in Nat
  BY <1>1, OptionalBytesIs
<1>3. e \in Nat
  <2>1. /\ Listed(document.variables) /\ \A i \in DOMAIN document.variables : IsVariable(document.variables[i])
        /\ AreTexts(values)
    BY DEF TypesInv, IsDocument
  <2> QED
    BY <2>1, PinnedBytes
<1>4. s \in Nat
  OBVIOUS
<1>5. b \in Nat
  BY ListIs DEF TypesInv, AreRules
<1>6. Len(locals) \in Nat /\ Reasons(locals) \in Nat /\ x = Len(locals) + Reasons(locals)
  BY <1>1, ReasonsAre, ExceptionBytesSum
<1>7. ModeBytes = s + b
  <2>1. CASE options.mode = {}
    <3>1. b = 0 /\ ModeBytes = 0 /\ s = 0
      BY <2>1 DEF ModeBytes
    <3> HIDE DEF b, s
    <3> QED
      BY <3>1
  <2>2. CASE options.mode # {}
    <3>1. ModeBytes = 1 + b /\ s = 1
      BY <2>2 DEF ModeBytes
    <3> QED
      BY <3>1
  <2> QED
    BY <2>1, <2>2
<1>8. OptionGrowth = x + ModeBytes + e + p
  BY DEF OptionGrowth
<1> HIDE DEF p, e, s, b, x
<1>9. OptionGrowth = (Len(locals) + Reasons(locals)) + (s + b) + e + p
  BY <1>6, <1>7, <1>8
<1>10. OptionGrowth \in Nat
  BY <1>2, <1>3, <1>4, <1>5, <1>6, <1>9, PlusNat, Zenon
<1> QED
  BY <1>2, <1>3, <1>4, <1>5, <1>6, <1>9, <1>10 DEF p, e, s, b

(* With the options worked in, the document has grown by what was          *)
(* projected at most (admission.rs:126).                                   *)
LEMMA DocumentGrown ==
  ASSUME TypesInv, ApplyOptions
  PROVE /\ DocumentBytes(document', rules') <= DocumentBytes(document, rules) + OptionGrowth
        /\ DocumentBytes(document', rules') \in Nat /\ DocumentBytes(document, rules) \in Nat
        /\ OptionGrowth \in Nat
<1> DEFINE d == document
           n == document'
           w == [i \in DOMAIN d.variables |-> PinnedVariable(d.variables[i], options.pin, values)]
           p == OptionalBytes(options.commit)
           e == SumOf([i \in DOMAIN d.variables |-> PinBytes(d.variables[i])])
           s == IF options.mode = {} THEN 0 ELSE 1
           b == IF \E m \in options.mode : m.force THEN Len(rules) ELSE 0
           q == Reasons(locals)
           a == Len(locals)
<1>1. IsDocument(d) /\ IsDocument(n) /\ AreRules(rules) /\ AreRules(rules') /\ Len(rules') = Len(rules)
  BY ApplyOptionsTypes DEF TypesInv
<1>2. OptionsApplied
  BY ApplyOptionsIs
<1>3. /\ p \in Nat /\ e \in Nat /\ s \in Nat /\ b \in Nat /\ a \in Nat /\ q \in Nat
      /\ OptionGrowth = (a + q) + (s + b) + e + p /\ OptionGrowth \in Nat
  BY GrowthParts
<1>4. /\ n.title = d.title /\ n.groups = d.groups
      /\ n.variables = w \/ n.variables = d.variables
      /\ n.overrides = d.overrides \/ n.overrides = <<>>
      /\ n.exceptions = d.exceptions \o locals
      /\ n.commit = IF options.commit = {} THEN d.commit ELSE options.commit
      /\ options.mode = {} => n.mode = d.mode
  <2>1. /\ IsDocument(Extended) /\ Extended.title = d.title
        /\ Extended.variables = d.variables /\ Extended.overrides = d.overrides
        /\ Extended.groups = d.groups /\ Extended.exceptions = d.exceptions \o locals
        /\ Extended.commit = IF options.commit = {} THEN d.commit ELSE options.commit
        /\ options.mode = {} => Extended.mode = d.mode
    BY <1>1, ExtendedIs DEF TypesInv
  <2>2. /\ Pinned(Extended).title = Extended.title /\ Pinned(Extended).groups = Extended.groups
        /\ Pinned(Extended).exceptions = Extended.exceptions
        /\ Pinned(Extended).commit = Extended.commit /\ Pinned(Extended).mode = Extended.mode
        /\ Pinned(Extended).overrides = <<>> /\ Pinned(Extended).variables = w
    <3>1. AreTexts(values)
      BY DEF TypesInv
    <3> QED
      BY <2>1, <3>1, PinnedIs
  <2>3. n = Pinned(Extended) \/ n = Extended
    BY <1>2 DEF OptionsApplied
  <2> HIDE DEF n, d, w
  <2> QED
    BY <2>1, <2>2, <2>3, Zenon
<1>5. VariableBytes(n.variables) <= VariableBytes(d.variables) + e /\ Len(n.variables) = Len(d.variables)
  <2>1. /\ Listed(d.variables) /\ \A i \in DOMAIN d.variables : IsVariable(d.variables[i])
        /\ AreTexts(values)
    BY <1>1 DEF TypesInv, IsDocument
  <2> QED
    BY <1>4, <2>1, PinnedBytes DEF VariableBytes
<1>6. OptionalBytes(n.commit) <= OptionalBytes(d.commit) + p
  <2>1. OptionalBytes(d.commit) \in Nat
    BY <1>1, DocumentParts
  <2>2. OptionalBytes(n.commit) \in {OptionalBytes(d.commit), p}
    BY <1>4
  <2> HIDE DEF p, n, d
  <2> QED
    BY <1>3, <2>1, <2>2
<1>7. OverridesBytes(n.overrides) <= OverridesBytes(d.overrides) /\ Len(n.overrides) <= Len(d.overrides)
  <2>1. OverridesBytes(d.overrides) \in Nat /\ Len(d.overrides) \in Nat
    BY <1>1, DocumentParts
  <2>2. OverridesBytes(<<>>) = 0 /\ Len(<<>>) = 0
    <3> DEFINE none == <<>>
               f == [i \in DOMAIN none |-> ReplacementBytes(none[i])]
    <3>1. Listed(none) /\ Len(none) = 0 /\ DOMAIN none = {}
      BY EmptyTypes DEF AreRules
    <3>2. f = [i \in DOMAIN none |-> f[i]] /\ \A i \in DOMAIN none : f[i] \in Nat
      BY <3>1
    <3> HIDE DEF none, f
    <3>3. NumbersTo(f, Len(none)) /\ SumOf(f) = SumTo(f, Len(none))
      BY <3>1, <3>2, MapSum
    <3>4. SumOf(f) = 0
      BY <3>1, <3>3, SumStep
    <3> QED
      BY <3>1, <3>4 DEF OverridesBytes, f, none
  <2>3. CASE n.overrides = d.overrides
    BY <2>1, <2>3
  <2>4. CASE n.overrides = <<>>
    BY <2>1, <2>2, <2>4
  <2> QED
    BY <1>4, <2>3, <2>4
<1>8. Reasons(n.exceptions) = Reasons(d.exceptions) + q /\ Len(n.exceptions) = Len(d.exceptions) + a
  <2>1. AreExceptions(d.exceptions) /\ AreExceptions(locals)
    BY DEF TypesInv, IsDocument, IsOptions, locals
  <2> QED
    BY <1>4, <2>1, ReasonsJoined
<1>9. ModePart(n) <= ModePart(d) + s
  <2>1. ModePart(n) \in {0, 1} /\ ModePart(d) \in {0, 1}
    BY DEF ModePart
  <2>2. CASE options.mode = {}
    <3>1. ModePart(n) = ModePart(d)
      BY <1>4, <2>2 DEF ModePart
    <3> HIDE DEF n, d, s
    <3> QED
      BY <1>3, <2>1, <3>1
  <2>3. CASE options.mode # {}
    <3>1. s = 1
      BY <2>3
    <3> QED
      BY <2>1, <3>1
  <2> QED
    BY <2>2, <2>3
<1>10. RulesBytes(rules') <= RulesBytes(rules) + b
  <2> DEFINE forced == \E m \in options.mode : m.force
             qs == rules'
  <2>1. forced \in BOOLEAN
    OBVIOUS
  <2>2. \A j \in DOMAIN rules :
          qs[j] = rules[j] \/ (forced /\ \E m : qs[j] = [rules[j] EXCEPT !.settings.mode = m])
    BY <1>2, Zenon DEF OptionsApplied
  <2>3. AreRules(qs) /\ Len(qs) = Len(rules) /\ AreRules(rules)
    BY <1>1
  <2>4. b = IF forced THEN Len(rules) ELSE 0
    OBVIOUS
  <2> HIDE DEF forced, qs, b
  <2>5. RulesBytes(qs) <= RulesBytes(rules) + b
    BY <2>1, <2>2, <2>3, <2>4, RulesForced DEF RulesBytes
  <2> QED
    BY <2>5 DEF qs
<1>11. /\ Len(n.title) \in Nat /\ OptionalBytes(n.commit) \in Nat /\ VariableBytes(n.variables) \in Nat
       /\ OverridesBytes(n.overrides) \in Nat /\ Reasons(n.exceptions) \in Nat
       /\ BytesOf(n.groups) \in Nat /\ Len(n.variables) \in Nat /\ Len(n.overrides) \in Nat
       /\ Len(n.exceptions) \in Nat /\ ModePart(n) \in {0, 1} /\ RulesBytes(rules') \in Nat
       /\ DocumentBytes(n, rules') =
            Len(d.title) + OptionalBytes(n.commit) + VariableBytes(n.variables)
              + OverridesBytes(n.overrides) + Reasons(n.exceptions) + BytesOf(d.groups)
              + Len(d.variables) + Len(n.overrides) + Len(n.exceptions) + ModePart(n) + RulesBytes(rules')
  BY <1>1, <1>4, <1>5, DocumentParts
<1>12. /\ Len(d.title) \in Nat /\ OptionalBytes(d.commit) \in Nat /\ VariableBytes(d.variables) \in Nat
       /\ OverridesBytes(d.overrides) \in Nat /\ Reasons(d.exceptions) \in Nat
       /\ BytesOf(d.groups) \in Nat /\ Len(d.variables) \in Nat /\ Len(d.overrides) \in Nat
       /\ Len(d.exceptions) \in Nat /\ ModePart(d) \in {0, 1} /\ RulesBytes(rules) \in Nat
       /\ DocumentBytes(d, rules) =
            Len(d.title) + OptionalBytes(d.commit) + VariableBytes(d.variables)
              + OverridesBytes(d.overrides) + Reasons(d.exceptions) + BytesOf(d.groups)
              + Len(d.variables) + Len(d.overrides) + Len(d.exceptions) + ModePart(d) + RulesBytes(rules)
  BY <1>1, DocumentParts
<1>13. DocumentBytes(n, rules') \in Nat /\ DocumentBytes(d, rules) \in Nat
  BY <1>1, DocumentBytesNat
<1> DEFINE A == Len(d.title)
           B == OptionalBytes(d.commit)
           C == VariableBytes(d.variables)
           D == OverridesBytes(d.overrides)
           E == Reasons(d.exceptions)
           F == BytesOf(d.groups)
           G == Len(d.variables)
           H == Len(d.overrides)
           I == Len(d.exceptions)
           J == ModePart(d)
           K == RulesBytes(rules)
           Bn == OptionalBytes(n.commit)
           Cn == VariableBytes(n.variables)
           Dn == OverridesBytes(n.overrides)
           En == Reasons(n.exceptions)
           Hn == Len(n.overrides)
           In == Len(n.exceptions)
           Jn == ModePart(n)
           Kn == RulesBytes(rules')
           X == DocumentBytes(d, rules)
           Y == DocumentBytes(n, rules')
<1> HIDE DEF n, d, w, p, e, s, b, q, a
<1>14. /\ A \in Nat /\ B \in Nat /\ C \in Nat /\ D \in Nat /\ E \in Nat /\ F \in Nat /\ G \in Nat
       /\ H \in Nat /\ I \in Nat /\ J \in {0, 1} /\ K \in Nat
       /\ X = A + B + C + D + E + F + G + H + I + J + K
  BY <1>12, Zenon
<1>15. /\ Bn \in Nat /\ Cn \in Nat /\ Dn \in Nat /\ En \in Nat
       /\ Hn \in Nat /\ In \in Nat /\ Jn \in {0, 1} /\ Kn \in Nat
       /\ Y = A + Bn + Cn + Dn + En + F + G + Hn + In + Jn + Kn
  BY <1>11, Zenon
<1>16. /\ Bn <= B + p /\ Cn <= C + e /\ Dn <= D /\ En = E + q /\ Hn <= H /\ In = I + a
       /\ Jn <= J + s /\ Kn <= K + b
  BY <1>5, <1>6, <1>7, <1>8, <1>9, <1>10, Zenon
<1> HIDE DEF A, B, C, D, E, F, G, H, I, J, K, Bn, Cn, Dn, En, Hn, In, Jn, Kn, X, Y
<1>17. Y <= X + OptionGrowth
  BY <1>3, <1>14, <1>15, <1>16
<1> QED
  BY <1>3, <1>13, <1>17 DEF n, d, X, Y

-----------------------------------------------------------------------------
\* The stages around the overrides.

\* Where nothing is reserved for what is still to come.
QuietStages == {"admission", "shape", "exceptions", "loading", "done", "refused"}

(* There it is enough that what was done is paid.                          *)
LEMMA QuietPaid ==
  ASSUME compared' \in Nat, selectorWork' \in Nat, compared' <= selectorWork',
         copied' \in Nat, renderWork' \in Nat, copied' <= renderWork', stage' \in QuietStages
  PROVE ComparePaid' /\ CopyPaid'
<1>1. stage' \notin {"variables", "strings", "contents", "overrides", "mutations", "options",
                     "checking", "applying", "document", "writing"}
  BY DEF QuietStages
<1>2. ComparePaid'
  BY <1>1 DEF ComparePaid
<1>3. CopyPaid'
  BY <1>1 DEF CopyPaid
<1> QED
  BY <1>2, <1>3

\* The exceptions as they come with a request.
HeadUnits == ExceptionUnits(head.exceptions \o locals, manifest.rules)

(* What they are compared with first is a number.                          *)
LEMMA HeadUnitsNat ==
  ASSUME TypesInv
  PROVE HeadUnits \in Nat
<1> DEFINE es == head.exceptions \o locals
<1>1. AreExceptions(es) /\ AreRules(manifest.rules)
  BY ConcatExceptions DEF TypesInv, IsDocument, IsOptions, locals, head
<1>2. Len(manifest.rules) \in Nat /\ TagsOf(manifest.rules) \in Nat
  BY <1>1, TagsOfIs
<1>3. Len(manifest.rules) <= Len(manifest.rules) /\ TagsOf(manifest.rules) <= TagsOf(manifest.rules)
  BY <1>2
<1> HIDE DEF es
<1>4. ExceptionUnits(es, manifest.rules) \in Nat
  BY <1>1, <1>3, ExceptionUnitsBelow
<1> QED
  BY <1>4 DEF HeadUnits, es

(* Exceptions are paid for with the rules as decoded.                      *)
LEMMA ReserveExceptionsPaid ==
  ASSUME TypesInv, ComparePaid, CopyPaid, ReserveExceptions
  PROVE ComparePaid' /\ CopyPaid'
<1>1. /\ stage' \in {"variables", "refused"} /\ compared' = compared /\ copied' = copied
      /\ renderWork' = renderWork /\ manifest' = manifest /\ options' = options
      /\ selectorWork' = selectorWork + HeadUnits
  BY DEF ReserveExceptions, Go, HeadUnits, requestVars, spentVars
<1>2. HeadUnits \in Nat /\ HeadUnits' = HeadUnits
  BY <1>1, HeadUnitsNat DEF HeadUnits, head, locals
<1>3. compared \in Nat /\ selectorWork \in Nat /\ compared <= selectorWork
  BY DEF ComparePaid
<1>4. compared' \in Nat /\ selectorWork' \in Nat /\ compared' <= selectorWork'
      /\ compared' + HeadUnits' <= selectorWork'
  BY <1>1, <1>2, <1>3
<1>5. ComparePaid'
  BY <1>1, <1>4 DEF ComparePaid, HeadUnits
<1>6. CopyPaid'
  BY <1>1 DEF CopyPaid
<1> QED
  BY <1>5, <1>6

(* Resolving variables compares and copies nothing.                        *)
LEMMA ResolveVariablesPaid ==
  ASSUME ComparePaid, CopyPaid, ResolveVariables
  PROVE ComparePaid' /\ CopyPaid'
<1>1. /\ stage = "variables" /\ stage' \in {"strings", "refused"} /\ compared' = compared
      /\ copied' = copied /\ selectorWork' = selectorWork
      /\ renderWork' = renderWork /\ manifest' = manifest /\ options' = options
  BY DEF ResolveVariables, Go, requestVars, spentVars
<1>2. HeadUnits' = HeadUnits
  BY <1>1 DEF HeadUnits, head, locals
<1>3. ComparePaid'
  BY <1>1, <1>2 DEF ComparePaid, HeadUnits
<1>4. CopyPaid'
  BY <1>1 DEF CopyPaid
<1> QED
  BY <1>3, <1>4

(* Exceptions that select the same are compared with the same rules.       *)
LEMMA SelectingSame ==
  ASSUME NEW es, NEW ds, NEW ls, AreExceptions(es), AreExceptions(ds), AreExceptions(ls),
         Len(ds) = Len(es),
         \A i \in DOMAIN es : ds[i].ids = es[i].ids /\ ds[i].names = es[i].names /\ ds[i].tags = es[i].tags,
         NEW rs, AreRules(rs)
  PROVE ExceptionUnits(ds \o ls, rs) \in Nat /\ ExceptionUnits(ds \o ls, rs) <= ExceptionUnits(es \o ls, rs)
<1> DEFINE a == es \o ls
           b == ds \o ls
           m == Len(es)
           n == Len(ls)
<1>1. m \in Nat /\ n \in Nat /\ DOMAIN es = 1 .. m /\ DOMAIN ls = 1 .. n /\ Listed(es) /\ Listed(ds) /\ Listed(ls)
  BY ListIs DEF AreExceptions
<1>2. AreExceptions(a) /\ AreExceptions(b)
  BY ConcatExceptions
<1>3. /\ Len(a) = m + n /\ (\A i \in 1 .. m : a[i] = es[i]) /\ (\A i \in 1 .. n : a[m + i] = ls[i])
  BY <1>1, ListConcat
<1>4. /\ Len(b) = m + n /\ (\A i \in 1 .. m : b[i] = ds[i]) /\ (\A i \in 1 .. n : b[m + i] = ls[i])
  BY <1>1, ListConcat
<1>5. DOMAIN a = 1 .. Len(a)
  BY <1>2, ListIs DEF AreExceptions
<1> HIDE DEF a, b, m, n
<1>6. ASSUME NEW i \in DOMAIN a
      PROVE b[i].ids = a[i].ids /\ b[i].names = a[i].names /\ b[i].tags = a[i].tags
  <2>1. CASE i \in 1 .. m
    <3>1. a[i] = es[i] /\ b[i] = ds[i] /\ i \in DOMAIN es
      BY <1>1, <1>3, <1>4, <2>1
    <3> QED
      BY <3>1
  <2>2. CASE i \notin 1 .. m
    <3>1. i - m \in 1 .. n /\ i = m + (i - m)
      BY <1>1, <1>3, <1>5, <2>2
    <3>2. a[i] = ls[i - m] /\ b[i] = ls[i - m]
      BY <1>3, <1>4, <3>1
    <3> QED
      BY <3>2
  <2> QED
    BY <2>1, <2>2
<1>7. Len(rs) <= Len(rs) /\ TagsOf(rs) <= TagsOf(rs)
  <2>1. Len(rs) \in Nat /\ TagsOf(rs) \in Nat
    BY TagsOfIs
  <2> QED
    BY <2>1
<1>8. Len(b) = Len(a)
  BY <1>3, <1>4
<1>9. ExceptionUnits(b, rs) \in Nat /\ ExceptionUnits(b, rs) <= ExceptionUnits(a, rs)
  BY <1>2, <1>6, <1>7, <1>8, ExceptionUnitsBelow
<1> QED
  BY <1>9 DEF a, b

(* Texts are rendered in exceptions, selectors are not.                    *)
LEMMA RenderedSelectors ==
  ASSUME NEW d, NEW vs, IsDocument(d), AreTexts(vs)
  PROVE LET es == RenderedManifest(d, vs).exceptions
        IN /\ AreExceptions(es) /\ AreExceptions(d.exceptions) /\ Len(es) = Len(d.exceptions)
           /\ \A i \in DOMAIN d.exceptions :
                es[i].ids = d.exceptions[i].ids /\ es[i].names = d.exceptions[i].names
                  /\ es[i].tags = d.exceptions[i].tags
<1> DEFINE es == RenderedManifest(d, vs).exceptions
           n == Len(d.exceptions)
<1>1. es = [i \in DOMAIN d.exceptions |-> RenderedException(d.exceptions[i], vs)]
  BY DEF RenderedManifest, IsDocument
<1>2. AreExceptions(es) /\ AreExceptions(d.exceptions)
  BY RenderedManifestType DEF IsDocument
<1>3. n \in Nat /\ DOMAIN d.exceptions = 1 .. n
  BY <1>2, ListIs DEF AreExceptions
<1>4. es = [i \in 1 .. n |-> es[i]]
  BY <1>1, <1>3
<1>5. Len(es) = n
  <2> HIDE DEF es, n
  <2> QED
    BY <1>3, <1>4, IsList
<1>6. ASSUME NEW i \in DOMAIN d.exceptions
      PROVE es[i].ids = d.exceptions[i].ids /\ es[i].names = d.exceptions[i].names
              /\ es[i].tags = d.exceptions[i].tags
  <2> DEFINE e == d.exceptions[i]
  <2>1. es[i] = RenderedException(e, vs)
    BY <1>1
  <2>2. DOMAIN e = {"name", "ids", "names", "tags", "expires", "reason"}
    BY <1>2 DEF AreExceptions, IsException
  <2> HIDE DEF e
  <2>3. RenderedException(e, vs).ids = e.ids /\ RenderedException(e, vs).names = e.names
        /\ RenderedException(e, vs).tags = e.tags
    BY <2>2 DEF RenderedException
  <2> QED
    BY <2>1, <2>3 DEF e
<1> QED
  BY <1>2, <1>5, <1>6

(* Rendered texts are paid for as long as they became.                     *)
LEMMA RenderStringsPaid ==
  ASSUME TypesInv, ComparePaid, CopyPaid, RenderStrings
  PROVE ComparePaid' /\ CopyPaid'
<1> DEFINE d == RenderedManifest(head, values)
           ok == AllRender(ManifestTexts(head), values)
           bytes == IF ok THEN TextBytes(d) ELSE 0
<1>1. /\ stage = "strings" /\ stage' \in {"contents", "refused"} /\ compared' = compared
      /\ selectorWork' = selectorWork /\ manifest' = manifest /\ options' = options
      /\ stage' = "contents" => ok
      /\ document' = IF ok THEN d ELSE head
      /\ renderWork' = renderWork + bytes
      /\ copied' = copied + (IF stage' = "refused" THEN 0 ELSE bytes)
  BY DEF RenderStrings, Go, requestVars
<1>2. IsDocument(head) /\ AreTexts(values) /\ AreExceptions(locals) /\ AreRules(manifest.rules)
  BY DEF TypesInv, IsOptions, head, locals
<1>3. bytes \in Nat
  <2>1. IsDocument(d)
    BY <1>2, RenderedManifestType
  <2> HIDE DEF d
  <2> QED
    BY <2>1, TextBytesNat
<1>4. copied \in Nat /\ renderWork \in Nat /\ copied <= renderWork
  BY DEF CopyPaid
<1>5. compared \in Nat /\ selectorWork \in Nat /\ compared <= selectorWork
      /\ compared + HeadUnits <= selectorWork
  BY <1>1 DEF ComparePaid, HeadUnits
<1>6. CopyPaid'
  <2> HIDE DEF bytes
  <2>1. copied' \in Nat /\ renderWork' \in Nat /\ copied' <= renderWork'
    BY <1>1, <1>3, <1>4
  <2> QED
    BY <1>1, <2>1 DEF CopyPaid
<1>7. ASSUME stage' = "contents"
      PROVE compared' + ExceptionsLeft(manifest.rules)' <= selectorWork'
  <2> DEFINE es == d.exceptions
             left == ExceptionUnits(es \o locals, manifest.rules)
  <2>1. ExceptionsLeft(manifest.rules)' = left
    BY <1>1, <1>7 DEF ExceptionsLeft, locals
  <2>2. /\ AreExceptions(es) /\ AreExceptions(head.exceptions) /\ Len(es) = Len(head.exceptions)
        /\ \A i \in DOMAIN head.exceptions :
             es[i].ids = head.exceptions[i].ids /\ es[i].names = head.exceptions[i].names
               /\ es[i].tags = head.exceptions[i].tags
    BY <1>2, RenderedSelectors
  <2> HIDE DEF es, d
  <2>3. left \in Nat /\ left <= HeadUnits
    BY <1>2, <2>2, SelectingSame DEF HeadUnits
  <2>4. HeadUnits \in Nat
    BY HeadUnitsNat
  <2> HIDE DEF left
  <2>5. compared + left <= selectorWork
    BY <1>5, <2>3, <2>4
  <2> QED
    BY <1>1, <2>1, <2>5
<1>8. ComparePaid'
  BY <1>1, <1>5, <1>7 DEF ComparePaid
<1> QED
  BY <1>6, <1>8

(* The bytes of rules written anew.                                        *)
LEMMA WrittenWorkNat ==
  ASSUME NEW qs, AreRules(qs)
  PROVE SumOf([j \in DOMAIN qs |-> WrittenWork(qs[j])]) \in Nat
<1> DEFINE f == [j \in DOMAIN qs |-> WrittenWork(qs[j])]
<1>1. Listed(qs)
  BY DEF AreRules
<1>2. \A j \in DOMAIN qs : WrittenWork(qs[j]) \in Nat
  <2> SUFFICES ASSUME NEW j \in DOMAIN qs PROVE WrittenWork(qs[j]) \in Nat
    OBVIOUS
  <2>1. IsContent(qs[j].when, qs[j].actions)
    BY DEF AreRules, IsRule
  <2> QED
    BY <2>1, NestedWorkNat DEF WrittenWork
<1>3. f = [j \in DOMAIN qs |-> f[j]] /\ \A j \in DOMAIN qs : f[j] \in Nat
  BY <1>2
<1> HIDE DEF f
<1>4. SumOf(f) \in Nat
  BY <1>1, <1>3, MapSum
<1> QED
  BY <1>4 DEF f

(* So are contents, and no exception is compared with more rules.          *)
LEMMA RenderContentsPaid ==
  ASSUME TypesInv, ComparePaid, CopyPaid, RenderContents
  PROVE ComparePaid' /\ CopyPaid'
<1> DEFINE qs == [j \in DOMAIN manifest.rules |-> Written(manifest.rules[j])]
           groups == RenderedTexts(head.groups, values)
           work == SumOf([j \in DOMAIN qs |-> WrittenWork(qs[j])])
<1>1. /\ stage = "contents" /\ stage' \in {"overrides", "refused"} /\ compared' = compared
      /\ selectorWork' = selectorWork /\ options' = options
      /\ stage' = "overrides" => document' = [document EXCEPT !.groups = groups] /\ rules' = qs
      /\ \E bytes \in {0, work + 4 * BytesOf(groups)} :
           /\ renderWork' = renderWork + bytes
           /\ copied' = copied + (IF stage' = "refused" THEN 0 ELSE bytes)
  BY DEF RenderContents, Go, requestVars
<1>2. /\ AreRules(manifest.rules) /\ AreTexts(values) /\ IsDocument(document)
      /\ Listed(head.groups) /\ AreTexts(head.groups)
  BY DEF TypesInv, IsDocument, head
<1>3. AreRules(qs) /\ Len(qs) = Len(manifest.rules) /\ DOMAIN qs = DOMAIN manifest.rules
  BY <1>2, RenderContentsRules
<1>4. work \in Nat
  <2> HIDE DEF qs
  <2> QED
    BY <1>3, WrittenWorkNat
<1>5. BytesOf(groups) \in Nat
  <2>1. Listed(groups) /\ AreTexts(groups)
    <3> DEFINE n == Len(head.groups)
    <3>1. n \in Nat /\ DOMAIN head.groups = 1 .. n
      BY <1>2, ListIs
    <3>2. groups = [i \in 1 .. n |-> groups[i]]
      BY <3>1 DEF RenderedTexts
    <3>3. \A i \in DOMAIN groups : Listed(groups[i])
      BY <1>2, SubstituteList DEF RenderedTexts, AreTexts
    <3> HIDE DEF groups, n
    <3>4. Listed(groups)
      BY <3>1, <3>2, IsList
    <3> QED
      BY <3>3, <3>4 DEF AreTexts
  <2> HIDE DEF groups
  <2> QED
    BY <2>1, BytesOfNat
<1>6. copied \in Nat /\ renderWork \in Nat /\ copied <= renderWork
  BY DEF CopyPaid
<1>7. CopyPaid'
  <2> HIDE DEF work, groups, qs
  <2>1. PICK bytes \in {0, work + 4 * BytesOf(groups)} :
           /\ renderWork' = renderWork + bytes
           /\ copied' = copied + (IF stage' = "refused" THEN 0 ELSE bytes)
    BY <1>1
  <2>2. bytes \in Nat
    <3>1. 4 * BytesOf(groups) \in Nat
      BY <1>5
    <3> QED
      BY <1>4, <3>1
  <2>3. copied' \in Nat /\ renderWork' \in Nat /\ copied' <= renderWork'
    BY <1>6, <2>1, <2>2
  <2> QED
    BY <1>1, <2>3 DEF CopyPaid
<1>8. compared \in Nat /\ selectorWork \in Nat /\ compared <= selectorWork
      /\ compared + ExceptionsLeft(manifest.rules) <= selectorWork
  BY <1>1 DEF ComparePaid
<1>9. ASSUME stage' = "overrides"
      PROVE compared' + ExceptionsLeft(rules)' <= selectorWork'
  <2>1. document'.exceptions = document.exceptions
    <3>1. document' = [document EXCEPT !.groups = groups]
      BY <1>1, <1>9
    <3> HIDE DEF groups
    <3> QED
      BY <1>2, <3>1 DEF IsDocument
  <2>2. rules' = qs
    BY <1>1, <1>9
  <2>3. ExceptionsLeft(rules)' = ExceptionsLeft(qs)
    <3> HIDE DEF qs
    <3> QED
      BY <1>1, <2>1, <2>2 DEF ExceptionsLeft, locals
  <2>4. TagsOf(qs) = TagsOf(manifest.rules)
    <3>1. ASSUME NEW j \in DOMAIN manifest.rules PROVE qs[j].tags = manifest.rules[j].tags
      <4>1. IsRule(manifest.rules[j])
        BY <1>2 DEF AreRules
      <4>2. qs[j] = Written(manifest.rules[j])
        OBVIOUS
      <4> HIDE DEF qs
      <4>3. Written(manifest.rules[j]).tags = manifest.rules[j].tags
        BY <1>2, <4>1, RenderedRuleType DEF Written
      <4> QED
        BY <4>2, <4>3
    <3> HIDE DEF qs
    <3> QED
      BY <1>2, <1>3, <3>1, SameTags
  <2> HIDE DEF qs
  <2>5. Len(qs) \in Nat /\ TagsOf(qs) \in Nat
    BY <1>3, TagsOfIs
  <2>6. Len(qs) <= Len(manifest.rules) /\ TagsOf(qs) <= TagsOf(manifest.rules)
    BY <1>3, <2>4, <2>5
  <2>7. ExceptionsLeft(qs) \in Nat /\ ExceptionsLeft(manifest.rules) \in Nat
          /\ ExceptionsLeft(qs) <= ExceptionsLeft(manifest.rules)
    BY <1>2, <1>3, <2>6, ExceptionsLeftIs
  <2>8. compared + ExceptionsLeft(qs) <= selectorWork
    BY <1>8, <2>7
  <2> QED
    BY <1>1, <2>3, <2>8
<1>10. ComparePaid'
  BY <1>1, <1>8, <1>9 DEF ComparePaid
<1> QED
  BY <1>7, <1>10

(* The options are paid for as far as they may grow the document,          *)
LEMMA ReserveMutationsPaid ==
  ASSUME TypesInv, ComparePaid, CopyPaid, ReserveMutations
  PROVE ComparePaid' /\ CopyPaid'
<1> DEFINE D == DocumentBytes(document, rules)
           G == OptionGrowth
<1>1. /\ stage = "mutations" /\ stage' \in {"options", "refused"} /\ compared' = compared
      /\ copied' = copied /\ selectorWork' = selectorWork /\ options' = options /\ values' = values
      /\ document' = document /\ rules' = rules /\ renderWork' = renderWork + G + 4 * (D + G)
  BY DEF ReserveMutations, Go, requestVars, spentVars
<1>2. D \in Nat /\ G \in Nat
  BY DocumentBytesNat, GrowthParts DEF TypesInv
<1>3. ExceptionsLeft(rules)' = ExceptionsLeft(rules)
  BY <1>1 DEF ExceptionsLeft, locals
<1>4. OptionGrowth' = G /\ DocumentBytes(document, rules)' = D
  <2>1. OptionGrowth' = G
    BY <1>1 DEF OptionGrowth, ModeBytes, PinBytes, locals
  <2> QED
    BY <1>1, <2>1
<1>5. copied \in Nat /\ renderWork \in Nat /\ copied <= renderWork
  BY DEF CopyPaid
<1> HIDE DEF D, G
<1>6. copied' \in Nat /\ renderWork' \in Nat /\ copied' <= renderWork'
      /\ copied' + G + 4 * (D + G) <= renderWork'
  BY <1>1, <1>2, <1>5
<1>7. CopyPaid'
  BY <1>1, <1>4, <1>6 DEF CopyPaid
<1>8. ComparePaid'
  BY <1>1, <1>3 DEF ComparePaid
<1> QED
  BY <1>7, <1>8

(* and grow it no further.                                                 *)
LEMMA ApplyOptionsPaid ==
  ASSUME TypesInv, ComparePaid, CopyPaid, ApplyOptions
  PROVE ComparePaid' /\ CopyPaid'
<1> DEFINE D == DocumentBytes(document, rules)
           N == DocumentBytes(document', rules')
           G == OptionGrowth
<1>1. /\ stage = "options" /\ stage' = "document" /\ compared' = compared
      /\ copied' = copied + G /\ selectorWork' = selectorWork /\ renderWork' = renderWork
  BY DEF ApplyOptions
<1>2. IsDocument(document) /\ IsOptions(options) /\ AreTexts(values) /\ AreRules(rules)
      /\ AreRules(rules') /\ Len(rules') = Len(rules) /\ DOMAIN rules' = DOMAIN rules
  BY ApplyOptionsTypes DEF TypesInv
<1>3. D \in Nat /\ N \in Nat /\ G \in Nat /\ N <= D + G
  BY DocumentGrown
<1>4. CopyPaid'
  <2>1. copied \in Nat /\ renderWork \in Nat /\ copied + G + 4 * (D + G) <= renderWork
    BY <1>1 DEF CopyPaid
  <2>2. DocumentBytes(document, rules)' = N
    OBVIOUS
  <2> HIDE DEF D, N, G
  <2>3. copied' \in Nat /\ renderWork' \in Nat /\ copied' <= renderWork' /\ copied' + 4 * N <= renderWork'
    BY <1>1, <1>3, <2>1
  <2> QED
    BY <1>1, <2>2, <2>3 DEF CopyPaid
<1>5. document'.exceptions = document.exceptions \o locals
  <2>1. document' = IF options.pin THEN Pinned(Extended) ELSE Extended
    BY ApplyOptionsIs DEF OptionsApplied
  <2>2. IsDocument(Extended) /\ Extended.exceptions = document.exceptions \o locals
    BY <1>2, ExtendedIs
  <2>3. Pinned(Extended).exceptions = Extended.exceptions
    BY <1>2, <2>2, PinnedIs
  <2> QED
    BY <2>1, <2>2, <2>3, Zenon
<1>6. TagsOf(rules') = TagsOf(rules)
  <2>1. ASSUME NEW j \in DOMAIN rules PROVE rules'[j].tags = rules[j].tags
    <3>1. rules'[j] = rules[j] \/ \E m : rules'[j] = [rules[j] EXCEPT !.settings.mode = m]
      BY ApplyOptionsIs, Zenon DEF OptionsApplied
    <3>2. IsRule(rules[j])
      BY <1>2 DEF AreRules
    <3>3. CASE \E m : rules'[j] = [rules[j] EXCEPT !.settings.mode = m]
      <4>1. PICK m : rules'[j] = [rules[j] EXCEPT !.settings.mode = m]
        BY <3>3
      <4> QED
        BY <3>2, <4>1, ForcedRule
    <3> QED
      BY <3>1, <3>3
  <2> DEFINE qs == rules'
  <2>2. AreRules(qs) /\ Len(qs) = Len(rules) /\ \A j \in DOMAIN rules : qs[j].tags = rules[j].tags
    BY <1>2, <2>1
  <2> HIDE DEF qs
  <2>3. TagsOf(qs) = TagsOf(rules)
    BY <1>2, <2>2, SameTags
  <2> QED
    BY <2>3 DEF qs
<1>7. ComparePaid'
  <2> DEFINE qs == rules'
             left == ExceptionsLeft(qs)
  <2>1. compared \in Nat /\ selectorWork \in Nat /\ compared <= selectorWork
        /\ compared + ExceptionsLeft(rules) <= selectorWork
    BY <1>1 DEF ComparePaid
  <2>2. AreRules(qs) /\ Len(qs) = Len(rules) /\ TagsOf(qs) = TagsOf(rules)
    BY <1>2, <1>6
  <2>3. ExceptionUnits(document.exceptions, rules)' = left
    <3>1. ExceptionUnits(document.exceptions, rules)' = ExceptionUnits(document'.exceptions, qs)
      OBVIOUS
    <3> QED
      BY <1>5, <3>1 DEF ExceptionsLeft
  <2> HIDE DEF qs
  <2>4. Len(qs) \in Nat /\ TagsOf(qs) \in Nat
    BY <2>2, TagsOfIs
  <2>5. Len(qs) <= Len(rules) /\ TagsOf(qs) <= TagsOf(rules)
    BY <2>2, <2>4
  <2>6. left \in Nat /\ ExceptionsLeft(rules) \in Nat /\ left <= ExceptionsLeft(rules)
    BY <1>2, <2>2, <2>5, ExceptionsLeftIs
  <2> HIDE DEF left
  <2>7. compared' + left <= selectorWork'
    BY <1>1, <2>1, <2>6
  <2> QED
    BY <1>1, <2>1, <2>3, <2>7 DEF ComparePaid
<1> QED
  BY <1>4, <1>7

(* The exceptions are compared once, as reserved.                          *)
LEMMA CheckDocumentPaid ==
  ASSUME TypesInv, ComparePaid, CopyPaid, CheckDocument
  PROVE ComparePaid' /\ CopyPaid'
<1> DEFINE x == ExceptionUnits(document.exceptions, rules)
<1>1. /\ stage = "document" /\ stage' \in {"writing", "refused"} /\ compared' = compared + x
      /\ copied' = copied /\ selectorWork' = selectorWork /\ renderWork' = renderWork
      /\ document' = document /\ rules' = rules
  BY DEF CheckDocument, Go
<1>2. x \in Nat
  <2>1. AreExceptions(document.exceptions) /\ AreRules(rules)
    BY DEF TypesInv, IsDocument
  <2>2. Len(rules) \in Nat /\ TagsOf(rules) \in Nat
    BY <2>1, TagsOfIs
  <2>3. Len(rules) <= Len(rules) /\ TagsOf(rules) <= TagsOf(rules)
    BY <2>2
  <2> QED
    BY <2>1, <2>3, ExceptionUnitsBelow
<1>3. compared \in Nat /\ selectorWork \in Nat /\ compared + x <= selectorWork
  BY <1>1 DEF ComparePaid
<1> HIDE DEF x
<1>4. compared' \in Nat /\ selectorWork' \in Nat /\ compared' <= selectorWork'
  BY <1>1, <1>2, <1>3
<1>5. ComparePaid'
  BY <1>1, <1>4 DEF ComparePaid
<1>6. DocumentBytes(document, rules)' = DocumentBytes(document, rules)
  BY <1>1
<1>7. CopyPaid'
  BY <1>1, <1>6 DEF CopyPaid
<1> QED
  BY <1>5, <1>7

(* The document is written as reserved.                                    *)
LEMMA WriteManifestPaid ==
  ASSUME TypesInv, ComparePaid, CopyPaid, WriteManifest
  PROVE ComparePaid' /\ CopyPaid'
<1> DEFINE D == DocumentBytes(document, rules)
<1>1. /\ stage = "writing" /\ stage' \in QuietStages /\ compared' = compared
      /\ copied' = copied + 4 * D /\ selectorWork' = selectorWork /\ renderWork' = renderWork
  BY DEF WriteManifest, Go, QuietStages
<1>2. D \in Nat
  BY DocumentBytesNat DEF TypesInv
<1>3. copied \in Nat /\ renderWork \in Nat /\ copied + 4 * D <= renderWork
  BY <1>1 DEF CopyPaid
<1>4. compared \in Nat /\ selectorWork \in Nat /\ compared <= selectorWork
  BY DEF ComparePaid
<1> HIDE DEF D
<1>5. copied' \in Nat /\ renderWork' \in Nat /\ copied' <= renderWork'
  BY <1>1, <1>2, <1>3
<1> QED
  BY <1>1, <1>4, <1>5, QuietPaid

(* A file is paid for when it is rendered.                                 *)
LEMMA LoadFilePaid ==
  ASSUME TypesInv, ComparePaid, CopyPaid, LoadFile
  PROVE ComparePaid' /\ CopyPaid'
<1> DEFINE found == rules[rule].path \in DOMAIN Files
           file == IF found THEN Files[rules[rule].path] ELSE [when |-> <<>>, actions |-> <<>>]
           ok == found /\ AllRender(ContentTexts(file.when, file.actions), values)
           when == IF ok THEN Substitute(file.when, values) ELSE <<>>
           as == IF ok THEN RenderedActions(file.actions, values) ELSE <<>>
<1>1. /\ stage' \in QuietStages /\ compared' = compared /\ selectorWork' = selectorWork
      /\ renderWork' = renderWork + NestedWork(when, as)
      /\ copied' = copied + (IF stage' = "refused" THEN 0 ELSE NestedWork(when, as))
  BY DEF LoadFile, Go, QuietStages
<1>2. IsContent(file.when, file.actions)
  <2>1. CASE found
    BY <2>1, FileTypes
  <2>2. CASE ~found
    BY <2>2, EmptyTypes DEF IsContent, AreTexts, AreActions
  <2> QED
    BY <2>1, <2>2
<1>3. IsContent(when, as)
  <2> HIDE DEF file
  <2>1. CASE ok
    <3>1. Listed(file.when) /\ AreActions(file.actions) /\ AreTexts(values)
      BY <1>2 DEF IsContent, TypesInv
    <3>2. Listed(Substitute(file.when, values)) /\ AreActions(RenderedActions(file.actions, values))
      BY <3>1, SubstituteList, RenderedActionsType
    <3> QED
      BY <2>1, <3>2 DEF IsContent
  <2>2. CASE ~ok
    BY <2>2, EmptyTypes DEF IsContent, AreActions
  <2> QED
    BY <2>1, <2>2
<1> HIDE DEF when, as
<1>4. NestedWork(when, as) \in Nat
  BY <1>3, NestedWorkNat
<1>5. copied \in Nat /\ renderWork \in Nat /\ copied <= renderWork
  BY DEF CopyPaid
<1>6. compared \in Nat /\ selectorWork \in Nat /\ compared <= selectorWork
  BY DEF ComparePaid
<1>7. copied' \in Nat /\ renderWork' \in Nat /\ copied' <= renderWork'
  <2> DEFINE w == NestedWork(when, as)
  <2>1. w \in Nat /\ renderWork' = renderWork + w /\ copied' \in {copied, copied + w}
    <3>1. CASE stage' = "refused"
      <4>1. copied' = copied + 0
        BY <1>1, <3>1
      <4>2. copied' = copied
        BY <1>5, <4>1
      <4> QED
        BY <1>1, <1>4, <4>2, Zenon
    <3>2. CASE stage' # "refused"
      BY <1>1, <1>4, <3>2, Zenon
    <3> QED
      BY <3>1, <3>2
  <2> HIDE DEF w
  <2> QED
    BY <1>5, <2>1
<1> QED
  BY <1>1, <1>6, <1>7, QuietPaid

(* Steps that reserve and copy nothing.                                    *)
LEMMA QuietStepPaid ==
  ASSUME ComparePaid, CopyPaid, Admit \/ ValidateShape \/ PassRule \/ FinishLoading
  PROVE ComparePaid' /\ CopyPaid'
<1>1. stage' \in QuietStages /\ UNCHANGED <<compared, copied, selectorWork, renderWork>>
  BY DEF Admit, ValidateShape, PassRule, FinishLoading, Go, QuietStages, spentVars
<1>2. /\ compared \in Nat /\ selectorWork \in Nat /\ compared <= selectorWork
      /\ copied \in Nat /\ renderWork \in Nat /\ copied <= renderWork
  BY DEF ComparePaid, CopyPaid
<1> QED
  BY <1>1, <1>2, QuietPaid

(* A new request starts a meter of its own.                                *)
LEMMA ReinstallPaid ==
  ASSUME Reinstall
  PROVE ComparePaid' /\ CopyPaid'
<1>1. /\ stage' \in QuietStages
      /\ compared' = 0 /\ copied' = 0 /\ selectorWork' = 0 /\ renderWork' = 0
  BY DEF Reinstall, QuietStages
<1> QED
  BY <1>1, QuietPaid

(* Nothing changes.                                                        *)
LEMMA UnchangedPaid ==
  ASSUME ComparePaid, CopyPaid, UNCHANGED vars
  PROVE ComparePaid' /\ CopyPaid'
<1>1. /\ UNCHANGED <<overrides, rules, document, options, values, manifest, stage, rule, position>>
      /\ UNCHANGED <<compared, copied, selectorWork, renderWork, projected>>
  BY DEF vars, overrideVars, editVars, checkVars, requestVars
<1>2. /\ MatchTotals' = MatchTotals /\ CompareTotals' = CompareTotals /\ CopyTotals' = CopyTotals
      /\ AllMatchUnits' = AllMatchUnits /\ ExceptionsLeft(rules)' = ExceptionsLeft(rules)
  BY <1>1, SameTotals
<1>3. /\ HeadUnits' = HeadUnits /\ ExceptionsLeft(manifest.rules)' = ExceptionsLeft(manifest.rules)
      /\ ExceptionUnits(document.exceptions, rules)' = ExceptionUnits(document.exceptions, rules)
  BY <1>1 DEF HeadUnits, ExceptionsLeft, head, locals
<1>4. ComparedHere' = ComparedHere
  BY <1>1 DEF ComparedHere, CompareRow, CompareUnits, ActionOverrides
<1>5. CopiedHere' = CopiedHere
  BY <1>1 DEF CopiedHere, CopyRow, CopyUnits, EditBound, ContentBound, ActionGrowth, FieldGrowth,
              ActionOverrides
<1>6. OptionGrowth' = OptionGrowth /\ DocumentBytes(document, rules)' = DocumentBytes(document, rules)
  BY <1>1 DEF OptionGrowth, ModeBytes, PinBytes, locals
<1>7. ComparePaid'
  BY <1>1, <1>2, <1>3, <1>4 DEF ComparePaid, HeadUnits
<1>8. CopyPaid'
  BY <1>1, <1>2, <1>5, <1>6 DEF CopyPaid
<1> QED
  BY <1>7, <1>8

(* Every step keeps what is paid ahead of what is done.                    *)
LEMMA PaidStep ==
  ASSUME TypesInv, AppliedInv, CheckedInv, PaidInv, [Next]_vars
  PROVE PaidInv'
<1>1. ProgressInv /\ ComparePaid /\ CopyPaid
  BY DEF PaidInv
<1>2. ProgressInv'
  BY <1>1, ProgressStep
<1>3. ComparePaid' /\ CopyPaid'
  <2>1. CASE UNCHANGED vars
    BY <1>1, <2>1, UnchangedPaid
  <2>2. CASE Admit \/ ValidateShape \/ PassRule \/ FinishLoading
    BY <1>1, <2>2, QuietStepPaid
  <2>3. CASE ReserveExceptions
    BY <1>1, <2>3, ReserveExceptionsPaid
  <2>4. CASE ResolveVariables
    BY <1>1, <2>4, ResolveVariablesPaid
  <2>5. CASE RenderStrings
    BY <1>1, <2>5, RenderStringsPaid
  <2>6. CASE RenderContents
    BY <1>1, <2>6, RenderContentsPaid
  <2>7. CASE OverrideStep /\ UNCHANGED <<requestVars, values, document, meterVars, loaded>>
    <3>1. UNCHANGED <<options, document>>
      BY <2>7 DEF requestVars
    <3> QED
      BY <1>1, <2>7, <3>1, OverridesPaid
  <2>8. CASE ReserveMutations
    BY <1>1, <2>8, ReserveMutationsPaid
  <2>9. CASE ApplyOptions
    BY <1>1, <2>9, ApplyOptionsPaid
  <2>10. CASE CheckDocument
    BY <1>1, <2>10, CheckDocumentPaid
  <2>11. CASE WriteManifest
    BY <1>1, <2>11, WriteManifestPaid
  <2>12. CASE LoadFile
    BY <1>1, <2>12, LoadFilePaid
  <2>13. CASE Reinstall
    BY <2>13, ReinstallPaid
  <2>14. CASE Rest
    BY <1>1, <2>14, UnchangedPaid DEF Rest
  <2> QED
    BY <2>1, <2>2, <2>3, <2>4, <2>5, <2>6, <2>7, <2>8, <2>9, <2>10, <2>11, <2>12, <2>13, <2>14
       DEF Next, ParseStep
<1> QED
  BY <1>2, <1>3 DEF PaidInv

(* A request starts typed, with nothing done.                              *)
LEMMA PaidInit ==
  ASSUME Init
  PROVE TypesInv /\ PaidInv
<1>1. PICK r \in Requests : manifest = r.manifest /\ options = r.options
  BY DEF Init
<1>2. IsDocument(manifest.head) /\ AreRules(manifest.rules) /\ IsOptions(options)
  BY <1>1, RequestTypes
<1>3. /\ document = manifest.head /\ values = <<>> /\ rules = <<>> /\ kept = <<>>
      /\ overrides = <<>> /\ actions = <<>> /\ stage = "admission"
      /\ compared = 0 /\ copied = 0 /\ selectorWork = 0 /\ renderWork = 0
  BY DEF Init
<1>4. TypesInv
  BY <1>2, <1>3, EmptyTypes DEF TypesInv
<1>5. ComparePaid /\ CopyPaid /\ ProgressInv
  BY <1>3 DEF ComparePaid, CopyPaid, ProgressInv
<1> QED
  BY <1>4, <1>5 DEF PaidInv

(* However overrides grow the contents they rewrite one after another, and *)
(* whatever the options add, every comparison of a selector was reserved   *)
(* before it was made and every byte before it was copied, for all         *)
(* requests, files and limits (limits.rs:203 and :257, overrides.rs:140).  *)
THEOREM WorkPaidTheorem == Spec => []WorkPaid
<1> DEFINE IInv == ListsInv /\ AppliedInv /\ CheckedInv /\ TypesInv /\ PaidInv
<1>1. Init => IInv
  <2> SUFFICES ASSUME Init PROVE IInv
    OBVIOUS
  <2>1. ListsInv
    <3>1. PICK q \in Requests : manifest = q.manifest
      BY DEF Init
    <3> QED
      BY <3>1, RequestTypes, EmptyList DEF Init, ListsInv, AreRules
  <2>2. AppliedInv /\ CheckedInv
    BY DEF Init, AppliedInv, AppliedSoFar, CheckedInv
  <2> QED
    BY <2>1, <2>2, PaidInit
<1>2. IInv /\ [Next]_vars => IInv'
  <2> SUFFICES ASSUME IInv, [Next]_vars PROVE IInv'
    OBVIOUS
  <2>1. ListsInv' /\ AppliedInv' /\ CheckedInv'
    BY ListsStep, AppliedStep, CheckedStep DEF AppliedInv
  <2>2. TypesInv'
    BY TypesStep
  <2>3. PaidInv'
    BY PaidStep
  <2> QED
    BY <2>1, <2>2, <2>3
<1>3. IInv => WorkPaid
  BY DEF PaidInv, ComparePaid, CopyPaid, WorkPaid
<1> QED
  BY <1>1, <1>2, <1>3, PTL DEF Spec

-----------------------------------------------------------------------------
\* Texts rendered, one after the other and in lists.

(* What all the lists have in common, their elements have when joined.     *)
LEMMA FlattenElements ==
  ASSUME NEW ss, Listed(ss), AreTexts(ss), NEW P,
         \A i \in DOMAIN ss : \A j \in DOMAIN ss[i] : ss[i][j] \in P
  PROVE Listed(FlattenSeq(ss)) /\ \A j \in DOMAIN FlattenSeq(ss) : FlattenSeq(ss)[j] \in P
<1> DEFINE n == Len(ss)
           t == FlattenSeq(ss)
<1>1. n \in Nat /\ DOMAIN ss = 1 .. n /\ \A i \in 1 .. n : Listed(ss[i])
  BY ListIs DEF AreTexts
<1>2. Listed(t)
  BY ListFlatten
<1>3. CASE n = 0
  <2>1. t = ss /\ DOMAIN ss = {}
    BY <1>1, <1>3, FlattenIs
  <2> QED
    BY <1>2, <2>1
<1>4. CASE n # 0
  <2>1. PICK h : Joins(h, ss, n) /\ t = h[n]
    BY <1>4, FlattenIs
  <2> HIDE DEF n, t
  <2> DEFINE All(x) == \A j \in DOMAIN x : x[j] \in P
             Good == {i \in 0 .. n : i = 0 \/ All(h[i])}
  <2>2. 0 \in Good
    BY <1>1
  <2>3. ASSUME NEW i \in 1 .. n, i - 1 \in Good PROVE i \in Good
    <3>1. h[i] = IF i = 1 THEN ss[i] ELSE h[i - 1] \o ss[i]
      BY <2>1 DEF Joins
    <3>2. CASE i = 1
      BY <1>1, <3>1, <3>2
    <3>3. CASE i # 1
      <4>1. i - 1 \in 1 .. n
        BY <1>1, <3>3
      <4> DEFINE u == h[i - 1]
                 v == ss[i]
      <4>2. Listed(u) /\ Listed(v)
        BY <1>1, <2>1, <4>1 DEF Joins
      <4>3. All(u) /\ All(v)
        <5>1. All(v)
          BY <1>1
        <5> HIDE DEF All
        <5> QED
          BY <1>1, <2>3, <4>1, <5>1
      <4>4. h[i] = u \o v
        BY <3>1, <3>3
      <4> HIDE DEF u, v
      <4>5. All(u \o v)
        BY <4>2, <4>3, ConcatElements
      <4> HIDE DEF All
      <4>6. All(h[i])
        BY <4>4, <4>5, Zenon
      <4> QED
        BY <1>1, <4>6
    <3> QED
      BY <3>2, <3>3
  <2> HIDE DEF Good
  <2>4. \A i \in 0 .. n : i \in Good
    BY <1>1, <2>2, <2>3, UpTo
  <2>5. n \in Good
    BY <1>1, <2>4
  <2> HIDE DEF All
  <2>6. All(t)
    BY <1>1, <1>4, <2>1, <2>5 DEF Good
  <2> QED
    BY <1>2, <2>6 DEF t, All
<1> QED
  BY <1>3, <1>4

(* Every element of a list that was put together.                          *)
LEMMA ConcatKeeps ==
  ASSUME NEW s, NEW t, Listed(s), Listed(t)
  PROVE /\ \A i \in DOMAIN s : s[i] \in Range(s \o t)
        /\ \A i \in DOMAIN t : t[i] \in Range(s \o t)
<1> DEFINE u == s \o t
<1>1. /\ Listed(u) /\ Len(u) = Len(s) + Len(t)
      /\ \A i \in 1 .. Len(s) : u[i] = s[i]
      /\ \A i \in 1 .. Len(t) : u[Len(s) + i] = t[i]
  BY ListConcat
<1> HIDE DEF u
<1>2. /\ Len(s) \in Nat /\ DOMAIN s = 1 .. Len(s) /\ Len(t) \in Nat /\ DOMAIN t = 1 .. Len(t)
      /\ DOMAIN u = 1 .. Len(u)
  BY <1>1, ListIs
<1>3. \A i \in DOMAIN s : i \in DOMAIN u /\ u[i] = s[i]
  BY <1>1, <1>2
<1>4. \A i \in DOMAIN t : Len(s) + i \in DOMAIN u /\ u[Len(s) + i] = t[i]
  BY <1>1, <1>2
<1>5. \A i \in DOMAIN u : u[i] \in Range(u)
  BY DEF Range
<1>6. (\A i \in DOMAIN s : s[i] \in Range(u)) /\ \A i \in DOMAIN t : t[i] \in Range(u)
  BY <1>3, <1>4, <1>5
<1> QED
  BY <1>6 DEF u

(* Every element of every list is there when they are joined.              *)
LEMMA FlattenKeeps ==
  ASSUME NEW ss, Listed(ss), AreTexts(ss), NEW i \in DOMAIN ss, NEW j \in DOMAIN ss[i]
  PROVE ss[i][j] \in Range(FlattenSeq(ss))
<1> DEFINE n == Len(ss)
           t == FlattenSeq(ss)
<1>1. n \in Nat /\ DOMAIN ss = 1 .. n /\ \A k \in 1 .. n : Listed(ss[k])
  BY ListIs DEF AreTexts
<1>2. n # 0 /\ i \in 1 .. n
  BY <1>1
<1>3. PICK h : Joins(h, ss, n) /\ t = h[n]
  BY <1>2, FlattenIs
<1> HIDE DEF n, t
<1> DEFINE x == ss[i][j]
           Good == {k \in 0 .. n : k >= i => x \in Range(h[k])}
<1>4. 0 \in Good
  BY <1>1, <1>2
<1>5. ASSUME NEW k \in 1 .. n, k - 1 \in Good PROVE k \in Good
  <2> SUFFICES ASSUME k >= i PROVE x \in Range(h[k])
    BY <1>1
  <2>1. h[k] = IF k = 1 THEN ss[k] ELSE h[k - 1] \o ss[k]
    BY <1>3 DEF Joins
  <2>2. CASE k = 1
    <3>1. k = i
      BY <1>2, <2>2
    <3> QED
      BY <2>1, <2>2, <3>1 DEF Range
  <2>3. CASE k # 1
    <3>1. k - 1 \in 1 .. n
      BY <1>1, <2>3
    <3> DEFINE u == h[k - 1]
               v == ss[k]
    <3>2. Listed(u) /\ Listed(v)
      BY <1>1, <1>3, <3>1 DEF Joins
    <3>3. h[k] = u \o v
      BY <2>1, <2>3
    <3>4. CASE k = i
      <4>1. x \in {v[m] : m \in DOMAIN v}
        BY <3>4
      <4> HIDE DEF u, v, x
      <4> QED
        BY <3>2, <3>3, <4>1, ConcatKeeps
    <3>5. CASE k # i
      <4>1. x \in Range(u)
        BY <1>1, <1>2, <1>5, <3>1, <3>5
      <4> HIDE DEF u, v, x
      <4>2. PICK m \in DOMAIN u : x = u[m]
        BY <4>1 DEF Range
      <4> QED
        BY <3>2, <3>3, <4>2, ConcatKeeps
    <3> QED
      BY <3>4, <3>5
  <2> QED
    BY <2>2, <2>3
<1> HIDE DEF Good
<1>6. \A k \in 0 .. n : k \in Good
  BY <1>1, <1>4, <1>5, UpTo
<1>7. n \in Good
  BY <1>1, <1>6
<1> QED
  BY <1>1, <1>2, <1>3, <1>7 DEF Good, t

(* Joining lists of one element each gives a list of them.                 *)
LEMMA FlattenSingles ==
  ASSUME NEW s, Listed(s)
  PROVE FlattenSeq([i \in DOMAIN s |-> <<s[i]>>]) = s
<1> DEFINE n == Len(s)
           ss == [i \in DOMAIN s |-> <<s[i]>>]
           t == FlattenSeq(ss)
<1>1. n \in Nat /\ DOMAIN s = 1 .. n /\ s = [i \in 1 .. n |-> s[i]]
  BY ListIs
<1>2. ASSUME NEW e PROVE Listed(<<e>>) /\ Len(<<e>>) = 1 /\ <<e>>[1] = e
  <2> DEFINE q == <<e>>
  <2>1. q = [i \in 1 .. 1 |-> q[i]] /\ q[1] = e
    OBVIOUS
  <2> HIDE DEF q
  <2>2. Listed(q) /\ Len(q) = 1
    BY <2>1, IsList
  <2> QED
    BY <2>1, <2>2 DEF q
<1>3. DOMAIN ss = 1 .. n /\ \A i \in 1 .. n : ss[i] = <<s[i]>>
  BY <1>1
<1>4. ss = [i \in 1 .. n |-> ss[i]]
  BY <1>1
<1> HIDE DEF ss, n
<1>5. Listed(ss) /\ Len(ss) = n /\ AreTexts(ss)
  <2>1. n \in Nat
    BY <1>1
  <2>2. Listed(ss) /\ Len(ss) = n
    BY <1>4, <2>1, IsList, Zenon
  <2>3. ASSUME NEW i \in DOMAIN ss PROVE Listed(ss[i])
    BY <1>2, <1>3, Zenon
  <2> QED
    BY <2>2, <2>3, Zenon DEF AreTexts
<1>6. CASE n = 0
  <2>1. t = ss
    BY <1>5, <1>6, FlattenIs
  <2>2. ss = s
    BY <1>1, <1>3, <1>4, <1>6
  <2> QED
    BY <2>1, <2>2 DEF t, ss
<1>7. CASE n # 0
  <2>1. PICK h : Joins(h, ss, n) /\ t = h[n]
    BY <1>5, <1>7, FlattenIs
  <2> HIDE DEF t
  <2> DEFINE Start(x, k) == Len(x) = k /\ \A i \in 1 .. k : x[i] = s[i]
             Good == {k \in 0 .. n : k > 0 => Start(h[k], k)}
  <2>2. 0 \in Good
    BY <1>1
  <2>3. ASSUME NEW k \in 1 .. n, k - 1 \in Good PROVE k \in Good
    <3> DEFINE v == ss[k]
    <3>1. h[k] = IF k = 1 THEN v ELSE h[k - 1] \o v
      BY <2>1 DEF Joins
    <3>2. Listed(v) /\ Len(v) = 1 /\ v[1] = s[k]
      BY <1>2, <1>3
    <3>3. CASE k = 1
      <4>1. Start(h[k], k)
        BY <1>1, <3>1, <3>2, <3>3
      <4> HIDE DEF Start
      <4> QED
        BY <1>1, <4>1
    <3>4. CASE k # 1
      <4> DEFINE u == h[k - 1]
                 m == k - 1
      <4>1. m \in 1 .. n /\ m \in Nat /\ k = m + 1
        BY <1>1, <3>4
      <4>2. Listed(u) /\ Start(u, m)
        <5>1. Listed(u)
          BY <2>1, <4>1 DEF Joins
        <5> HIDE DEF Start
        <5> QED
          BY <1>1, <2>3, <4>1, <5>1
      <4>3. h[k] = u \o v
        BY <3>1, <3>4
      <4> HIDE DEF u, v, m
      <4>4. /\ Len(h[k]) = m + 1 /\ (\A i \in 1 .. m : h[k][i] = u[i])
            /\ h[k][m + 1] = v[1]
        <5> DEFINE w == u \o v
        <5>1. /\ Len(w) = Len(u) + Len(v) /\ (\A i \in 1 .. Len(u) : w[i] = u[i])
              /\ \A i \in 1 .. Len(v) : w[Len(u) + i] = v[i]
          <6>1. Listed(u) /\ Listed(v)
            BY <3>2, <4>2
          <6> QED
            BY <6>1, ListConcat
        <5> HIDE DEF w
        <5> QED
          BY <3>2, <4>1, <4>2, <4>3, <5>1 DEF w
      <4>5. \A i \in 1 .. k : h[k][i] = s[i]
        BY <3>2, <4>1, <4>2, <4>4
      <4>6. Start(h[k], k)
        BY <4>1, <4>4, <4>5
      <4> HIDE DEF Start
      <4> QED
        BY <1>1, <4>6
    <3> QED
      BY <3>3, <3>4
  <2> HIDE DEF Good
  <2>4. \A k \in 0 .. n : k \in Good
    BY <1>1, <2>2, <2>3, UpTo
  <2>5. n \in Good
    BY <1>1, <2>4
  <2>6. Len(t) = n /\ \A i \in 1 .. n : t[i] = s[i]
    BY <1>1, <1>7, <2>1, <2>5 DEF Good
  <2>7. Listed(t)
    BY <1>5, ListFlatten DEF t
  <2>8. t = [i \in 1 .. n |-> t[i]]
    BY <2>6, <2>7, ListIs
  <2>9. t = s
    BY <1>1, <2>6, <2>8
  <2> QED
    BY <2>9 DEF t, ss
<1> QED
  BY <1>6, <1>7

(* Scanning plain text changes nothing.                                    *)
LEMMA PlainScanned ==
  ASSUME NEW text, Listed(text), Plain(text)
  PROVE Scanned(text) = text
<1>1. Spelled(text) = {}
  <2> SUFFICES ASSUME NEW i \in Spelled(text) PROVE FALSE
    OBVIOUS
  <2>1. DOMAIN text = 1 .. Len(text) /\ Len(text) \in Nat
    BY ListIs
  <2>2. i \in DOMAIN text /\ i + 4 \in DOMAIN text /\ text[i] = Open /\ text[i + 1] = Open
    BY DEF Spelled
  <2>3. i + 1 \in DOMAIN text
    BY <2>1, <2>2
  <2>4. Stray(text)
    BY <2>2, <2>3 DEF Stray, BracesMeet
  <2> QED
    BY <2>4 DEF Plain
<1>2. Scanned(text) = FlattenSeq([i \in DOMAIN text |-> <<text[i]>>])
  BY <1>1 DEF Scanned
<1> QED
  BY <1>2, FlattenSingles

(* Plain text is left as it is.                                            *)
LEMMA SubstituteNothing ==
  ASSUME NEW text, NEW vs, Listed(text), Plain(text)
  PROVE Substitute(text, vs) = text
<1> DEFINE Piece(i) == IF text[i].marker /\ text[i].name \in DOMAIN vs THEN vs[text[i].name]
                       ELSE <<text[i]>>
<1>1. \A i \in DOMAIN text : ~text[i].marker
  BY DEF Plain, Markers
<1>2. \A i \in DOMAIN text : Piece(i) = <<text[i]>>
  BY <1>1
<1>3. Substitute(text, vs) = FlattenSeq([i \in DOMAIN text |-> Piece(i)])
  BY PlainScanned DEF Substitute
<1> HIDE DEF Piece
<1>4. Substitute(text, vs) = FlattenSeq([i \in DOMAIN text |-> <<text[i]>>])
  BY <1>2, <1>3
<1> QED
  BY <1>4, FlattenSingles

(* There is nothing to resolve in plain text.                              *)
LEMMA PlainRenders ==
  ASSUME NEW text, NEW vs, Listed(text), Plain(text)
  PROVE Renders(text, vs)
BY PlainScanned DEF Plain, Renders

(* A closing brace in a text as it is scanned stands in the text.          *)
LEMMA ScannedCloses ==
  ASSUME NEW text, Listed(text), Close \notin Range(text)
  PROVE \A i \in DOMAIN Scanned(text) : Scanned(text)[i] # Close
<1> DEFINE P == Range(text) \cup {Marker(text[i + 2].name) : i \in Spelled(text)}
<1>1. PICK ss :
        /\ Listed(ss) /\ AreTexts(ss) /\ DOMAIN ss = DOMAIN text /\ Scanned(text) = FlattenSeq(ss)
        /\ \A i \in DOMAIN text :
             ss[i] = IF i \in Spelled(text) THEN <<Marker(text[i + 2].name)>>
                     ELSE IF \E k \in 1 .. 4 : i - k \in Spelled(text) THEN <<>>
                     ELSE <<text[i]>>
  BY ScannedPieces
<1>2. ASSUME NEW i \in DOMAIN ss, NEW j \in DOMAIN ss[i] PROVE ss[i][j] \in P
  <2>1. CASE i \in Spelled(text)
    <3> DEFINE m == Marker(text[i + 2].name)
    <3>1. ss[i] = <<m>> /\ m \in P
      BY <1>1, <2>1
    <3> HIDE DEF m, P
    <3> QED
      BY <3>1, SingleList
  <2>2. CASE i \notin Spelled(text) /\ \E k \in 1 .. 4 : i - k \in Spelled(text)
    <3>1. ss[i] = <<>>
      BY <1>1, <2>2
    <3> QED
      BY <3>1
  <2>3. CASE i \notin Spelled(text) /\ ~\E k \in 1 .. 4 : i - k \in Spelled(text)
    <3>1. ss[i] = <<text[i]>> /\ text[i] \in P
      BY <1>1, <2>3 DEF Range
    <3> HIDE DEF P
    <3> QED
      BY <3>1, SingleList
  <2> QED
    BY <2>1, <2>2, <2>3
<1>3. \A x \in P : x # Close
  <2>1. \A w : Marker(w) # Close
    BY DEF Marker, Close, Word
  <2> QED
    BY <2>1
<1> HIDE DEF P
<1>4. \A j \in DOMAIN FlattenSeq(ss) : FlattenSeq(ss)[j] \in P
  BY <1>1, <1>2, FlattenElements
<1> QED
  BY <1>1, <1>3, <1>4

(* Plain texts make a plain one, unless they join where they meet.         *)
LEMMA PlainConcat ==
  ASSUME NEW a, NEW b, Listed(a), Listed(b), Plain(a), Plain(b),
         Len(a) > 0 /\ Len(b) > 0 => ~BracesMeet(a[Len(a)], b[1])
  PROVE /\ Plain(a \o b) /\ Listed(a \o b)
        /\ Len(b) > 0 => (a \o b)[Len(a \o b)] = b[Len(b)]
        /\ Len(b) = 0 => Len(a \o b) = Len(a) /\ (Len(a) > 0 => (a \o b)[Len(a \o b)] = a[Len(a)])
<1> DEFINE c == a \o b
           m == Len(a)
           n == Len(b)
<1>1. /\ Listed(c) /\ Len(c) = m + n
      /\ \A i \in 1 .. m : c[i] = a[i]
      /\ \A i \in 1 .. n : c[m + i] = b[i]
  BY ListConcat
<1>2. m \in Nat /\ DOMAIN a = 1 .. m /\ n \in Nat /\ DOMAIN b = 1 .. n
  BY ListIs
<1>3. DOMAIN c = 1 .. m + n
  BY <1>1, ListIs
<1> HIDE DEF c, m, n
<1>4. Markers(c) = {}
  <2> SUFFICES ASSUME NEW i \in 1 .. m + n PROVE ~c[i].marker
    BY <1>3 DEF Markers
  <2>1. CASE i <= m
    BY <1>1, <1>2, <2>1 DEF Plain, Markers
  <2>2. CASE i > m
    <3>1. i - m \in 1 .. n /\ m + (i - m) = i
      BY <1>2, <2>2
    <3>2. c[i] = b[i - m]
      BY <1>1, <3>1
    <3> QED
      BY <1>2, <3>1, <3>2 DEF Plain, Markers
  <2> QED
    BY <1>2, <2>1, <2>2
<1>5. ~Stray(c)
  <2> SUFFICES ASSUME NEW i \in 1 .. m + n, i + 1 \in 1 .. m + n PROVE ~BracesMeet(c[i], c[i + 1])
    BY <1>3 DEF Stray
  <2>1. CASE i < m
    <3>1. c[i] = a[i] /\ c[i + 1] = a[i + 1] /\ i \in DOMAIN a /\ i + 1 \in DOMAIN a
      BY <1>1, <1>2, <2>1
    <3> QED
      BY <3>1 DEF Plain, Stray
  <2>2. CASE i = m
    <3>1. 1 \in 1 .. n /\ m \in 1 .. m
      BY <1>2, <2>2
    <3>2. c[i] = a[m] /\ c[i + 1] = b[1]
      BY <1>1, <2>2, <3>1
    <3> QED
      BY <1>2, <3>1, <3>2 DEF m, n
  <2>3. CASE i > m
    <3>1. i - m \in 1 .. n /\ (i - m) + 1 \in 1 .. n /\ m + (i - m) = i /\ m + ((i - m) + 1) = i + 1
      BY <1>2, <2>3
    <3>2. c[i] = b[i - m] /\ c[i + 1] = b[(i - m) + 1]
      BY <1>1, <3>1
    <3> QED
      BY <1>2, <3>1, <3>2 DEF Plain, Stray
  <2> QED
    BY <1>2, <2>1, <2>2, <2>3
<1>6. n > 0 => c[Len(c)] = b[n]
  <2>1. n > 0 => n \in 1 .. n
    BY <1>2
  <2> QED
    BY <1>1, <2>1
<1>7. n = 0 => Len(c) = m /\ (m > 0 => c[Len(c)] = a[m])
  <2>1. m > 0 => m \in 1 .. m
    BY <1>2
  <2> QED
    BY <1>1, <1>2, <2>1
<1> QED
  BY <1>1, <1>4, <1>5, <1>6, <1>7 DEF Plain, c, m, n

(* One piece that is no marker, and text without braces, are plain.        *)
LEMMA SinglePlain ==
  ASSUME NEW e, ~e.marker
  PROVE Plain(<<e>>)
<1>1. DOMAIN <<e>> = {1} /\ <<e>>[1] = e
  BY SingleList
<1> DEFINE s == <<e>>
<1>2. DOMAIN s = {1} /\ s[1] = e
  BY <1>1
<1> HIDE DEF s
<1>3. Plain(s)
  BY <1>2 DEF Plain, Markers, Stray
<1> QED
  BY <1>3 DEF s

LEMMA BracelessPlain ==
  ASSUME NEW text, Braceless(text)
  PROVE Plain(text)
<1>1. Markers(text) = {}
  BY DEF Braceless, Markers
<1>2. ~Stray(text)
  BY DEF Braceless, Stray, BracesMeet, Braces
<1> QED
  BY <1>1, <1>2 DEF Plain

(* Where no braces meet, and what takes the place of a marker has none, no *)
(* braces meet when all is joined, unless around a place that is empty.    *)
LEMMA PiecesPlain ==
  ASSUME NEW t, NEW ss, Listed(t), Listed(ss), AreTexts(ss), DOMAIN ss = DOMAIN t, ~Stray(t),
         \A i \in DOMAIN t :
           \/ t[i].marker /\ Braceless(ss[i]) /\ (Len(ss[i]) = 0 => \A j \in DOMAIN t : t[j] # Close)
           \/ ~t[i].marker /\ ss[i] = <<t[i]>>
  PROVE Plain(FlattenSeq(ss))
<1> DEFINE n == Len(ss)
           u == FlattenSeq(ss)
           Ends(x, k) == Len(x) > 0 /\ x[Len(x)] \in Braces => x[Len(x)] = t[k]
<1>1. n \in Nat /\ DOMAIN ss = 1 .. n /\ DOMAIN t = 1 .. n /\ \A i \in 1 .. n : Listed(ss[i])
  BY ListIs DEF AreTexts
<1>2. ASSUME NEW i \in 1 .. n
      PROVE /\ Plain(ss[i]) /\ (Len(ss[i]) > 0 => Ends(ss[i], i))
            /\ Len(ss[i]) > 0 => ss[i][1] = t[i] \/ (ss[i][1] \notin Braces /\ ~ss[i][1].marker)
            /\ Len(ss[i]) = 0 => t[i].marker /\ \A j \in DOMAIN t : t[j] # Close
  <2>1. CASE ~t[i].marker /\ ss[i] = <<t[i]>>
    <3>1. Plain(ss[i]) /\ Len(ss[i]) = 1 /\ ss[i][1] = t[i]
      BY <2>1, SinglePlain, SingleList
    <3> QED
      BY <3>1
  <2>2. CASE t[i].marker /\ Braceless(ss[i]) /\ (Len(ss[i]) = 0 => \A j \in DOMAIN t : t[j] # Close)
    <3> DEFINE x == ss[i]
    <3>1. Plain(x)
      BY <2>2, BracelessPlain
    <3>2. Len(x) \in Nat /\ DOMAIN x = 1 .. Len(x)
      BY <1>1, ListIs
    <3> HIDE DEF x
    <3>3. Len(x) > 0 => 1 \in DOMAIN x /\ Len(x) \in DOMAIN x
      BY <3>2
    <3>4. Len(x) > 0 => x[1] \notin Braces /\ ~x[1].marker /\ x[Len(x)] \notin Braces
      BY <2>2, <3>3 DEF Braceless, x
    <3> QED
      BY <2>2, <3>1, <3>4 DEF x
  <2> QED
    BY <1>1, <2>1, <2>2
<1>3. CASE n = 0
  <2>1. u = ss /\ DOMAIN u = {}
    BY <1>1, <1>3, FlattenIs
  <2> HIDE DEF u
  <2>2. Plain(u)
    BY <2>1 DEF Plain, Markers, Stray
  <2> QED
    BY <2>2 DEF u
<1>4. CASE n # 0
  <2>1. PICK h : Joins(h, ss, n) /\ u = h[n]
    BY <1>4, FlattenIs
  <2> HIDE DEF n, u
  <2> DEFINE Good == {k \in 0 .. n : k > 0 => Plain(h[k]) /\ Ends(h[k], k)}
  <2>2. 0 \in Good
    BY <1>1
  <2>3. ASSUME NEW k \in 1 .. n, k - 1 \in Good PROVE k \in Good
    <3>1. h[k] = IF k = 1 THEN ss[k] ELSE h[k - 1] \o ss[k]
      BY <2>1 DEF Joins
    <3>2. CASE k = 1
      <4>1. Len(ss[k]) > 0 => Ends(ss[k], k)
        BY <1>2
      <4>2. Plain(h[k]) /\ Ends(h[k], k)
        BY <1>2, <3>1, <3>2, <4>1
      <4> HIDE DEF Ends
      <4> QED
        BY <1>1, <4>2
    <3>3. CASE k # 1
      <4> DEFINE a == h[k - 1]
                 b == ss[k]
                 c == a \o b
      <4>1. k - 1 \in 1 .. n /\ k - 1 > 0 /\ (k - 1) + 1 = k /\ k \in DOMAIN t /\ k - 1 \in DOMAIN t
        BY <1>1, <3>3
      <4>2. Listed(a) /\ Listed(b)
        BY <1>1, <2>1, <4>1 DEF Joins
      <4>3. Plain(a) /\ Ends(a, k - 1)
        <5> HIDE DEF Ends
        <5> QED
          BY <2>3, <4>1
      <4>4. ~BracesMeet(t[k - 1], t[k])
        BY <4>1 DEF Stray
      <4>5. h[k] = c
        BY <3>1, <3>3
      <4>6. /\ Plain(b) /\ (Len(b) > 0 => Ends(b, k))
            /\ Len(b) > 0 => b[1] = t[k] \/ (b[1] \notin Braces /\ ~b[1].marker)
            /\ Len(b) = 0 => t[k].marker /\ t[k - 1] # Close
        BY <1>2, <4>1
      <4>7. Len(a) \in Nat /\ Len(b) \in Nat
        BY <4>2, ListIs
      <4> HIDE DEF a, b
      <4>8. Len(a) > 0 /\ Len(b) > 0 => ~BracesMeet(a[Len(a)], b[1])
        BY <4>3, <4>4, <4>6 DEF BracesMeet, Braces
      <4>9. /\ Plain(c)
            /\ Len(b) > 0 => c[Len(c)] = b[Len(b)]
            /\ Len(b) = 0 => Len(c) = Len(a) /\ (Len(a) > 0 => c[Len(c)] = a[Len(a)])
        BY <4>2, <4>3, <4>6, <4>8, PlainConcat
      <4> HIDE DEF c
      <4>10. Ends(c, k)
        <5>1. CASE Len(b) > 0
          BY <4>6, <4>9, <5>1
        <5>2. CASE Len(b) = 0
          <6>1. Len(a) > 0 => a[Len(a)] \notin Braces
            BY <4>3, <4>4, <4>6, <5>2 DEF BracesMeet, Braces
          <6> QED
            BY <4>9, <5>2, <6>1
        <5> QED
          BY <4>7, <5>1, <5>2
      <4>11. Plain(h[k]) /\ Ends(h[k], k)
        BY <4>5, <4>9, <4>10
      <4> HIDE DEF Ends
      <4> QED
        BY <1>1, <4>11
    <3> QED
      BY <3>2, <3>3
  <2> HIDE DEF Good
  <2>4. \A k \in 0 .. n : k \in Good
    BY <1>1, <2>2, <2>3, UpTo
  <2>5. n \in Good
    BY <1>1, <2>4
  <2>6. Plain(u)
    BY <1>1, <1>4, <2>1, <2>5 DEF Good
  <2> QED
    BY <2>6 DEF u
<1> QED
  BY <1>3, <1>4

\* Values that are in S and hold no brace.
From(vs, S) == \A n \in DOMAIN vs : vs[n] \in S /\ Braceless(vs[n])

(* Text without braces has no closing one.                                 *)
LEMMA BracelessCloses ==
  ASSUME NEW text, Braceless(text)
  PROVE Close \notin Range(text)
BY DEF Braceless, Braces, Range

(* Where every marker has a value and no value has markers or braces, the  *)
(* result is plain, unless an empty value stands between closing braces.   *)
LEMMA SubstitutePlain ==
  ASSUME NEW text, NEW vs, NEW S, Listed(text), AreTexts(vs), From(vs, S), Renders(text, vs),
         ClosesApart(text, S)
  PROVE Plain(Substitute(text, vs))
<1> DEFINE t == Scanned(text)
<1>1. Listed(t) /\ ~Stray(t) /\ \A i \in DOMAIN t : t[i].marker => t[i].name \in DOMAIN vs
  BY ScannedList DEF Renders, Markers
<1>2. <<>> \in S => \A j \in DOMAIN t : t[j] # Close
  BY ScannedCloses DEF ClosesApart
<1>3. PICK ss :
        /\ Listed(ss) /\ AreTexts(ss) /\ DOMAIN ss = DOMAIN t /\ Substitute(text, vs) = FlattenSeq(ss)
        /\ \A i \in DOMAIN t :
             ss[i] = IF t[i].marker /\ t[i].name \in DOMAIN vs THEN vs[t[i].name] ELSE <<t[i]>>
  BY SubstitutePieces
<1> HIDE DEF t
<1>4. ASSUME NEW i \in DOMAIN t
      PROVE \/ t[i].marker /\ Braceless(ss[i]) /\ (Len(ss[i]) = 0 => \A j \in DOMAIN t : t[j] # Close)
            \/ ~t[i].marker /\ ss[i] = <<t[i]>>
  <2>1. CASE t[i].marker
    <3> DEFINE x == vs[t[i].name]
    <3>1. ss[i] = x /\ x \in S /\ Braceless(x) /\ Listed(x)
      BY <1>1, <1>3, <2>1 DEF From, AreTexts
    <3> HIDE DEF x
    <3>2. Len(x) = 0 => x = <<>>
      BY <3>1 DEF Listed
    <3> QED
      BY <1>2, <2>1, <3>1, <3>2
  <2>2. CASE ~t[i].marker
    BY <1>3, <2>2
  <2> QED
    BY <2>1, <2>2
<1> QED
  BY <1>1, <1>3, <1>4, PiecesPlain

(* The texts of two lists render when each does.                           *)
LEMMA RenderBoth ==
  ASSUME NEW s, NEW t, NEW vs, Listed(s), Listed(t)
  PROVE Listed(s \o t) /\ (AllRender(s \o t, vs) <=> AllRender(s, vs) /\ AllRender(t, vs))
<1> DEFINE P == {x \in Range(s) \cup Range(t) : Renders(x, vs)}
           u == s \o t
<1>1. Listed(u)
  BY ListConcat
<1>2. ASSUME AllRender(s, vs), AllRender(t, vs) PROVE AllRender(u, vs)
  <2>1. (\A i \in DOMAIN s : s[i] \in P) /\ \A i \in DOMAIN t : t[i] \in P
    BY <1>2 DEF AllRender, Range
  <2>2. \A x \in P : Renders(x, vs)
    OBVIOUS
  <2> HIDE DEF P
  <2>3. \A i \in DOMAIN u : u[i] \in P
    BY <2>1, ConcatElements
  <2> QED
    BY <2>2, <2>3 DEF AllRender
<1>3. ASSUME AllRender(u, vs) PROVE AllRender(s, vs) /\ AllRender(t, vs)
  <2>1. \A x \in Range(u) : Renders(x, vs)
    BY <1>3 DEF AllRender, Range
  <2>2. (\A i \in DOMAIN s : s[i] \in Range(u)) /\ \A i \in DOMAIN t : t[i] \in Range(u)
    BY ConcatKeeps
  <2> HIDE DEF u
  <2> QED
    BY <2>1, <2>2 DEF AllRender
<1> QED
  BY <1>1, <1>2, <1>3

(* So do those of many lists.                                              *)
LEMMA RenderMany ==
  ASSUME NEW ss, NEW vs, Listed(ss), AreTexts(ss)
  PROVE AllRender(FlattenSeq(ss), vs) <=> \A i \in DOMAIN ss : AllRender(ss[i], vs)
<1> DEFINE P == {x \in UNION {Range(ss[i]) : i \in DOMAIN ss} : Renders(x, vs)}
           u == FlattenSeq(ss)
<1>1. ASSUME \A i \in DOMAIN ss : AllRender(ss[i], vs) PROVE AllRender(u, vs)
  <2>1. \A i \in DOMAIN ss : \A j \in DOMAIN ss[i] : ss[i][j] \in P
    BY <1>1 DEF AllRender, Range
  <2>2. \A x \in P : Renders(x, vs)
    OBVIOUS
  <2> HIDE DEF P
  <2>3. \A i \in DOMAIN u : u[i] \in P
    BY <2>1, FlattenElements
  <2> QED
    BY <2>2, <2>3 DEF AllRender
<1>2. ASSUME AllRender(u, vs), NEW i \in DOMAIN ss, NEW j \in DOMAIN ss[i]
      PROVE Renders(ss[i][j], vs)
  <2>1. \A x \in Range(u) : Renders(x, vs)
    BY <1>2 DEF AllRender, Range
  <2>2. ss[i][j] \in Range(u)
    BY FlattenKeeps
  <2> QED
    BY <2>1, <2>2
<1>3. AllRender(u, vs) => \A i \in DOMAIN ss : AllRender(ss[i], vs)
  <2> SUFFICES ASSUME AllRender(u, vs) PROVE \A i \in DOMAIN ss : AllRender(ss[i], vs)
    OBVIOUS
  <2> HIDE DEF u
  <2>1. \A i \in DOMAIN ss : \A j \in DOMAIN ss[i] : Renders(ss[i][j], vs)
    BY <1>2
  <2> QED
    BY <2>1 DEF AllRender
<1> QED
  BY <1>1, <1>3

(* One text, or two.                                                       *)
LEMMA RenderFew ==
  ASSUME NEW s, NEW t, NEW vs
  PROVE /\ Listed(<<s>>) /\ (AllRender(<<s>>, vs) <=> Renders(s, vs))
        /\ Listed(<<s, t>>) /\ (AllRender(<<s, t>>, vs) <=> Renders(s, vs) /\ Renders(t, vs))
<1> DEFINE u == <<s>>
           v == <<s, t>>
<1>1. u = [i \in 1 .. 1 |-> u[i]] /\ u[1] = s
  OBVIOUS
<1>2. v = [i \in 1 .. 2 |-> v[i]] /\ v[1] = s /\ v[2] = t
  OBVIOUS
<1> HIDE DEF u, v
<1>3. Listed(u) /\ DOMAIN u = 1 .. 1
  BY <1>1, IsList
<1>4. Listed(v) /\ DOMAIN v = 1 .. 2
  BY <1>2, IsList
<1>5. AllRender(u, vs) <=> Renders(s, vs)
  BY <1>1, <1>3 DEF AllRender
<1>6. AllRender(v, vs) <=> Renders(s, vs) /\ Renders(t, vs)
  BY <1>2, <1>4 DEF AllRender
<1> QED
  BY <1>3, <1>4, <1>5, <1>6 DEF u, v

(* A text that may be absent.                                              *)
LEMMA RenderOptional ==
  ASSUME NEW S, NEW vs, IsOptional(S)
  PROVE /\ Listed(SetToSeq(S))
        /\ AllRender(SetToSeq(S), vs) <=> \A t \in S : Renders(t, vs)
<1> DEFINE Orders(f) == f \in [1 .. Cardinality(S) -> S] /\ IsInjective(f)
           s == CHOOSE f \in [1 .. Cardinality(S) -> S] : IsInjective(f)
<1>1. SetToSeq(S) = s
  BY DEF SetToSeq
<1>2. CASE S = {}
  <2>1. Cardinality(S) = 0
    BY <1>2, FS_EmptySet
  <2> DEFINE f == [i \in 1 .. 0 |-> 0]
  <2>2. f \in [1 .. 0 -> S] /\ IsInjective(f)
    BY DEF IsInjective
  <2>3. s \in [1 .. 0 -> S]
    BY <2>1, <2>2
  <2> HIDE DEF s
  <2>4. s = [i \in 1 .. 0 |-> s[i]]
    BY <2>3
  <2>5. Listed(s) /\ DOMAIN s = {}
    <3>1. Listed(s) /\ DOMAIN s = 1 .. 0
      BY <2>4, IsList
    <3> QED
      BY <3>1
  <2> QED
    BY <1>1, <1>2, <2>5 DEF AllRender
<1>3. CASE S # {}
  <2>1. PICK t : S = {t}
    BY <1>3 DEF IsOptional
  <2>2. Cardinality(S) = 1
    BY <2>1, FS_Singleton
  <2> DEFINE f == [i \in 1 .. 1 |-> t]
  <2>3. f \in [1 .. 1 -> S] /\ IsInjective(f)
    BY <2>1 DEF IsInjective
  <2>4. s \in [1 .. 1 -> S]
    BY <2>2, <2>3
  <2> HIDE DEF s
  <2>5. s = [i \in 1 .. 1 |-> s[i]] /\ s[1] = t
    BY <2>1, <2>4
  <2>6. Listed(s) /\ DOMAIN s = 1 .. 1
    BY <2>5, IsList
  <2> QED
    BY <1>1, <2>1, <2>5, <2>6 DEF AllRender
<1> QED
  BY <1>2, <1>3

-----------------------------------------------------------------------------
\* Texts of documents and rules, and those that are plain.

\* Every text of some actions, variables or exceptions is plain.
PlainActions(as) == \A k \in DOMAIN as : Plain(as[k].fields.rate) /\ Plain(as[k].fields.body)
PlainContent(when, as) == Plain(when) /\ PlainActions(as)
PlainVariables(vs) == \A i \in DOMAIN vs : \A t \in vs[i].default : Plain(t)
PlainReasons(es) == \A i \in DOMAIN es : Plain(es[i].reason)

\* Nor do those of rules with their content in the manifest.
PlainRules(rs) ==
  \A j \in DOMAIN rs : "content" \in rs[j].parts => PlainContent(rs[j].when, rs[j].actions)

\* Nor those of a document but for its overrides and groups.
PlainHead(d) ==
  /\ Plain(d.title) /\ \A t \in d.commit : Plain(t)
  /\ PlainVariables(d.variables) /\ PlainReasons(d.exceptions)

\* Every text of the parts renders.
HeadRenders(d, vs) ==
  /\ Renders(d.title, vs) /\ \A t \in d.commit : Renders(t, vs)
  /\ \A i \in DOMAIN d.variables : \A t \in d.variables[i].default : Renders(t, vs)
  /\ \A i \in DOMAIN d.exceptions : Renders(d.exceptions[i].reason, vs)

(* The strings of a manifest, taken part by part.                          *)
LEMMA ManifestRenders ==
  ASSUME NEW d, NEW vs, IsDocument(d)
  PROVE AllRender(ManifestTexts(d), vs) <=>
          HeadRenders(d, vs) /\ \A i \in DOMAIN d.overrides : AllRender(OverrideTexts(d.overrides[i]), vs)
<1> DEFINE A == <<d.title>>
           B == SetToSeq(d.commit)
           V == [i \in DOMAIN d.variables |-> SetToSeq(d.variables[i].default)]
           O == [i \in DOMAIN d.overrides |-> OverrideTexts(d.overrides[i])]
           E == [i \in DOMAIN d.exceptions |-> d.exceptions[i].reason]
           C == FlattenSeq(V)
           D == FlattenSeq(O)
<1>1. ManifestTexts(d) = A \o B \o C \o D \o E
  BY DEF ManifestTexts
<1>2. Listed(A) /\ (AllRender(A, vs) <=> Renders(d.title, vs))
  BY RenderFew
<1>3. Listed(B) /\ (AllRender(B, vs) <=> \A t \in d.commit : Renders(t, vs))
  BY RenderOptional DEF IsDocument
<1>4. Listed(C) /\ (AllRender(C, vs) <=>
        \A i \in DOMAIN d.variables : \A t \in d.variables[i].default : Renders(t, vs))
  <2>1. Listed(d.variables) /\ \A i \in DOMAIN d.variables : IsOptional(d.variables[i].default)
    BY DEF IsDocument, IsVariable
  <2>2. \A i \in DOMAIN d.variables :
          /\ Listed(V[i])
          /\ AllRender(V[i], vs) <=> \A t \in d.variables[i].default : Renders(t, vs)
    BY <2>1, RenderOptional
  <2>3. V = [i \in DOMAIN d.variables |-> V[i]] /\ DOMAIN V = DOMAIN d.variables
    OBVIOUS
  <2> HIDE DEF V
  <2>4. Listed(V) /\ AreTexts(V)
    BY <2>1, <2>2, <2>3, MappedList DEF AreTexts
  <2>5. Listed(C) /\ (AllRender(C, vs) <=> \A i \in DOMAIN V : AllRender(V[i], vs))
    BY <2>4, ListFlatten, RenderMany
  <2> QED
    BY <2>2, <2>3, <2>5
<1>5. Listed(D) /\ (AllRender(D, vs) <=>
        \A i \in DOMAIN d.overrides : AllRender(OverrideTexts(d.overrides[i]), vs))
  <2>1. Listed(d.overrides)
    BY DEF IsDocument, AreOverrides
  <2>2. ASSUME NEW o PROVE Listed(OverrideTexts(o))
    <3>1. Listed(<<o.sets.rate>>) /\ Listed(<<o.sets.body>>) /\ Listed(<<>>)
      BY RenderFew, EmptyList
    <3> QED
      BY <3>1, ListConcat DEF OverrideTexts
  <2>3. O = [i \in DOMAIN d.overrides |-> O[i]] /\ DOMAIN O = DOMAIN d.overrides
    OBVIOUS
  <2>4. \A i \in DOMAIN d.overrides : O[i] = OverrideTexts(d.overrides[i]) /\ Listed(O[i])
    BY <2>2
  <2> HIDE DEF O
  <2>5. Listed(O) /\ AreTexts(O)
    BY <2>1, <2>3, <2>4, MappedList DEF AreTexts
  <2>6. Listed(D) /\ (AllRender(D, vs) <=> \A i \in DOMAIN O : AllRender(O[i], vs))
    BY <2>5, ListFlatten, RenderMany
  <2> QED
    BY <2>3, <2>4, <2>6
<1>6. Listed(E) /\ (AllRender(E, vs) <=>
        \A i \in DOMAIN d.exceptions : Renders(d.exceptions[i].reason, vs))
  <2>1. Listed(d.exceptions)
    BY DEF IsDocument, AreExceptions
  <2>2. E = [i \in DOMAIN d.exceptions |-> E[i]] /\ DOMAIN E = DOMAIN d.exceptions
        /\ \A i \in DOMAIN d.exceptions : E[i] = d.exceptions[i].reason
    OBVIOUS
  <2> HIDE DEF E
  <2> QED
    BY <2>1, <2>2, MappedList DEF AllRender
<1> HIDE DEF A, B, C, D, E
<1>7. Listed(A \o B) /\ (AllRender(A \o B, vs) <=> AllRender(A, vs) /\ AllRender(B, vs))
  BY <1>2, <1>3, RenderBoth
<1> DEFINE AB == A \o B
<1> HIDE DEF AB
<1>8. Listed(AB \o C) /\ (AllRender(AB \o C, vs) <=> AllRender(AB, vs) /\ AllRender(C, vs))
  BY <1>4, <1>7, RenderBoth DEF AB
<1> DEFINE ABC == AB \o C
<1> HIDE DEF ABC
<1>9. Listed(ABC \o D) /\ (AllRender(ABC \o D, vs) <=> AllRender(ABC, vs) /\ AllRender(D, vs))
  BY <1>5, <1>8, RenderBoth DEF ABC
<1> DEFINE ABCD == ABC \o D
<1> HIDE DEF ABCD
<1>10. AllRender(ABCD \o E, vs) <=> AllRender(ABCD, vs) /\ AllRender(E, vs)
  BY <1>6, <1>9, RenderBoth DEF ABCD
<1>11. ManifestTexts(d) = ABCD \o E
  BY <1>1 DEF AB, ABC, ABCD
<1>12. AllRender(ManifestTexts(d), vs) <=>
         AllRender(A, vs) /\ AllRender(B, vs) /\ AllRender(C, vs) /\ AllRender(D, vs) /\ AllRender(E, vs)
  BY <1>7, <1>8, <1>9, <1>10, <1>11 DEF AB, ABC, ABCD
<1> QED
  BY <1>2, <1>3, <1>4, <1>5, <1>6, <1>12 DEF HeadRenders

(* The strings of a rule's content.                                        *)
LEMMA ContentRenders ==
  ASSUME NEW when, NEW as, NEW vs, AreActions(as)
  PROVE /\ Listed(ContentTexts(when, as))
        /\ AllRender(ContentTexts(when, as), vs) <=>
             /\ Renders(when, vs)
             /\ \A k \in DOMAIN as : Renders(as[k].fields.rate, vs) /\ Renders(as[k].fields.body, vs)
<1> DEFINE A == <<when>>
           F == [k \in DOMAIN as |-> <<as[k].fields.rate, as[k].fields.body>>]
           B == FlattenSeq(F)
<1>1. ContentTexts(when, as) = A \o B
  BY DEF ContentTexts
<1>2. Listed(A) /\ (AllRender(A, vs) <=> Renders(when, vs))
  BY RenderFew
<1>3. Listed(as)
  BY DEF AreActions
<1>4. F = [k \in DOMAIN as |-> F[k]] /\ DOMAIN F = DOMAIN as
  OBVIOUS
<1>5. \A k \in DOMAIN as :
        /\ Listed(F[k])
        /\ AllRender(F[k], vs) <=> Renders(as[k].fields.rate, vs) /\ Renders(as[k].fields.body, vs)
  BY RenderFew
<1> HIDE DEF A, F
<1>6. Listed(F) /\ AreTexts(F)
  BY <1>3, <1>4, <1>5, MappedList DEF AreTexts
<1>7. Listed(B) /\ (AllRender(B, vs) <=> \A k \in DOMAIN F : AllRender(F[k], vs))
  BY <1>6, ListFlatten, RenderMany
<1> HIDE DEF B
<1>8. Listed(A \o B) /\ (AllRender(A \o B, vs) <=> AllRender(A, vs) /\ AllRender(B, vs))
  BY <1>2, <1>7, RenderBoth
<1> QED
  BY <1>1, <1>2, <1>4, <1>5, <1>7, <1>8

(* What a document is rendered to is plain.                                *)
LEMMA HeadPlain ==
  ASSUME NEW d, NEW vs, NEW S, IsDocument(d), AreTexts(vs), From(vs, S), HeadRenders(d, vs),
         HeadApart(d, S), \A i \in DOMAIN d.variables : \A t \in d.variables[i].default : Braceless(t)
  PROVE PlainHead(RenderedManifest(d, vs))
<1> DEFINE e == RenderedManifest(d, vs)
           V(i) == RenderedVariable(d.variables[i], vs)
           X(i) == RenderedException(d.exceptions[i], vs)
<1>1. /\ DOMAIN e = DOMAIN d
      /\ e.title = Substitute(d.title, vs)
      /\ e.commit = {Substitute(t, vs) : t \in d.commit}
      /\ e.variables = [i \in DOMAIN d.variables |-> V(i)]
      /\ e.overrides = [i \in DOMAIN d.overrides |-> RenderedOverride(d.overrides[i], vs)]
      /\ e.exceptions = [i \in DOMAIN d.exceptions |-> X(i)]
      /\ e.groups = d.groups /\ e.bindings = d.bindings /\ e.mode = d.mode
      /\ IsFunction(e)
  BY RenderedManifestIs
<1>2. /\ Listed(d.title) /\ \A t \in d.commit : Listed(t)
      /\ \A i \in DOMAIN d.variables : IsVariable(d.variables[i])
      /\ \A i \in DOMAIN d.exceptions : IsException(d.exceptions[i])
  BY DEF IsDocument, AreExceptions, IsOptional
<1>3. Plain(e.title) /\ \A t \in e.commit : Plain(t)
  <2>1. Plain(Substitute(d.title, vs))
    BY <1>2, SubstitutePlain DEF HeadRenders, HeadApart
  <2>2. \A t \in d.commit : Plain(Substitute(t, vs))
    BY <1>2, SubstitutePlain DEF HeadRenders, HeadApart
  <2> HIDE DEF e
  <2> QED
    BY <1>1, <2>1, <2>2
<1>4. ASSUME NEW i \in DOMAIN d.variables, NEW t \in V(i).default PROVE Plain(t)
  <2> DEFINE v == d.variables[i]
             D == {Substitute(s, vs) : s \in v.default}
  <2>1. DOMAIN v = {"name", "default", "required"} /\ \A s \in v.default : Listed(s)
    BY <1>2 DEF IsVariable, IsOptional
  <2>2. \A s \in v.default : Renders(s, vs) /\ ClosesApart(s, S)
    BY BracelessCloses DEF HeadRenders, ClosesApart
  <2>3. \A s \in D : Plain(s)
    BY <2>1, <2>2, SubstitutePlain
  <2>4. V(i) = [v EXCEPT !.default = D]
    BY DEF RenderedVariable
  <2> HIDE DEF v, D, V
  <2>5. V(i).default = D
    BY <2>1, <2>4
  <2> QED
    BY <2>3, <2>5
<1>5. ASSUME NEW i \in DOMAIN d.exceptions PROVE Plain(X(i).reason)
  <2> DEFINE x == d.exceptions[i]
             t == Substitute(x.reason, vs)
  <2>1. DOMAIN x = {"name", "ids", "names", "tags", "expires", "reason"} /\ Listed(x.reason)
    BY <1>2 DEF IsException
  <2>2. Plain(t)
    BY <2>1, SubstitutePlain DEF HeadRenders, HeadApart
  <2>3. X(i) = [x EXCEPT !.reason = t]
    BY DEF RenderedException
  <2> HIDE DEF x, t, X
  <2>4. X(i).reason = t
    BY <2>1, <2>3
  <2> QED
    BY <2>2, <2>4
<1> HIDE DEF e, V, X
<1>6. PlainVariables(e.variables)
  BY <1>1, <1>4 DEF PlainVariables
<1>7. PlainReasons(e.exceptions)
  BY <1>1, <1>5 DEF PlainReasons
<1>8. PlainHead(e)
  BY <1>3, <1>6, <1>7 DEF PlainHead
<1> QED
  BY <1>8 DEF e

(* A plain document renders, and is rendered to itself.                    *)
LEMMA HeadSame ==
  ASSUME NEW d, NEW vs, IsDocument(d), PlainHead(d), d.overrides = <<>>
  PROVE RenderedManifest(d, vs) = d /\ AllRender(ManifestTexts(d), vs)
<1> DEFINE e == RenderedManifest(d, vs)
           V(i) == RenderedVariable(d.variables[i], vs)
           O(i) == RenderedOverride(d.overrides[i], vs)
           X(i) == RenderedException(d.exceptions[i], vs)
<1>1. /\ DOMAIN e = DOMAIN d
      /\ e.title = Substitute(d.title, vs)
      /\ e.commit = {Substitute(t, vs) : t \in d.commit}
      /\ e.variables = [i \in DOMAIN d.variables |-> V(i)]
      /\ e.overrides = [i \in DOMAIN d.overrides |-> O(i)]
      /\ e.exceptions = [i \in DOMAIN d.exceptions |-> X(i)]
      /\ e.groups = d.groups /\ e.bindings = d.bindings /\ e.mode = d.mode
      /\ IsFunction(e)
  BY RenderedManifestIs
<1>2. /\ DOMAIN d = {"title", "variables", "bindings", "overrides", "exceptions", "groups",
                     "mode", "commit"}
      /\ IsFunction(d) /\ Listed(d.title) /\ \A t \in d.commit : Listed(t)
      /\ Listed(d.variables) /\ \A i \in DOMAIN d.variables : IsVariable(d.variables[i])
      /\ Listed(d.exceptions) /\ \A i \in DOMAIN d.exceptions : IsException(d.exceptions[i])
  BY DEF IsDocument, AreExceptions, IsOptional
<1>3. /\ Plain(d.title) /\ \A t \in d.commit : Plain(t)
      /\ \A i \in DOMAIN d.variables : \A t \in d.variables[i].default : Plain(t)
      /\ \A i \in DOMAIN d.exceptions : Plain(d.exceptions[i].reason)
  BY DEF PlainHead, PlainVariables, PlainReasons
<1>4. e.title = d.title /\ e.commit = d.commit
  <2>1. \A t \in d.commit : Substitute(t, vs) = t
    BY <1>2, <1>3, SubstituteNothing
  <2>2. Substitute(d.title, vs) = d.title
    BY <1>2, <1>3, SubstituteNothing
  <2> QED
    BY <1>1, <2>1, <2>2
<1>5. ASSUME NEW i \in DOMAIN d.variables PROVE V(i) = d.variables[i]
  <2> DEFINE v == d.variables[i]
             D == {Substitute(s, vs) : s \in v.default}
  <2>1. IsFunction(v) /\ \A s \in v.default : Listed(s)
    BY <1>2 DEF IsVariable, IsOptional
  <2>2. D = v.default
    <3>1. \A s \in v.default : Substitute(s, vs) = s
      BY <1>3, <2>1, SubstituteNothing
    <3> QED
      BY <3>1
  <2>3. V(i) = [v EXCEPT !.default = D]
    BY DEF RenderedVariable
  <2> HIDE DEF v, D, V
  <2>4. V(i) = v
    BY <2>1, <2>2, <2>3 DEF IsFunction
  <2> QED
    BY <2>4 DEF v
<1>6. ASSUME NEW i \in DOMAIN d.exceptions PROVE X(i) = d.exceptions[i]
  <2> DEFINE x == d.exceptions[i]
             t == Substitute(x.reason, vs)
  <2>1. IsFunction(x) /\ Listed(x.reason)
    BY <1>2 DEF IsException
  <2>2. t = x.reason
    BY <1>3, <2>1, SubstituteNothing
  <2>3. X(i) = [x EXCEPT !.reason = t]
    BY DEF RenderedException
  <2> HIDE DEF x, t, X
  <2>4. X(i) = x
    BY <2>1, <2>2, <2>3 DEF IsFunction
  <2> QED
    BY <2>4 DEF x
<1> HIDE DEF V, X
<1>7. e.variables = d.variables
  <2>1. d.variables = [i \in DOMAIN d.variables |-> d.variables[i]]
    BY <1>2, ListIs
  <2> QED
    BY <1>1, <1>5, <2>1
<1>8. e.exceptions = d.exceptions
  <2>1. d.exceptions = [i \in DOMAIN d.exceptions |-> d.exceptions[i]]
    BY <1>2, ListIs
  <2> QED
    BY <1>1, <1>6, <2>1
<1>9. e.overrides = d.overrides
  <2>1. d.overrides = [i \in DOMAIN d.overrides |-> d.overrides[i]] /\ DOMAIN d.overrides = {}
    OBVIOUS
  <2> HIDE DEF O
  <2>2. \A i \in DOMAIN d.overrides : O(i) = d.overrides[i]
    BY <2>1
  <2> HIDE DEF e
  <2> QED
    BY <1>1, <2>1, <2>2
<1> HIDE DEF e
<1>10. e = d
  BY <1>1, <1>2, <1>4, <1>7, <1>8, <1>9 DEF IsFunction
<1>11. HeadRenders(d, vs)
  <2>1. /\ \A i \in DOMAIN d.variables : \A t \in d.variables[i].default : Listed(t)
        /\ \A i \in DOMAIN d.exceptions : Listed(d.exceptions[i].reason)
    BY <1>2 DEF IsVariable, IsOptional, IsException
  <2> QED
    BY <1>2, <1>3, <2>1, PlainRenders DEF HeadRenders
<1>12. \A i \in DOMAIN d.overrides : AllRender(OverrideTexts(d.overrides[i]), vs)
  OBVIOUS
<1>13. AllRender(ManifestTexts(d), vs)
  BY <1>11, <1>12, ManifestRenders
<1> QED
  BY <1>10, <1>13 DEF e

(* The content of a rule is rendered to plain content ...                  *)
LEMMA RulePlain ==
  ASSUME NEW r, NEW vs, NEW S, IsRule(r), AreTexts(vs), From(vs, S), ContentApart(r, S),
         AllRender(ContentTexts(r.when, r.actions), vs)
  PROVE PlainContent(RenderedRule(r, vs).when, RenderedRule(r, vs).actions)
<1> DEFINE as == r.actions
           bs == RenderedActions(as, vs)
           Fields(a) == [f \in ActionFields |->
                           IF f \in TextFields THEN Substitute(a.fields[f], vs) ELSE a.fields[f]]
           w == Substitute(r.when, vs)
           q == [r EXCEPT !.when = w, !.actions = bs]
<1>1. /\ DOMAIN r = {"name", "id", "tags", "stream", "parts", "path", "settings", "when", "actions"}
      /\ Listed(r.when) /\ AreActions(as)
  BY DEF IsRule, IsContent
<1>2. /\ Renders(r.when, vs)
      /\ \A k \in DOMAIN as : Renders(as[k].fields.rate, vs) /\ Renders(as[k].fields.body, vs)
  BY <1>1, ContentRenders
<1>3. Plain(w)
  BY <1>1, <1>2, SubstitutePlain DEF ContentApart
<1>4. ASSUME NEW k \in DOMAIN as PROVE Plain(bs[k].fields.rate) /\ Plain(bs[k].fields.body)
  <2> DEFINE a == as[k]
  <2>1. DOMAIN a = {"type", "name", "fields"} /\ Listed(a.fields.rate) /\ Listed(a.fields.body)
    BY <1>1 DEF AreActions, IsAction
  <2>2. Fields(a).rate = Substitute(a.fields.rate, vs) /\ Fields(a).body = Substitute(a.fields.body, vs)
    BY DEF ActionFields, TextFields
  <2>3. Plain(Fields(a).rate) /\ Plain(Fields(a).body)
    <3>1. ClosesApart(a.fields.rate, S) /\ ClosesApart(a.fields.body, S)
      BY DEF ContentApart, TextFields
    <3>2. Renders(a.fields.rate, vs) /\ Renders(a.fields.body, vs)
      BY <1>2
    <3> HIDE DEF a, Fields
    <3> QED
      BY <2>1, <2>2, <3>1, <3>2, SubstitutePlain
  <2>4. bs[k] = [a EXCEPT !.fields = Fields(a)]
    BY DEF RenderedActions
  <2> HIDE DEF Fields, a, bs
  <2>5. bs[k].fields = Fields(a)
    BY <2>1, <2>4
  <2> QED
    BY <2>3, <2>5
<1>5. DOMAIN bs = DOMAIN as
  BY DEF RenderedActions
<1>6. RenderedRule(r, vs) = q
  BY DEF RenderedRule
<1> HIDE DEF bs, w
<1>7. q.when = w /\ q.actions = bs
  BY <1>1
<1> HIDE DEF q, as
<1> QED
  BY <1>3, <1>4, <1>5, <1>6, <1>7 DEF PlainContent, PlainActions

(* ... and such content renders, to itself.                                *)
LEMMA RuleSame ==
  ASSUME NEW r, NEW vs, IsRule(r), PlainContent(r.when, r.actions)
  PROVE RenderedRule(r, vs) = r /\ AllRender(ContentTexts(r.when, r.actions), vs)
<1> DEFINE as == r.actions
           bs == RenderedActions(as, vs)
           Fields(a) == [f \in ActionFields |->
                           IF f \in TextFields THEN Substitute(a.fields[f], vs) ELSE a.fields[f]]
           w == Substitute(r.when, vs)
           q == [r EXCEPT !.when = w, !.actions = bs]
<1>1. /\ IsFunction(r) /\ Listed(r.when) /\ AreActions(as)
  BY DEF IsRule, IsContent
<1>2. /\ Plain(r.when) /\ \A k \in DOMAIN as : Plain(as[k].fields.rate) /\ Plain(as[k].fields.body)
  BY DEF PlainContent, PlainActions
<1>3. w = r.when
  BY <1>1, <1>2, SubstituteNothing
<1>4. ASSUME NEW k \in DOMAIN as PROVE bs[k] = as[k]
  <2> DEFINE a == as[k]
  <2>1. /\ IsFunction(a) /\ DOMAIN a.fields = ActionFields /\ IsFunction(a.fields)
        /\ Listed(a.fields.rate) /\ Listed(a.fields.body)
    BY <1>1 DEF AreActions, IsAction
  <2>2. Substitute(a.fields.rate, vs) = a.fields.rate /\ Substitute(a.fields.body, vs) = a.fields.body
    BY <1>2, <2>1, SubstituteNothing
  <2>3. \A f \in ActionFields : Fields(a)[f] = a.fields[f]
    BY <2>2 DEF TextFields
  <2>4. Fields(a) = [f \in ActionFields |-> Fields(a)[f]]
    OBVIOUS
  <2>5. bs[k] = [a EXCEPT !.fields = Fields(a)]
    BY DEF RenderedActions
  <2> HIDE DEF Fields, a, bs
  <2>6. Fields(a) = a.fields
    BY <2>1, <2>3, <2>4 DEF IsFunction
  <2>7. bs[k] = a
    BY <2>1, <2>5, <2>6 DEF IsFunction
  <2> QED
    BY <2>7 DEF a
<1>5. bs = [k \in DOMAIN as |-> bs[k]]
  BY DEF RenderedActions
<1>6. RenderedRule(r, vs) = q
  BY DEF RenderedRule
<1> HIDE DEF bs, w
<1>7. bs = as
  <2>1. as = [k \in DOMAIN as |-> as[k]]
    BY <1>1, ListIs DEF AreActions
  <2> QED
    BY <1>4, <1>5, <2>1
<1>8. q = r
  BY <1>1, <1>3, <1>7 DEF IsFunction
<1>9. AllRender(ContentTexts(r.when, r.actions), vs)
  <2>1. \A k \in DOMAIN as : Listed(as[k].fields.rate) /\ Listed(as[k].fields.body)
    BY <1>1 DEF AreActions, IsAction
  <2> HIDE DEF as
  <2>2. \A k \in DOMAIN as : Renders(as[k].fields.rate, vs) /\ Renders(as[k].fields.body, vs)
    BY <1>2, <2>1, PlainRenders
  <2> QED
    BY <1>1, <1>2, <2>2, ContentRenders, PlainRenders DEF as
<1> QED
  BY <1>6, <1>8, <1>9

-----------------------------------------------------------------------------
\* Where the stages lead, and what each leaves alone.

\* The stages before and after the options are worked in, and after all checks.
EditStages == {"overrides", "checking", "applying", "mutations", "options"}
CheckedStages == {"writing", "loading", "done"}
FinalStages == {"document"} \cup CheckedStages
RenderedStages == EditStages \cup FinalStages
ResolvedStages == {"strings", "contents"} \cup RenderedStages

\* The clock is a number of seconds.
NowInv == now \in Nat

\* Variables stay resolved as they were.
ResolvedInv ==
  stage \in ResolvedStages =>
    Resolvable(head, options.supplied) /\ values = Resolved(head, options.supplied)

\* Until they are pinned, the variables are those of the manifest, rendered.
VariablesInv ==
  stage \in {"contents"} \cup EditStages =>
    document.variables = [i \in DOMAIN head.variables |-> RenderedVariable(head.variables[i], values)]

\* What the last checks found of a document.
Valid(d, rs, time) ==
  ShapeValid(d, rs) /\ ExceptionsValid(d.exceptions, rs, time) /\ ReferencesValid(rs)

ValidInv == stage \in CheckedStages => Valid(document, rules, now)

(* What the steps other than Reinstall leave alone.                        *)
LEMMA Frame ==
  ASSUME [Next]_vars
  PROVE /\ limits' = limits
        /\ Reinstall \/ (/\ manifest' = manifest /\ options' = options
                         /\ now' = now /\ earlier' = earlier)
        /\ Reinstall \/ ResolveVariables \/ values' = values
        /\ Reinstall \/ RenderStrings \/ RenderContents \/ ApplyOptions \/ document' = document
        /\ Reinstall \/ RenderContents \/ FinishOverrides \/ ApplyOptions \/ rules' = rules
        /\ Reinstall \/ RenderContents \/ overrides' = overrides
<1>1. CASE Admit \/ ValidateShape \/ ReserveExceptions
  BY <1>1 DEF Admit, ValidateShape, ReserveExceptions, requestVars
<1>2. CASE ResolveVariables
  BY <1>2 DEF ResolveVariables, requestVars
<1>3. CASE RenderStrings
  BY <1>3 DEF RenderStrings, requestVars
<1>4. CASE RenderContents
  BY <1>4 DEF RenderContents, requestVars
<1>5. CASE OverrideStep /\ UNCHANGED <<requestVars, values, document, meterVars, loaded>>
  <2>1. /\ manifest' = manifest /\ options' = options /\ now' = now /\ earlier' = earlier
        /\ values' = values /\ document' = document
    BY <1>5 DEF requestVars
  <2>2. CASE SkipOverrides \/ ReserveSelectors \/ CheckRule \/ FinishCheck
    BY <2>1, <2>2 DEF SkipOverrides, ReserveSelectors, CheckRule, FinishCheck
  <2>3. CASE CopyRule \/ CloseRule \/ FinishOverrides
    BY <2>1, <2>3 DEF CopyRule, CloseRule, FinishOverrides
  <2>4. CASE PassOverride \/ OverrideRule \/ OverrideAction
    BY <2>1, <2>4 DEF PassOverride, OverrideRule, OverrideAction, AtOverride
  <2> QED
    BY <1>5, <2>2, <2>3, <2>4 DEF OverrideStep
<1>6. CASE ReserveMutations \/ ApplyOptions \/ CheckDocument \/ WriteManifest
  BY <1>6 DEF ReserveMutations, ApplyOptions, CheckDocument, WriteManifest, requestVars
<1>7. CASE PassRule \/ LoadFile \/ FinishLoading
  BY <1>7 DEF PassRule, LoadFile, FinishLoading, requestVars
<1>8. CASE Reinstall
  BY <1>8 DEF Reinstall
<1>9. CASE Rest \/ UNCHANGED vars
  BY <1>9 DEF Rest, vars, overrideVars, requestVars
<1> QED
  BY <1>1, <1>2, <1>3, <1>4, <1>5, <1>6, <1>7, <1>8, <1>9 DEF Next, ParseStep

(* Where each step leads from.                                             *)
LEMMA StageMoves ==
  ASSUME [Next]_vars
  PROVE \/ Reinstall /\ stage = "done" /\ stage' = "admission"
        \/ (Admit \/ ValidateShape \/ ReserveExceptions) /\ stage' \in {"shape", "exceptions", "variables", "refused"}
        \/ ResolveVariables /\ stage = "variables" /\ stage' \in {"strings", "refused"}
        \/ RenderStrings /\ stage = "strings" /\ stage' \in {"contents", "refused"}
        \/ RenderContents /\ stage = "contents" /\ stage' \in {"overrides", "refused"}
        \/ (SkipOverrides \/ FinishOverrides) /\ stage \in {"overrides", "applying"} /\ stage' = "mutations"
        \/ ReserveSelectors /\ stage = "overrides" /\ stage' \in {"checking", "refused"}
        \/ CheckRule /\ stage = "checking" /\ stage' \in {"checking", "refused"}
        \/ FinishCheck /\ stage = "checking" /\ stage' \in {"applying", "refused"}
        \/ (CopyRule \/ PassOverride \/ OverrideRule \/ CloseRule) /\ stage = "applying" /\ stage' = "applying"
        \/ OverrideAction /\ stage = "applying" /\ stage' \in {"applying", "refused"}
        \/ ReserveMutations /\ stage = "mutations" /\ stage' \in {"options", "refused"}
        \/ ApplyOptions /\ stage = "options" /\ stage' = "document"
        \/ CheckDocument /\ stage = "document" /\ stage' \in {"writing", "refused"}
        \/ WriteManifest /\ stage = "writing"
             /\ stage' \in {IF options.bundle THEN "loading" ELSE "done", "refused"}
        \/ (PassRule \/ LoadFile \/ FinishLoading) /\ stage = "loading"
             /\ stage' \in {"loading", "done", "refused"}
        \/ (Rest \/ UNCHANGED vars) /\ UNCHANGED vars
<1>1. CASE Admit \/ ValidateShape \/ ReserveExceptions
  BY <1>1 DEF Admit, ValidateShape, ReserveExceptions, Go
<1>2. CASE ResolveVariables
  BY <1>2 DEF ResolveVariables, Go
<1>3. CASE RenderStrings
  BY <1>3 DEF RenderStrings, Go
<1>4. CASE RenderContents
  BY <1>4 DEF RenderContents, Go
<1>5. CASE OverrideStep
  <2>1. CASE SkipOverrides
    BY <2>1 DEF SkipOverrides
  <2>2. CASE ReserveSelectors
    BY <2>2 DEF ReserveSelectors, Go
  <2>3. CASE CheckRule
    BY <2>3 DEF CheckRule, Go
  <2>4. CASE FinishCheck
    BY <2>4 DEF FinishCheck, Go
  <2>5. CASE CopyRule \/ CloseRule \/ FinishOverrides
    BY <2>5 DEF CopyRule, CloseRule, FinishOverrides
  <2>6. CASE PassOverride \/ OverrideRule
    BY <2>6 DEF PassOverride, OverrideRule, AtOverride
  <2>7. CASE OverrideAction
    BY <2>7 DEF OverrideAction, AtOverride, Go
  <2> QED
    BY <1>5, <2>1, <2>2, <2>3, <2>4, <2>5, <2>6, <2>7 DEF OverrideStep
<1>6. CASE ReserveMutations \/ CheckDocument
  BY <1>6 DEF ReserveMutations, CheckDocument, Go
<1>7. CASE ApplyOptions
  BY <1>7 DEF ApplyOptions
<1>8. CASE WriteManifest
  BY <1>8 DEF WriteManifest, Go
<1>9. CASE PassRule \/ LoadFile \/ FinishLoading
  BY <1>9 DEF PassRule, LoadFile, FinishLoading, Go
<1>10. CASE Reinstall
  BY <1>10 DEF Reinstall
<1>11. CASE Rest \/ UNCHANGED vars
  BY <1>11 DEF Rest
<1> QED
  BY <1>1, <1>2, <1>3, <1>4, <1>5, <1>6, <1>7, <1>8, <1>9, <1>10, <1>11 DEF Next, ParseStep

(* The clock never goes back.                                              *)
LEMMA NowStep ==
  ASSUME NowInv, [Next]_vars
  PROVE NowInv' /\ now' >= now
<1>1. CASE Reinstall
  BY <1>1 DEF NowInv, Reinstall
<1>2. CASE ~Reinstall
  <2>1. now' = now
    BY <1>2, Frame
  <2> QED
    BY <2>1 DEF NowInv
<1> QED
  BY <1>1, <1>2

(* What variables resolved to is not touched.                              *)
LEMMA ResolvedStep ==
  ASSUME ResolvedInv, [Next]_vars
  PROVE ResolvedInv'
<1>1. CASE Reinstall
  <2>1. stage' = "admission"
    BY <1>1 DEF Reinstall
  <2> QED
    BY <2>1 DEF ResolvedInv, ResolvedStages, RenderedStages, EditStages, FinalStages, CheckedStages
<1>2. CASE ResolveVariables
  BY <1>2 DEF ResolveVariables, Go, ResolvedInv, ResolvedStages, RenderedStages, EditStages,
              FinalStages, CheckedStages, head, requestVars
<1>3. CASE ~Reinstall /\ ~ResolveVariables
  <2>1. manifest' = manifest /\ options' = options /\ values' = values
    BY <1>3, Frame
  <2>2. stage' \in ResolvedStages => stage \in ResolvedStages
    <3>1. stage \in ResolvedStages \/ stage' \notin ResolvedStages \/ UNCHANGED vars
      BY <1>3, StageMoves, Zenon DEF ResolvedStages, RenderedStages, EditStages, FinalStages, CheckedStages
    <3> QED
      BY <3>1 DEF vars, overrideVars
  <2> QED
    BY <2>1, <2>2 DEF ResolvedInv, head
<1> QED
  BY <1>1, <1>2, <1>3

-----------------------------------------------------------------------------
\* Variables as they are resolved, rendered and fixed; what was checked.

(* The variables of a rendered manifest.                                   *)
LEMMA RenderedVariables ==
  ASSUME NEW d, NEW vs, IsDocument(d)
  PROVE RenderedManifest(d, vs).variables =
          [i \in DOMAIN d.variables |-> RenderedVariable(d.variables[i], vs)]
<1> DEFINE e == RenderedManifest(d, vs)
           V(i) == RenderedVariable(d.variables[i], vs)
<1>1. /\ DOMAIN e = DOMAIN d
      /\ e.title = Substitute(d.title, vs)
      /\ e.commit = {Substitute(t, vs) : t \in d.commit}
      /\ e.variables = [i \in DOMAIN d.variables |-> V(i)]
      /\ e.overrides = [i \in DOMAIN d.overrides |-> RenderedOverride(d.overrides[i], vs)]
      /\ e.exceptions = [i \in DOMAIN d.exceptions |-> RenderedException(d.exceptions[i], vs)]
      /\ e.groups = d.groups /\ e.bindings = d.bindings /\ e.mode = d.mode
      /\ IsFunction(e)
  BY RenderedManifestIs
<1> QED
  BY <1>1

(* The variables of the document follow from what they were resolved to.   *)
LEMMA VariablesStep ==
  ASSUME TypesInv, VariablesInv, [Next]_vars
  PROVE VariablesInv'
<1> USE DEF EditStages
<1>1. CASE RenderStrings
  <2>1. stage' = "contents" => document' = RenderedManifest(head, values)
    BY <1>1 DEF RenderStrings, Go
  <2>2. IsDocument(head)
    BY DEF TypesInv, head
  <2>3. RenderedManifest(head, values).variables =
          [i \in DOMAIN head.variables |-> RenderedVariable(head.variables[i], values)]
    BY <2>2, RenderedVariables
  <2>4. manifest' = manifest /\ values' = values /\ stage' \in {"contents", "refused"}
    BY <1>1 DEF RenderStrings, requestVars, Go
  <2> QED
    BY <2>1, <2>3, <2>4 DEF VariablesInv, head
<1>2. CASE RenderContents
  <2>1. manifest' = manifest /\ values' = values /\ stage = "contents"
    BY <1>2 DEF RenderContents, requestVars
  <2>2. document' = document \/ \E gs : document' = [document EXCEPT !.groups = gs]
    BY <1>2 DEF RenderContents
  <2>3. document'.variables = document.variables
    BY <2>2 DEF TypesInv, IsDocument
  <2> QED
    BY <2>1, <2>3 DEF VariablesInv, head
<1>3. CASE Reinstall \/ ApplyOptions
  <2>1. stage' \in {"admission", "document"}
    BY <1>3 DEF Reinstall, ApplyOptions
  <2> QED
    BY <2>1 DEF VariablesInv
<1>4. CASE ResolveVariables
  <2>1. stage' \in {"strings", "refused"}
    BY <1>4 DEF ResolveVariables, Go
  <2> QED
    BY <2>1 DEF VariablesInv
<1>5. CASE ~(Reinstall \/ ApplyOptions \/ RenderStrings \/ RenderContents \/ ResolveVariables)
  <2>1. manifest' = manifest /\ document' = document /\ values' = values
    BY <1>5, Frame
  <2>2. stage' \in {"contents"} \cup EditStages => stage \in {"contents"} \cup EditStages
    <3>1. \/ stage \in {"contents"} \cup EditStages \/ stage' \notin {"contents"} \cup EditStages
          \/ UNCHANGED vars
      BY <1>5, StageMoves, Zenon
    <3> QED
      BY <3>1 DEF vars, overrideVars
  <2> QED
    BY <2>1, <2>2 DEF VariablesInv, head
<1> QED
  BY <1>1, <1>2, <1>3, <1>4, <1>5

(* What was checked is what is written.                                    *)
LEMMA ValidStep ==
  ASSUME ValidInv, [Next]_vars
  PROVE ValidInv'
<1>1. CASE CheckDocument
  <2>1. document' = document /\ rules' = rules /\ now' = now
    BY <1>1 DEF CheckDocument, requestVars
  <2>2. stage' = "writing" => Valid(document, rules, now)
    BY <1>1 DEF CheckDocument, Go, Valid
  <2>3. stage' \in {"writing", "refused"}
    BY <1>1 DEF CheckDocument, Go
  <2> QED
    BY <2>1, <2>2, <2>3 DEF ValidInv, CheckedStages
<1>2. CASE Reinstall \/ ResolveVariables \/ RenderStrings \/ RenderContents \/ ApplyOptions \/ FinishOverrides
  <2>1. stage' \notin CheckedStages
    BY <1>2 DEF Reinstall, ResolveVariables, RenderStrings, RenderContents, ApplyOptions,
                FinishOverrides, Go, CheckedStages
  <2> QED
    BY <2>1 DEF ValidInv
<1>3. CASE ~(\/ Reinstall \/ ResolveVariables \/ RenderStrings \/ RenderContents \/ ApplyOptions
             \/ FinishOverrides \/ CheckDocument)
  <2>1. now' = now /\ document' = document /\ rules' = rules
    BY <1>3, Frame
  <2>2. stage' \in CheckedStages => stage \in CheckedStages
    <3>1. stage \in CheckedStages \/ stage' \notin CheckedStages \/ UNCHANGED vars
      BY <1>3, StageMoves, Zenon DEF CheckedStages
    <3> QED
      BY <3>1 DEF vars, overrideVars
  <2> QED
    BY <2>1, <2>2 DEF ValidInv
<1> QED
  BY <1>1, <1>2, <1>3

\* Every variable has its final value for a default, or needs none.
Fixed(vs) ==
  /\ \A i \in DOMAIN vs : vs[i].required = FALSE
  /\ \A i, j \in DOMAIN vs : vs[i].name = vs[j].name => vs[i].default = vs[j].default

\* A manifest rendered for installation is fixed, and nothing is left to work in.
PinnedInv ==
  options.pin /\ stage \in FinalStages =>
    document.bindings = <<>> /\ document.overrides = <<>> /\ Fixed(document.variables)

(* Once pinned, every variable is fixed.                                   *)
LEMMA PinnedFixed ==
  ASSUME NEW d, NEW supplied, NEW us, IsDocument(d), AreTexts(supplied), Resolvable(d, supplied),
         us = [i \in DOMAIN d.variables |->
                 PinnedVariable(RenderedVariable(d.variables[i], Resolved(d, supplied)), TRUE,
                                Resolved(d, supplied))]
  PROVE Fixed(us)
<1> DEFINE vs == d.variables
           known == Resolved(d, supplied)
           D(i) == {Substitute(t, known) : t \in vs[i].default}
           R(i) == RenderedVariable(vs[i], known)
<1>1. \A i \in DOMAIN vs :
        /\ DOMAIN vs[i] = {"name", "default", "required"} /\ vs[i].required \in BOOLEAN
  BY DEF IsDocument, IsVariable
<1>2. \A n : n \in DOMAIN known <=>
               n \in Names(vs) \cup Targeted(d) /\ Resolutions(d, supplied, n) # {}
  BY DEF Resolved
<1>3. \A i \in DOMAIN vs : vs[i].name \in Names(vs)
  BY DEF Names
<1>4. ASSUME NEW i \in DOMAIN vs, vs[i].name \notin DOMAIN known
      PROVE vs[i].default = {} /\ vs[i].required = FALSE
  <2>1. Resolutions(d, supplied, vs[i].name) = {}
    BY <1>2, <1>3, <1>4
  <2>2. ~vs[i].required
    BY <2>1 DEF Resolvable
  <2>3. vs[i].name \notin DOMAIN supplied
    BY <2>1 DEF Resolutions
  <2>4. i \in {j \in DOMAIN vs : vs[j].name = vs[i].name}
    OBVIOUS
  <2>5. vs[i].default = {}
    BY <2>1, <2>3, <2>4 DEF Resolutions
  <2> QED
    BY <1>1, <2>2, <2>5
<1>5. ASSUME NEW i \in DOMAIN vs
      PROVE /\ R(i).name = vs[i].name /\ R(i).default = D(i) /\ R(i).required = vs[i].required
            /\ DOMAIN R(i) = {"name", "default", "required"}
  <2> DEFINE v == vs[i]
             E == D(i)
  <2>1. R(i) = [v EXCEPT !.default = E]
    BY DEF RenderedVariable
  <2>2. DOMAIN v = {"name", "default", "required"}
    BY <1>1
  <2> HIDE DEF v, E, R
  <2>3. R(i).name = v.name /\ R(i).default = E /\ R(i).required = v.required
        /\ DOMAIN R(i) = {"name", "default", "required"}
    BY <2>1, <2>2
  <2> QED
    BY <2>3 DEF v, E
<1>6. DOMAIN us = DOMAIN vs /\ \A i \in DOMAIN vs : us[i] = PinnedVariable(R(i), TRUE, known)
  OBVIOUS
<1> HIDE DEF vs, R, known
<1>7. ASSUME NEW i \in DOMAIN vs
      PROVE /\ us[i].name = vs[i].name /\ us[i].required = FALSE
            /\ us[i].default = IF vs[i].name \in DOMAIN known THEN {known[vs[i].name]} ELSE {}
  <2>1. CASE vs[i].name \in DOMAIN known
    <3> DEFINE r == R(i)
               x == {known[vs[i].name]}
    <3>1. DOMAIN r = {"name", "default", "required"} /\ r.name = vs[i].name
      BY <1>5
    <3>2. us[i] = PinnedVariable(r, TRUE, known)
      BY <1>6, Zenon
    <3> HIDE DEF r
    <3>3. us[i] = [r EXCEPT !.default = x, !.required = FALSE]
      BY <2>1, <3>1, <3>2, Zenon DEF PinnedVariable
    <3> HIDE DEF x
    <3>4. us[i].name = vs[i].name /\ us[i].required = FALSE /\ us[i].default = x
      <4> DEFINE q == [r EXCEPT !.default = x, !.required = FALSE]
      <4>1. q.name = r.name /\ q.required = FALSE /\ q.default = x
        BY <3>1
      <4> HIDE DEF q
      <4>2. us[i] = q
        BY <3>3 DEF q
      <4> QED
        BY <3>1, <4>1, <4>2, Zenon
    <3> QED
      BY <2>1, <3>4 DEF x
  <2>2. CASE vs[i].name \notin DOMAIN known
    <3>1. us[i] = PinnedVariable(R(i), TRUE, known) /\ R(i).name = vs[i].name
      BY <1>5, <1>6, Zenon
    <3>2. us[i] = R(i)
      BY <2>2, <3>1, Zenon DEF PinnedVariable
    <3>3. vs[i].default = {} /\ vs[i].required = FALSE
      BY <1>4, <2>2
    <3>4. D(i) = {}
      BY <3>3
    <3> QED
      BY <1>5, <2>2, <3>2, <3>3, <3>4
  <2> QED
    BY <2>1, <2>2
<1> DEFINE W(n) == IF n \in DOMAIN known THEN {known[n]} ELSE {}
           N(i) == vs[i].name
<1>8. \A i \in DOMAIN vs : us[i].name = N(i) /\ us[i].required = FALSE /\ us[i].default = W(N(i))
  BY <1>7
<1> HIDE DEF W, N
<1>9. \A i \in DOMAIN us : us[i].required = FALSE
  BY <1>6, <1>8
<1>10. ASSUME NEW i \in DOMAIN us, NEW j \in DOMAIN us, us[i].name = us[j].name
       PROVE us[i].default = us[j].default
  <2>1. N(i) = N(j)
    BY <1>6, <1>8, <1>10
  <2> QED
    BY <1>6, <1>8, <2>1
<1> QED
  BY <1>9, <1>10 DEF Fixed

(* The options fix the variables, and nothing after them touches the       *)
(* document.                                                               *)
LEMMA PinnedStep ==
  ASSUME TypesInv, ResolvedInv, VariablesInv, PinnedInv, [Next]_vars
  PROVE PinnedInv'
<1>1. CASE ApplyOptions
  <2> SUFFICES ASSUME options.pin
               PROVE /\ document'.bindings = <<>> /\ document'.overrides = <<>>
                     /\ Fixed(document'.variables)
    BY <1>1 DEF PinnedInv, ApplyOptions, requestVars
  <2>1. document' = Pinned(Extended)
    BY <1>1, ApplyOptionsIs DEF OptionsApplied
  <2>2. IsDocument(Extended) /\ Extended.variables = document.variables
    BY ExtendedIs DEF TypesInv
  <2>3. AreTexts(values)
    BY DEF TypesInv
  <2>4. /\ Pinned(Extended).bindings = <<>> /\ Pinned(Extended).overrides = <<>>
        /\ Pinned(Extended).variables =
             [i \in DOMAIN document.variables |-> PinnedVariable(document.variables[i], options.pin, values)]
    <3> DEFINE e == Extended
               p == Pinned(e)
               Of(vs) == [i \in DOMAIN vs |-> PinnedVariable(vs[i], options.pin, values)]
    <3>1. IsDocument(e) /\ e.variables = document.variables
      BY <2>2
    <3> HIDE DEF e
    <3>2. p.bindings = <<>> /\ p.overrides = <<>> /\ p.variables = Of(e.variables)
      BY <2>3, <3>1, PinnedIs, Zenon
    <3> HIDE DEF p, Of
    <3>3. p.bindings = <<>> /\ p.overrides = <<>> /\ p.variables = Of(document.variables)
      BY <3>1, <3>2, Zenon
    <3> QED
      BY <3>3, Zenon DEF p, e, Of
  <2>5. stage = "options"
    BY <1>1 DEF ApplyOptions
  <2>6. /\ Resolvable(head, options.supplied) /\ values = Resolved(head, options.supplied)
        /\ document.variables = [i \in DOMAIN head.variables |-> RenderedVariable(head.variables[i], values)]
    BY <2>5 DEF ResolvedInv, VariablesInv, ResolvedStages, RenderedStages, EditStages
  <2>7. options.pin = TRUE => Fixed(document'.variables)
    <3> DEFINE us == document'.variables
               R(i) == RenderedVariable(head.variables[i], values)
    <3>1. us = [i \in DOMAIN document.variables |-> PinnedVariable(document.variables[i], options.pin, values)]
      BY <2>1, <2>4
    <3>2. /\ DOMAIN document.variables = DOMAIN head.variables
          /\ \A i \in DOMAIN head.variables : document.variables[i] = R(i)
      BY <2>6
    <3> HIDE DEF us, R
    <3>3. us = [i \in DOMAIN head.variables |-> PinnedVariable(R(i), options.pin, values)]
      BY <3>1, <3>2
    <3>4. \A i : PinnedVariable(R(i), options.pin, values) = PinnedVariable(R(i), TRUE, values)
      BY DEF PinnedVariable
    <3>5. us = [i \in DOMAIN head.variables |-> PinnedVariable(R(i), TRUE, values)]
      BY <3>3, <3>4
    <3>6. IsDocument(head) /\ AreTexts(options.supplied)
      BY DEF TypesInv, IsOptions, head
    <3>7. us = [i \in DOMAIN head.variables |->
                  PinnedVariable(RenderedVariable(head.variables[i], Resolved(head, options.supplied)),
                                 TRUE, Resolved(head, options.supplied))]
      BY <2>6, <3>5 DEF R
    <3>8. Fixed(us)
      BY <2>6, <3>6, <3>7, PinnedFixed
    <3> QED
      BY <3>8 DEF us
  <2>8. Fixed(document'.variables)
    BY <2>7
  <2> QED
    BY <2>1, <2>4, <2>8
<1>2. CASE Reinstall \/ ResolveVariables \/ RenderStrings \/ RenderContents
  <2>1. stage' \notin FinalStages
    BY <1>2 DEF Reinstall, ResolveVariables, RenderStrings, RenderContents, Go,
                FinalStages, CheckedStages
  <2> QED
    BY <2>1 DEF PinnedInv
<1>3. CASE ~(Reinstall \/ ResolveVariables \/ RenderStrings \/ RenderContents \/ ApplyOptions)
  <2>1. options' = options /\ document' = document
    BY <1>3, Frame
  <2>2. stage' \in FinalStages => stage \in FinalStages
    <3>1. stage \in FinalStages \/ stage' \notin FinalStages \/ UNCHANGED vars
      BY <1>3, StageMoves, Zenon DEF FinalStages, CheckedStages
    <3> QED
      BY <3>1 DEF vars, overrideVars
  <2> QED
    BY <2>1, <2>2 DEF PinnedInv
<1> QED
  BY <1>1, <1>2, <1>3

-----------------------------------------------------------------------------
\* No marker, nor half of one, comes in with a value, an override or an option.

(* What names resolve to is a default or was supplied.                     *)
LEMMA ResolvedFrom ==
  ASSUME NEW d, NEW supplied, NEW S, \A t \in S : Braceless(t),
         \A n \in DOMAIN supplied : supplied[n] \in S,
         \A i \in DOMAIN d.variables : d.variables[i].default \subseteq S
  PROVE From(Resolved(d, supplied), S)
<1> DEFINE R(n) == Resolutions(d, supplied, n)
           D == {m \in Names(d.variables) \cup Targeted(d) : R(m) # {}}
           vs == [n \in D |-> CHOOSE t \in R(n) : TRUE]
<1>1. Resolved(d, supplied) = vs
  BY DEF Resolved
<1>2. ASSUME NEW n, NEW t \in R(n) PROVE t \in S
  <2>1. CASE n \in DOMAIN supplied
    BY <2>1 DEF Resolutions
  <2>2. CASE n \notin DOMAIN supplied
    <3>1. t \in UNION {d.variables[i].default : i \in {j \in DOMAIN d.variables : d.variables[j].name = n}}
      BY <2>2 DEF Resolutions
    <3>2. PICK i \in DOMAIN d.variables : t \in d.variables[i].default
      BY <3>1
    <3> QED
      BY <3>2
  <2> QED
    BY <2>1, <2>2
<1> HIDE DEF R
<1>3. \A n \in DOMAIN vs : vs[n] \in R(n)
  OBVIOUS
<1>4. \A n \in DOMAIN vs : vs[n] \in S
  BY <1>2, <1>3
<1> HIDE DEF vs
<1>5. From(vs, S)
  BY <1>4 DEF From
<1> QED
  BY <1>1, <1>5

(* The rate and the body of an override are among its texts.               *)
LEMMA OverridePlain ==
  ASSUME NEW o, PlainTexts(OverrideTexts(o))
  PROVE /\ "rate" \in DOMAIN o.sets => Plain(o.sets.rate)
        /\ "body" \in DOMAIN o.sets => Plain(o.sets.body)
<1> DEFINE A == IF "rate" \in DOMAIN o.sets THEN <<o.sets.rate>> ELSE <<>>
           B == IF "body" \in DOMAIN o.sets THEN <<o.sets.body>> ELSE <<>>
           u == A \o B
<1>1. Listed(A) /\ ("rate" \in DOMAIN o.sets => 1 \in DOMAIN A /\ A[1] = o.sets.rate)
  BY EmptyList, SingleList
<1>2. Listed(B) /\ ("body" \in DOMAIN o.sets => 1 \in DOMAIN B /\ B[1] = o.sets.body)
  BY EmptyList, SingleList
<1>3. \A t \in Range(u) : Plain(t)
  BY DEF OverrideTexts, PlainTexts, Range
<1> HIDE DEF A, B
<1>4. (\A i \in DOMAIN A : A[i] \in Range(u)) /\ \A i \in DOMAIN B : B[i] \in Range(u)
  BY <1>1, <1>2, ConcatKeeps
<1> HIDE DEF u
<1> QED
  BY <1>1, <1>2, <1>3, <1>4

(* A plain override leaves the actions it edits plain.                     *)
LEMMA EditedPlain ==
  ASSUME NEW o, NEW as, PlainTexts(OverrideTexts(o)), PlainActions(as)
  PROVE PlainActions(Edited(o, as))
<1> DEFINE bs == Edited(o, as)
           O(a) == Overlay(ActionFields, o.sets, a.fields)
<1>1. bs = [k \in DOMAIN as |-> IF k \in Targets(o, as) THEN Changed(o, as[k]) ELSE as[k]]
  BY DEF Edited
<1> HIDE DEF bs
<1>2. ASSUME NEW k \in DOMAIN as PROVE Plain(bs[k].fields.rate) /\ Plain(bs[k].fields.body)
  <2> DEFINE a == as[k]
  <2>1. Plain(a.fields.rate) /\ Plain(a.fields.body)
    BY DEF PlainActions
  <2>2. bs[k] = Changed(o, a) \/ bs[k] = a
    BY <1>1
  <2>3. CASE bs[k] = Changed(o, a)
    <3>1. bs[k].fields = O(a)
      BY <2>3 DEF Changed
    <3>2. /\ O(a).rate = IF "rate" \in DOMAIN o.sets THEN o.sets.rate ELSE a.fields.rate
          /\ O(a).body = IF "body" \in DOMAIN o.sets THEN o.sets.body ELSE a.fields.body
      BY DEF Overlay, ActionFields
    <3>3. Plain(O(a).rate) /\ Plain(O(a).body)
      BY <2>1, <3>2, OverridePlain
    <3> QED
      BY <3>1, <3>3
  <2>4. CASE bs[k] = a
    BY <2>1, <2>4
  <2> QED
    BY <2>2, <2>3, <2>4
<1>3. DOMAIN bs = DOMAIN as
  BY <1>1
<1>4. PlainActions(bs)
  BY <1>2, <1>3 DEF PlainActions
<1> QED
  BY <1>4 DEF bs

(* Ordering overrides adds no text.                                        *)
LEMMA OrderedPlain ==
  ASSUME NEW s, NEW t, AreOverrides(s), AreOverrides(t), PlainOverrides(s), PlainOverrides(t)
  PROVE PlainOverrides(Ordered(s, t))
<1> DEFINE P == {o \in Range(s) \cup Range(t) : PlainTexts(OverrideTexts(o))}
           os == Ordered(s, t)
<1>1. Listed(s) /\ Listed(t)
  BY DEF AreOverrides
<1>2. (\A i \in DOMAIN s : s[i] \in P) /\ (\A i \in DOMAIN t : t[i] \in P)
  BY DEF PlainOverrides, Range
<1>3. \A o \in P : PlainTexts(OverrideTexts(o))
  OBVIOUS
<1> HIDE DEF P
<1>4. \A i \in DOMAIN os : os[i] \in P
  BY <1>1, <1>2, OrderedElements
<1> HIDE DEF os
<1>5. PlainOverrides(os)
  BY <1>3, <1>4 DEF PlainOverrides
<1> QED
  BY <1>5 DEF os

(* The texts of the contents and the groups, taken one by one.             *)
LEMMA ContentsRender ==
  ASSUME NEW rs, NEW gs, NEW vs, AreRules(rs), Listed(gs), AreTexts(gs)
  PROVE AllRender(FlattenSeq([j \in DOMAIN rs |-> InlineTexts(rs[j])]) \o gs, vs) <=>
          /\ \A j \in DOMAIN rs : "content" \in rs[j].parts =>
               AllRender(ContentTexts(rs[j].when, rs[j].actions), vs)
          /\ AllRender(gs, vs)
<1> DEFINE M == [j \in DOMAIN rs |-> InlineTexts(rs[j])]
           F == FlattenSeq(M)
<1>1. ASSUME NEW j \in DOMAIN rs
      PROVE /\ Listed(InlineTexts(rs[j]))
            /\ AllRender(InlineTexts(rs[j]), vs) <=>
                 ("content" \in rs[j].parts => AllRender(ContentTexts(rs[j].when, rs[j].actions), vs))
  <2>1. AreActions(rs[j].actions)
    BY DEF AreRules, IsRule, IsContent
  <2>2. Listed(ContentTexts(rs[j].when, rs[j].actions)) /\ Listed(<<>>)
    BY <2>1, ContentRenders, EmptyList
  <2>3. AllRender(<<>>, vs)
    BY DEF AllRender
  <2> QED
    BY <2>2, <2>3 DEF InlineTexts
<1>2. M = [j \in DOMAIN rs |-> M[j]] /\ DOMAIN M = DOMAIN rs /\ Listed(rs)
  BY DEF AreRules
<1>3. \A j \in DOMAIN rs : M[j] = InlineTexts(rs[j])
  OBVIOUS
<1> HIDE DEF M
<1>4. Listed(M) /\ AreTexts(M)
  BY <1>1, <1>2, <1>3, MappedList DEF AreTexts
<1>5. Listed(F) /\ (AllRender(F, vs) <=> \A j \in DOMAIN M : AllRender(M[j], vs))
  BY <1>4, ListFlatten, RenderMany
<1> HIDE DEF F
<1>6. AllRender(F \o gs, vs) <=> AllRender(F, vs) /\ AllRender(gs, vs)
  BY <1>5, RenderBoth
<1>7. AllRender(F, vs) <=> \A j \in DOMAIN rs : "content" \in rs[j].parts =>
                             AllRender(ContentTexts(rs[j].when, rs[j].actions), vs)
  BY <1>1, <1>2, <1>3, <1>5
<1>8. AllRender(F \o gs, vs) <=>
        /\ \A j \in DOMAIN rs : "content" \in rs[j].parts =>
             AllRender(ContentTexts(rs[j].when, rs[j].actions), vs)
        /\ AllRender(gs, vs)
  BY <1>6, <1>7
<1> QED
  BY <1>8 DEF F, M

(* The contents and the groups are rendered to plain texts.                *)
LEMMA ContentsPlain ==
  ASSUME TypesInv, NEW S, From(values, S), HeadApart(head, S),
         \A j \in DOMAIN manifest.rules : ContentApart(manifest.rules[j], S),
         RenderContents, stage' # "refused"
  PROVE /\ PlainTexts(document'.groups) /\ PlainRules(rules')
        /\ PlainHead(document) => PlainHead(document')
<1> DEFINE rs == manifest.rules
           gs == RenderedTexts(head.groups, values)
           qs == [j \in DOMAIN rs |-> Written(rs[j])]
<1>1. /\ AllRender(FlattenSeq([j \in DOMAIN rs |-> InlineTexts(rs[j])]) \o head.groups, values)
      /\ document' = [document EXCEPT !.groups = gs] /\ rules' = qs
  BY DEF RenderContents, Go
<1>2. AreRules(rs) /\ Listed(head.groups) /\ AreTexts(head.groups) /\ AreTexts(values)
  BY DEF TypesInv, IsDocument, head
<1>3. /\ \A j \in DOMAIN rs : "content" \in rs[j].parts =>
           AllRender(ContentTexts(rs[j].when, rs[j].actions), values)
      /\ AllRender(head.groups, values)
  BY <1>1, <1>2, ContentsRender
<1>4. PlainTexts(gs)
  <2>1. \A i \in DOMAIN head.groups : Plain(Substitute(head.groups[i], values))
    BY <1>2, <1>3, SubstitutePlain DEF AreTexts, AllRender, HeadApart
  <2> QED
    BY <2>1 DEF PlainTexts, RenderedTexts
<1>5. DOMAIN document = {"title", "variables", "bindings", "overrides", "exceptions", "groups",
                         "mode", "commit"}
  BY DEF TypesInv, IsDocument
<1> HIDE DEF gs
<1>6. /\ document'.groups = gs /\ document'.title = document.title
      /\ document'.commit = document.commit /\ document'.variables = document.variables
      /\ document'.exceptions = document.exceptions
  BY <1>1, <1>5
<1>7. PlainTexts(document'.groups) /\ (PlainHead(document) => PlainHead(document'))
  BY <1>4, <1>6 DEF PlainHead
<1>8. ASSUME NEW j \in DOMAIN rs, "content" \in qs[j].parts PROVE PlainContent(qs[j].when, qs[j].actions)
  <2> DEFINE r == rs[j]
             q == RenderedRule(r, values)
  <2>1. IsRule(r)
    BY <1>2 DEF AreRules
  <2>2. q.parts = r.parts
    BY <1>2, <2>1, RenderedRuleType
  <2>3. qs[j] = IF "content" \in r.parts THEN q ELSE r
    BY DEF Written
  <2>4. AllRender(ContentTexts(r.when, r.actions), values) => PlainContent(q.when, q.actions)
    BY <1>2, <2>1, RulePlain
  <2>5. "content" \in r.parts
    BY <1>8, <2>3
  <2>6. AllRender(ContentTexts(r.when, r.actions), values)
    BY <1>3, <2>5
  <2> HIDE DEF q, r
  <2>7. qs[j] = q
    BY <2>3, <2>5
  <2> QED
    BY <2>4, <2>6, <2>7
<1>9. DOMAIN qs = DOMAIN rs
  OBVIOUS
<1> HIDE DEF qs, rs
<1>10. PlainRules(qs)
  BY <1>8, <1>9 DEF PlainRules
<1> QED
  BY <1>1, <1>7, <1>10

(* The options leave a plain document plain.                               *)
LEMMA OptionsPlain ==
  ASSUME TypesInv, NEW S, From(values, S), PlainLocals(Asked), ApplyOptions,
         PlainHead(document), PlainTexts(document.groups), PlainRules(rules)
  PROVE PlainHead(document') /\ PlainTexts(document'.groups) /\ PlainRules(rules')
<1> DEFINE e == Extended
           p == Pinned(e)
           V(i) == PinnedVariable(e.variables[i], options.pin, values)
<1>1. OptionsApplied
  BY ApplyOptionsIs
<1>2. IsDocument(document) /\ IsOptions(options) /\ AreTexts(values)
  BY DEF TypesInv
<1>3. /\ IsDocument(e) /\ e.title = document.title
      /\ e.variables = document.variables /\ e.groups = document.groups
      /\ e.exceptions = document.exceptions \o locals
      /\ e.commit = IF options.commit = {} THEN document.commit ELSE options.commit
  BY <1>2, ExtendedIs
<1>4. PlainReasons(e.exceptions)
  <2> DEFINE s == document.exceptions
             t == locals
             P == {x \in Range(s) \cup Range(t) : Plain(x.reason)}
  <2>1. Listed(s) /\ Listed(t)
    BY <1>2 DEF IsDocument, IsOptions, AreExceptions, locals
  <2>2. \A i \in DOMAIN t : Plain(t[i].reason)
    BY DEF PlainLocals, Asked, locals
  <2>3. (\A i \in DOMAIN s : s[i] \in P) /\ (\A i \in DOMAIN t : t[i] \in P)
    BY <2>2 DEF PlainHead, PlainReasons, Range
  <2>4. \A x \in P : Plain(x.reason)
    OBVIOUS
  <2> HIDE DEF P, s, t
  <2>5. \A i \in DOMAIN (s \o t) : (s \o t)[i] \in P
    BY <2>1, <2>3, ConcatElements
  <2>6. e.exceptions = s \o t
    BY <1>3 DEF s, t
  <2> QED
    BY <2>4, <2>5, <2>6 DEF PlainReasons
<1>5. \A t \in e.commit : Plain(t)
  BY <1>3 DEF PlainHead, PlainLocals, Asked
<1>6. Plain(e.title) /\ PlainVariables(e.variables) /\ PlainTexts(e.groups)
  BY <1>3 DEF PlainHead
<1> HIDE DEF e
<1>7. PlainHead(e) /\ PlainTexts(e.groups)
  BY <1>4, <1>5, <1>6 DEF PlainHead
<1>8. /\ p.title = e.title /\ p.groups = e.groups /\ p.exceptions = e.exceptions
      /\ p.commit = e.commit /\ p.variables = [i \in DOMAIN e.variables |-> V(i)]
  BY <1>2, <1>3, PinnedIs
<1>9. ASSUME NEW i \in DOMAIN e.variables, NEW t \in V(i).default PROVE Plain(t)
  <2> DEFINE v == e.variables[i]
             x == {values[v.name]}
  <2>1. DOMAIN v = {"name", "default", "required"}
    BY <1>3 DEF IsDocument, IsVariable
  <2>2. \A s \in v.default : Plain(s)
    BY <1>6 DEF PlainVariables
  <2>3. CASE options.pin /\ v.name \in DOMAIN values
    <3>1. V(i) = [v EXCEPT !.default = x, !.required = FALSE]
      BY <2>3 DEF PinnedVariable
    <3>2. Plain(values[v.name])
      BY <2>3, BracelessPlain DEF From
    <3>3. \A s \in x : Plain(s)
      BY <3>2
    <3> HIDE DEF v, x, V
    <3>4. V(i).default = x
      BY <2>1, <3>1
    <3> QED
      BY <1>9, <3>3, <3>4
  <2>4. CASE ~(options.pin /\ v.name \in DOMAIN values)
    <3>1. V(i) = v
      BY <2>4 DEF PinnedVariable
    <3> QED
      BY <1>9, <2>2, <3>1
  <2> QED
    BY <2>3, <2>4
<1> HIDE DEF V
<1>10. PlainVariables(p.variables)
  BY <1>8, <1>9 DEF PlainVariables
<1> HIDE DEF p
<1>11. PlainHead(p) /\ PlainTexts(p.groups)
  BY <1>7, <1>8, <1>10 DEF PlainHead
<1>12. document' = p \/ document' = e
  BY <1>1 DEF OptionsApplied, p, e
<1>13. PlainHead(document') /\ PlainTexts(document'.groups)
  BY <1>7, <1>11, <1>12
<1>14. ASSUME NEW j \in DOMAIN rules, "content" \in rules'[j].parts
       PROVE PlainContent(rules'[j].when, rules'[j].actions)
  <2> DEFINE r == rules[j]
             q == rules'[j]
  <2>1. IsRule(r)
    BY DEF TypesInv, AreRules
  <2>2. q = r \/ \E m : q = [r EXCEPT !.settings.mode = m]
    BY <1>1 DEF OptionsApplied
  <2>3. "content" \in r.parts => PlainContent(r.when, r.actions)
    BY DEF PlainRules
  <2>4. "content" \in q.parts
    BY <1>14
  <2> HIDE DEF r, q
  <2>5. q.parts = r.parts /\ q.when = r.when /\ q.actions = r.actions
    <3>1. CASE q = r
      BY <3>1
    <3>2. CASE q # r
      <4>1. PICK m : q = [r EXCEPT !.settings.mode = m]
        BY <2>2, <3>2
      <4> DEFINE f == [r EXCEPT !.settings.mode = m]
      <4>2. f.parts = r.parts /\ f.when = r.when /\ f.actions = r.actions
        BY <2>1, ForcedRule
      <4>3. q = f
        BY <4>1
      <4> HIDE DEF f
      <4> QED
        BY <4>2, <4>3
    <3> QED
      BY <3>1, <3>2
  <2>6. PlainContent(q.when, q.actions)
    BY <2>3, <2>4, <2>5
  <2> QED
    BY <2>6 DEF q
<1>15. DOMAIN rules' = DOMAIN rules
  BY <1>1 DEF OptionsApplied
<1>16. PlainRules(rules')
  BY <1>14, <1>15 DEF PlainRules
<1> QED
  BY <1>13, <1>16

(* A rule is kept plain when its copy is plain.                            *)
LEMMA ClosedPlain ==
  ASSUME TypesInv, CloseRule, rule \in DOMAIN rules, PlainRules(rules), PlainRules(kept),
         "content" \in rules[rule].parts => PlainActions(actions)
  PROVE PlainRules(kept')
<1> DEFINE r == rules[rule]
           s == [mode |-> settings.mode, priority |-> settings.priority]
           c == Closed
           t == Append(kept, c)
<1>1. kept' = kept \/ kept' = t
  BY CloseRuleIs
<1>2. c = [r EXCEPT !.settings = s, !.actions = actions]
  BY DEF Closed
<1>3. DOMAIN r = {"name", "id", "tags", "stream", "parts", "path", "settings", "when", "actions"}
  BY DEF TypesInv, AreRules, IsRule
<1>4. "content" \in r.parts => Plain(r.when) /\ PlainActions(actions)
  BY DEF PlainRules, PlainContent
<1>5. Listed(kept)
  BY DEF TypesInv, AreRules
<1> HIDE DEF r, s, c
<1>6. c.parts = r.parts /\ c.when = r.when /\ c.actions = actions
  BY <1>2, <1>3
<1>7. "content" \in c.parts => PlainContent(c.when, c.actions)
  BY <1>4, <1>6 DEF PlainContent
<1>8. /\ DOMAIN t = 1 .. Len(kept) + 1 /\ t[Len(kept) + 1] = c
      /\ \A j \in 1 .. Len(kept) : t[j] = kept[j]
  BY <1>5, AppendIs
<1>9. Len(kept) \in Nat /\ DOMAIN kept = 1 .. Len(kept)
  BY <1>5, ListIs
<1> HIDE DEF t
<1>10. ASSUME NEW j \in DOMAIN t PROVE "content" \in t[j].parts => PlainContent(t[j].when, t[j].actions)
  <2>1. CASE j \in 1 .. Len(kept)
    <3>1. t[j] = kept[j] /\ j \in DOMAIN kept
      BY <1>8, <1>9, <2>1
    <3> QED
      BY <3>1 DEF PlainRules
  <2>2. CASE j \notin 1 .. Len(kept)
    <3>1. j = Len(kept) + 1
      BY <1>8, <1>9, <2>2
    <3>2. t[j] = c
      BY <1>8, <3>1
    <3> QED
      BY <1>7, <3>2
  <2> QED
    BY <2>1, <2>2
<1>11. PlainRules(t)
  BY <1>10 DEF PlainRules
<1> QED
  BY <1>1, <1>11

\* What a plain request leaves is plain, where the stages have been.
PlainSoFar ==
  /\ stage \in {"contents"} \cup RenderedStages => PlainHead(document)
  /\ stage \in RenderedStages => PlainTexts(document.groups) /\ PlainRules(rules)
  /\ stage \in {"overrides", "checking", "applying"} => PlainOverrides(overrides)
  /\ stage = "applying" => PlainRules(kept)
  /\ stage = "applying" /\ position > 0 /\ "content" \in rules[rule].parts => PlainActions(actions)

PlainInv == PlainRequest(Asked) => PlainSoFar

(* What such a request resolved to comes from it and has no braces.        *)
LEMMA ValuesFrom ==
  ASSUME ResolvedInv, PlainRequest(Asked), stage \in ResolvedStages
  PROVE From(values, ValuesOf(Asked))
<1> DEFINE S == ValuesOf(Asked)
<1>1. \A t \in S : Braceless(t)
  BY DEF PlainRequest, BracelessValues
<1>2. /\ \A n \in DOMAIN options.supplied : options.supplied[n] \in S
      /\ \A i \in DOMAIN head.variables : head.variables[i].default \subseteq S
  BY DEF ValuesOf, Asked, head
<1> HIDE DEF S
<1>3. From(Resolved(head, options.supplied), S)
  BY <1>1, <1>2, ResolvedFrom
<1> QED
  BY <1>3 DEF ResolvedInv, S

(* The overrides leave what is plain.                                      *)
LEMMA OverrideStepPlain ==
  ASSUME TypesInv, CheckedInv, PlainSoFar, OverrideStep, document' = document
  PROVE PlainSoFar'
<1> USE DEF PlainSoFar, RenderedStages, EditStages, FinalStages, CheckedStages
<1>1. CASE SkipOverrides \/ ReserveSelectors \/ CheckRule
  BY <1>1 DEF SkipOverrides, ReserveSelectors, CheckRule, Go
<1>2. CASE FinishCheck
  <2>1. PlainRules(<<>>)
    BY DEF PlainRules
  <2> QED
    BY <1>2, <2>1 DEF FinishCheck, Go
<1>3. CASE CopyRule
  <2>1. "content" \in rules[rule].parts => PlainActions(rules[rule].actions)
    BY <1>3 DEF CopyRule, PlainRules, PlainContent
  <2> QED
    BY <1>3, <2>1 DEF CopyRule
<1>4. CASE PassOverride \/ OverrideRule
  <2>1. position > 0
    BY <1>4 DEF PassOverride, OverrideRule, AtOverride
  <2> QED
    BY <1>4, <2>1 DEF PassOverride, OverrideRule, AtOverride
<1>5. CASE OverrideAction
  <2> DEFINE o == overrides[position]
  <2>1. /\ stage = "applying" /\ position > 0 /\ position \in DOMAIN overrides
        /\ actions' = Edited(o, actions) /\ stage' \in {"applying", "refused"}
        /\ UNCHANGED <<rules, rule, kept, overrides>>
    BY <1>5 DEF OverrideAction, AtOverride, Go
  <2>2. PlainTexts(OverrideTexts(o))
    BY <2>1 DEF PlainOverrides
  <2>3. PlainActions(actions) => PlainActions(actions')
    BY <2>1, <2>2, EditedPlain
  <2> HIDE DEF o
  <2> QED
    BY <2>1, <2>3
<1>6. CASE CloseRule
  <2>1. /\ stage = "applying" /\ position > 0 /\ stage' = stage /\ rules' = rules
        /\ overrides' = overrides /\ position' = 0
    BY <1>6 DEF CloseRule
  <2>2. rule \in DOMAIN rules
    BY <2>1 DEF CheckedInv
  <2>3. PlainRules(kept')
    BY <1>6, <2>1, <2>2, ClosedPlain
  <2> QED
    BY <2>1, <2>3
<1>7. CASE FinishOverrides
  BY <1>7 DEF FinishOverrides
<1> QED
  BY <1>1, <1>2, <1>3, <1>4, <1>5, <1>6, <1>7 DEF OverrideStep

(* Every step of a plain request leaves what is plain.                     *)
LEMMA PlainStep ==
  ASSUME TypesInv, CheckedInv, ResolvedInv, PlainInv, [Next]_vars
  PROVE PlainInv'
<1>1. CASE Reinstall
  <2>1. stage' = "admission"
    BY <1>1 DEF Reinstall
  <2> QED
    BY <2>1 DEF PlainInv, PlainSoFar, RenderedStages, EditStages, FinalStages, CheckedStages
<1>2. CASE ~Reinstall
  <2>1. Asked' = Asked
    <3>1. manifest' = manifest /\ options' = options
      BY <1>2, Frame
    <3> QED
      BY <3>1 DEF Asked
  <2> SUFFICES ASSUME PlainRequest(Asked), PlainSoFar PROVE PlainSoFar'
    <3>1. PlainRequest(Asked)' <=> PlainRequest(Asked)
      <4> DEFINE q == Asked
      <4>1. q' = q
        BY <2>1
      <4> HIDE DEF q
      <4>2. PlainRequest(q)' <=> PlainRequest(q)
        BY <4>1 DEF PlainRequest, BracelessValues, ValuesOf, TextsApart, PlainLocals
      <4> QED
        BY <4>2 DEF q
    <3> QED
      BY <3>1 DEF PlainInv
  <2> DEFINE S == ValuesOf(Asked)
  <2>2. /\ HeadApart(head, S) /\ \A j \in DOMAIN manifest.rules : ContentApart(manifest.rules[j], S)
        /\ \A i \in DOMAIN head.variables : \A t \in head.variables[i].default : Braceless(t)
    <3>1. /\ HeadApart(head, S) /\ \A j \in DOMAIN manifest.rules : ContentApart(manifest.rules[j], S)
      BY DEF PlainRequest, TextsApart, Asked, head
    <3>2. \A i \in DOMAIN head.variables : \A t \in head.variables[i].default : Braceless(t)
      BY DEF PlainRequest, BracelessValues, ValuesOf, Asked, head
    <3> QED
      BY <3>1, <3>2
  <2>3. stage \in ResolvedStages => From(values, S)
    BY ValuesFrom
  <2> HIDE DEF S
  <2> USE DEF RenderedStages, EditStages, FinalStages, CheckedStages
  <2>4. CASE UNCHANGED vars
    BY <2>4 DEF PlainSoFar, vars, overrideVars, editVars
  <2>5. CASE Admit \/ ValidateShape \/ ReserveExceptions \/ ResolveVariables
    <3>1. stage' \in {"shape", "exceptions", "variables", "strings", "refused"}
      BY <2>5 DEF Admit, ValidateShape, ReserveExceptions, ResolveVariables, Go
    <3> QED
      BY <3>1 DEF PlainSoFar
  <2>6. CASE RenderStrings
    <3>1. /\ stage = "strings" /\ stage' \in {"contents", "refused"}
          /\ stage' = "contents" => /\ AllRender(ManifestTexts(head), values)
                                    /\ document' = RenderedManifest(head, values)
      BY <2>6 DEF RenderStrings, Go
    <3>2. From(values, S) /\ AreTexts(values) /\ IsDocument(head)
      BY <2>3, <3>1 DEF ResolvedStages, TypesInv, head
    <3>3. AllRender(ManifestTexts(head), values) => PlainHead(RenderedManifest(head, values))
      BY <2>2, <3>2, ManifestRenders, HeadPlain
    <3> QED
      BY <3>1, <3>3 DEF PlainSoFar
  <2>7. CASE RenderContents
    <3>1. /\ stage = "contents" /\ stage' \in {"overrides", "refused"} /\ overrides' = OverridesUsed
      BY <2>7 DEF RenderContents, Go
    <3>2. From(values, S)
      BY <2>3, <3>1 DEF ResolvedStages
    <3>3. stage' # "refused" =>
            PlainHead(document') /\ PlainTexts(document'.groups) /\ PlainRules(rules')
      BY <2>7, <2>2, <3>1, <3>2, ContentsPlain DEF PlainSoFar
    <3>4. PlainOverrides(overrides')
      <4>1. AreOverrides(head.overrides) /\ AreOverrides(options.overrides)
        BY DEF TypesInv, IsDocument, IsOptions, head
      <4>2. PlainOverrides(head.overrides) /\ PlainOverrides(options.overrides)
        BY DEF PlainRequest, PlainLocals, Asked, head
      <4> QED
        BY <3>1, <4>1, <4>2, OrderedPlain DEF OverridesUsed
    <3> QED
      BY <3>1, <3>3, <3>4 DEF PlainSoFar
  <2>8. CASE OverrideStep /\ UNCHANGED <<requestVars, values, document, meterVars, loaded>>
    BY <2>8, OverrideStepPlain
  <2>9. CASE ApplyOptions
    <3>1. stage = "options" /\ stage' = "document"
      BY <2>9 DEF ApplyOptions
    <3>2. From(values, S)
      BY <2>3, <3>1 DEF ResolvedStages
    <3>3. PlainLocals(Asked)
      BY DEF PlainRequest
    <3>4. PlainHead(document') /\ PlainTexts(document'.groups) /\ PlainRules(rules')
      BY <2>9, <3>1, <3>2, <3>3, OptionsPlain DEF PlainSoFar
    <3> QED
      BY <3>1, <3>4 DEF PlainSoFar
  <2>10. CASE ReserveMutations \/ CheckDocument \/ WriteManifest \/ PassRule \/ LoadFile \/ FinishLoading
    <3>1. /\ document' = document /\ rules' = rules
          /\ stage \in RenderedStages
          /\ stage' \in {"options", "writing", "loading", "done", "refused"}
      BY <2>10 DEF ReserveMutations, CheckDocument, WriteManifest, PassRule, LoadFile, FinishLoading, Go
    <3> QED
      BY <3>1 DEF PlainSoFar
  <2> QED
    BY <1>2, <2>4, <2>5, <2>6, <2>7, <2>8, <2>9, <2>10 DEF Next, ParseStep, Rest
<1> QED
  BY <1>1, <1>2

-----------------------------------------------------------------------------
\* What was rendered for installation is rendered to itself.

\* What was rendered for installation: valid, plain, nothing left
\* to work in.
Installable(d, rs, time) ==
  /\ PlainHead(d) /\ PlainTexts(d.groups) /\ PlainRules(rs)
  /\ d.bindings = <<>> /\ d.overrides = <<>> /\ Fixed(d.variables) /\ Valid(d, rs, time)

\* Rendering it again changes nothing on the way.
AgainSoFar ==
  /\ Installable(head, manifest.rules, now) /\ document = head
  /\ stage \notin {"checking", "applying", "loading"}
  /\ stage = "overrides" => overrides = <<>>
  /\ stage \in RenderedStages => rules = manifest.rules
  /\ Unlimited => stage # "refused"

AgainInv ==
  \A q \in earlier : options = Outcome!InstallOptions /\ (PlainRequest(q) => AgainSoFar)

(* What was valid stays valid as time goes by.                             *)
LEMMA ValidLater ==
  ASSUME NEW d, NEW rs, NEW t \in Nat, NEW u \in Nat, t <= u, IsDocument(d), Valid(d, rs, t)
  PROVE Valid(d, rs, u)
<1>1. \A i \in DOMAIN d.exceptions : d.exceptions[i].expires \in Int
  BY DEF IsDocument, AreExceptions, IsException
<1>2. \A i \in DOMAIN d.exceptions : d.exceptions[i].expires > u => d.exceptions[i].expires > t
  <2> SUFFICES ASSUME NEW i \in DOMAIN d.exceptions, d.exceptions[i].expires > u
               PROVE d.exceptions[i].expires > t
    OBVIOUS
  <2> DEFINE x == d.exceptions[i].expires
  <2>1. x \in Int /\ x > u
    BY <1>1
  <2> HIDE DEF x
  <2>2. x > t
    BY <2>1
  <2> QED
    BY <2>2 DEF x
<1>3. ExceptionsValid(d.exceptions, rs, t)
  BY DEF Valid
<1> DEFINE es == d.exceptions
<1>4. \A i \in DOMAIN es : es[i].expires > u => es[i].expires > t
  BY <1>2
<1>5. ExceptionsValid(es, rs, t)
  BY <1>3
<1> HIDE DEF es
<1>6. ExceptionsValid(es, rs, u)
  BY <1>4, <1>5, Zenon DEF ExceptionsValid
<1> QED
  BY <1>6 DEF Valid, es

(* The variables of what was installed need nothing ...                    *)
LEMMA FixedResolvable ==
  ASSUME NEW d, Fixed(d.variables), d.bindings = <<>>
  PROVE Resolvable(d, <<>>)
<1>1. DOMAIN <<>> = {} /\ DOMAIN d.bindings = {}
  OBVIOUS
<1>2. \A i \in DOMAIN d.variables : d.variables[i].required = FALSE
  BY DEF Fixed
<1> DEFINE none == <<>>
<1>3. DOMAIN none = {}
  OBVIOUS
<1> HIDE DEF none
<1>4. Resolvable(d, none)
  BY <1>1, <1>2, <1>3 DEF Resolvable
<1> QED
  BY <1>4 DEF none

(* ... and are pinned to what they are.                                    *)
LEMMA FixedPinned ==
  ASSUME NEW d, IsDocument(d), Fixed(d.variables), NEW vs, vs = Resolved(d, <<>>),
         NEW i \in DOMAIN d.variables
  PROVE PinnedVariable(d.variables[i], TRUE, vs) = d.variables[i]
<1> DEFINE v == d.variables[i]
           n == v.name
           none == <<>>
           R(m) == Resolutions(d, none, m)
<1>1. IsFunction(v) /\ DOMAIN v = {"name", "default", "required"} /\ IsOptional(v.default)
  BY DEF IsDocument, IsVariable
<1>2. v.required = FALSE
  BY DEF Fixed
<1>3. \A j \in DOMAIN d.variables : d.variables[j].name = n => d.variables[j].default = v.default
  BY DEF Fixed
<1>4. R(n) = v.default
  <2>1. DOMAIN none = {}
    OBVIOUS
  <2>2. R(n) = UNION {d.variables[j].default : j \in {k \in DOMAIN d.variables : d.variables[k].name = n}}
    BY <2>1 DEF Resolutions
  <2>3. i \in {k \in DOMAIN d.variables : d.variables[k].name = n}
    OBVIOUS
  <2>4. \A j \in {k \in DOMAIN d.variables : d.variables[k].name = n} : d.variables[j].default = v.default
    BY <1>3
  <2> HIDE DEF R, v, n
  <2>5. d.variables[i].default = v.default
    BY DEF v
  <2>6. \A t : t \in R(n) => t \in v.default
    BY <2>2, <2>4
  <2>7. \A t : t \in v.default => t \in R(n)
    BY <2>2, <2>3, <2>5
  <2> QED
    BY <2>6, <2>7
<1>5. vs = [m \in {k \in Names(d.variables) \cup Targeted(d) : R(k) # {}} |-> CHOOSE t \in R(m) : TRUE]
  BY DEF Resolved
<1> HIDE DEF R
<1>6. CASE n \in DOMAIN vs
  <2> DEFINE x == {vs[n]}
  <2>1. vs[n] = CHOOSE t \in R(n) : TRUE
    BY <1>5, <1>6
  <2>2. R(n) # {}
    BY <1>5, <1>6
  <2>3. vs[n] \in v.default
    BY <1>4, <2>1, <2>2
  <2>4. x = v.default
    BY <1>1, <2>3 DEF IsOptional
  <2>5. PinnedVariable(v, TRUE, vs) = [v EXCEPT !.default = x, !.required = FALSE]
    BY <1>6 DEF PinnedVariable
  <2> HIDE DEF x, v
  <2>6. [v EXCEPT !.default = x, !.required = FALSE] = v
    BY <1>1, <1>2, <2>4 DEF IsFunction
  <2> QED
    BY <2>5, <2>6 DEF v
<1>7. CASE n \notin DOMAIN vs
  BY <1>7 DEF PinnedVariable
<1> QED
  BY <1>6, <1>7

(* No limit refuses where there is none.                                   *)
LEMMA NothingLimited ==
  ASSUME Unlimited, NEW k, NEW n
  PROVE Within(k, n)
BY DEF Unlimited, Within

(* Nothing is ordered to nothing.                                          *)
LEMMA NothingOrdered == Ordered(<<>>, <<>>) = <<>>
<1> DEFINE os == Ordered(<<>>, <<>>)
           none == <<>>
<1>1. Listed(none) /\ DOMAIN none = {}
  BY EmptyList
<1> HIDE DEF none
<1>2. Listed(Ordered(none, none)) /\ \A i \in DOMAIN Ordered(none, none) : Ordered(none, none)[i] \in {}
  BY <1>1, OrderedElements
<1>3. Listed(os) /\ DOMAIN os = {}
  BY <1>2 DEF none
<1> HIDE DEF os
<1>4. os = [i \in DOMAIN os |-> os[i]]
  BY <1>3, ListIs
<1>5. os = [i \in {} |-> os[i]]
  BY <1>3, <1>4
<1>6. os = <<>>
  BY <1>5
<1> QED
  BY <1>6 DEF os

(* Working in no options leaves a fixed document as it is.                 *)
LEMMA OptionsAgain ==
  ASSUME TypesInv, ResolvedInv, options = Outcome!InstallOptions, AgainSoFar, ApplyOptions
  PROVE document' = document /\ rules' = rules
<1> DEFINE d == document
           e == Extended
           p == Pinned(d)
           none == <<>>
<1>1. /\ options.pin = TRUE /\ options.mode = {} /\ options.commit = {} /\ locals = none
      /\ options.supplied = none
  BY DEF Outcome!InstallOptions, locals
<1>2. IsDocument(d) /\ IsOptions(options) /\ AreTexts(values) /\ AreRules(rules)
  BY DEF TypesInv
<1>3. /\ IsDocument(e) /\ e.title = d.title
      /\ e.variables = d.variables /\ e.overrides = d.overrides
      /\ e.groups = d.groups /\ e.bindings = d.bindings
      /\ e.exceptions = d.exceptions \o locals
      /\ e.commit = IF options.commit = {} THEN d.commit ELSE options.commit
      /\ options.mode = {} => e.mode = d.mode
  BY <1>2, ExtendedIs
<1>4. /\ DOMAIN d = {"title", "variables", "bindings", "overrides", "exceptions", "groups",
                     "mode", "commit"}
      /\ IsFunction(d) /\ Listed(d.exceptions) /\ Listed(d.variables)
  BY <1>2 DEF IsDocument, AreExceptions
<1>5. DOMAIN e = DOMAIN d /\ IsFunction(e)
  BY <1>3, <1>4 DEF IsDocument
<1>6. d.exceptions \o none = d.exceptions
  BY <1>4 DEF Listed
<1>7. stage = "options" /\ document = head
  BY DEF ApplyOptions, AgainSoFar
<1>8. values = Resolved(d, none) /\ Fixed(d.variables) /\ d.bindings = none /\ d.overrides = none
  BY <1>1, <1>7 DEF ResolvedInv, ResolvedStages, RenderedStages, EditStages, AgainSoFar, Installable
<1> DEFINE V(i) == PinnedVariable(d.variables[i], options.pin, values)
<1>9. /\ IsDocument(p) /\ p.title = d.title /\ p.groups = d.groups
      /\ p.exceptions = d.exceptions /\ p.commit = d.commit
      /\ p.mode = d.mode /\ p.overrides = none /\ p.bindings = none
      /\ p.variables = [i \in DOMAIN d.variables |-> V(i)]
  BY <1>2, PinnedIs
<1>10. \A i \in DOMAIN d.variables : V(i) = d.variables[i]
  <2> SUFFICES ASSUME NEW i \in DOMAIN d.variables PROVE V(i) = d.variables[i]
    OBVIOUS
  <2> HIDE DEF d
  <2>1. PinnedVariable(d.variables[i], TRUE, values) = d.variables[i]
    BY <1>2, <1>8, FixedPinned, Zenon
  <2> QED
    BY <1>1, <2>1, Zenon
<1> HIDE DEF V, d, e
<1>11. e = d
  BY <1>1, <1>3, <1>4, <1>5, <1>6 DEF IsFunction
<1>12. d.variables = [i \in DOMAIN d.variables |-> d.variables[i]]
  BY <1>4, ListIs
<1> HIDE DEF p
<1>13. DOMAIN p = DOMAIN d /\ IsFunction(p)
  BY <1>4, <1>9 DEF IsDocument
<1>14. p.variables = d.variables
  BY <1>9, <1>10, <1>12
<1>15. p = d
  BY <1>4, <1>8, <1>9, <1>13, <1>14 DEF IsFunction
<1>16. OptionsApplied
  BY ApplyOptionsIs
<1>17. document' = Pinned(e)
  BY <1>1, <1>16 DEF OptionsApplied, e
<1>18. document' = d
  BY <1>11, <1>15, <1>17 DEF p
<1>19. \A j \in DOMAIN rules : rules'[j] = rules[j]
  BY <1>1, <1>16 DEF OptionsApplied
<1>20. rules' = [j \in DOMAIN rules |-> rules'[j]]
  BY <1>16 DEF OptionsApplied
<1>21. rules = [j \in DOMAIN rules |-> rules[j]]
  BY <1>2, ListIs DEF AreRules
<1>22. rules' = rules
  BY <1>19, <1>20, <1>21
<1> QED
  BY <1>18, <1>22 DEF d

(* Plain contents and groups are rendered to themselves.                   *)
LEMMA ContentsAgain ==
  ASSUME TypesInv, options = Outcome!InstallOptions, AgainSoFar, RenderContents
  PROVE /\ document' = document /\ overrides' = <<>>
        /\ stage' # "refused" => rules' = manifest.rules
        /\ Unlimited => stage' # "refused"
<1> DEFINE rs == manifest.rules
           texts == FlattenSeq([j \in DOMAIN rs |-> InlineTexts(rs[j])]) \o head.groups
           gs == RenderedTexts(head.groups, values)
           qs == [j \in DOMAIN rs |-> Written(rs[j])]
<1>1. /\ Unlimited /\ AllRender(texts, values) => stage' # "refused"
      /\ document' = [document EXCEPT !.groups = gs] \/ document' = document
      /\ stage' # "refused" => rules' = qs
      /\ overrides' = OverridesUsed
  <2>1. Unlimited => \A k, n : Within(k, n)
    BY NothingLimited
  <2> QED
    BY <2>1 DEF RenderContents, Go
<1>2. /\ AreRules(rs) /\ Listed(head.groups) /\ AreTexts(head.groups) /\ document = head
      /\ PlainTexts(head.groups) /\ PlainRules(rs)
  BY DEF TypesInv, IsDocument, head, AgainSoFar, Installable
<1>3. gs = head.groups
  <2>1. \A i \in DOMAIN head.groups : Substitute(head.groups[i], values) = head.groups[i]
    BY <1>2, SubstituteNothing DEF AreTexts, PlainTexts
  <2>2. head.groups = [i \in DOMAIN head.groups |-> head.groups[i]]
    BY <1>2, ListIs
  <2> QED
    BY <2>1, <2>2 DEF RenderedTexts
<1>4. document' = document
  <2>1. IsFunction(document) /\ "groups" \in DOMAIN document
    BY DEF TypesInv, IsDocument
  <2> HIDE DEF gs
  <2>2. [document EXCEPT !.groups = gs] = document
    BY <1>2, <1>3, <2>1 DEF IsFunction
  <2> QED
    BY <1>1, <2>2
<1>5. \A j \in DOMAIN rs : Written(rs[j]) = rs[j]
  <2> SUFFICES ASSUME NEW j \in DOMAIN rs, "content" \in rs[j].parts
               PROVE RenderedRule(rs[j], values) = rs[j]
    BY DEF Written
  <2>1. IsRule(rs[j]) /\ PlainContent(rs[j].when, rs[j].actions)
    BY <1>2 DEF AreRules, PlainRules
  <2> QED
    BY <2>1, RuleSame
<1>6. qs = rs
  <2>1. rs = [j \in DOMAIN rs |-> rs[j]]
    BY <1>2, ListIs DEF AreRules
  <2> HIDE DEF rs
  <2> QED
    BY <1>5, <2>1
<1>7. AllRender(texts, values)
  <2>1. \A j \in DOMAIN rs : "content" \in rs[j].parts =>
          AllRender(ContentTexts(rs[j].when, rs[j].actions), values)
    <3> SUFFICES ASSUME NEW j \in DOMAIN rs, "content" \in rs[j].parts
                 PROVE AllRender(ContentTexts(rs[j].when, rs[j].actions), values)
      OBVIOUS
    <3>1. IsRule(rs[j]) /\ PlainContent(rs[j].when, rs[j].actions)
      BY <1>2 DEF AreRules, PlainRules
    <3> QED
      BY <3>1, RuleSame
  <2>2. AllRender(head.groups, values)
    BY <1>2, PlainRenders DEF AllRender, AreTexts, PlainTexts
  <2> QED
    BY <1>2, <2>1, <2>2, ContentsRender
<1>8. overrides' = <<>>
  <2>1. head.overrides = <<>> /\ options.overrides = <<>>
    BY DEF AgainSoFar, Installable, Outcome!InstallOptions
  <2> QED
    BY <1>1, <2>1, NothingOrdered DEF OverridesUsed
<1> HIDE DEF texts, qs
<1> QED
  BY <1>1, <1>4, <1>6, <1>7, <1>8

(* Admission and the shape accept what was checked before.                 *)
LEMMA AcceptedAgain ==
  ASSUME TypesInv, options = Outcome!InstallOptions, AgainSoFar, Unlimited
  PROVE /\ Admit \/ ValidateShape \/ ReserveExceptions \/ ResolveVariables => stage' # "refused"
        /\ RenderStrings \/ ReserveMutations \/ CheckDocument \/ WriteManifest => stage' # "refused"
<1>1. \A k, n : Within(k, n)
  BY NothingLimited
<1>2. Admissible /\ \A es, n : EntriesFit(es, n)
  BY <1>1 DEF Admissible, BodiesFit, EntriesFit
<1>3. Admit \/ ReserveExceptions \/ ReserveMutations \/ WriteManifest => stage' # "refused"
  BY <1>1, <1>2 DEF Admit, ReserveExceptions, ReserveMutations, WriteManifest, Go
<1>4. ValidateShape => stage' # "refused"
  <2>1. locals = <<>> /\ options.overrides = <<>>
    BY DEF locals, Outcome!InstallOptions
  <2>2. ExceptionShapes(<<>>) /\ ValidOverrides(<<>>)
    BY DEF ExceptionShapes, ValidOverrides, UniqueNames
  <2>3. ShapeValid(head, manifest.rules)
    BY DEF AgainSoFar, Installable, Valid
  <2> QED
    BY <2>1, <2>2, <2>3 DEF ValidateShape, Go
<1>5. ResolveVariables => stage' # "refused"
  <2>1. Resolvable(head, options.supplied)
    <3>1. options.supplied = <<>>
      BY DEF Outcome!InstallOptions
    <3> QED
      BY <3>1, FixedResolvable DEF AgainSoFar, Installable
  <2> QED
    BY <1>2, <2>1 DEF ResolveVariables, Go
<1>6. RenderStrings => stage' # "refused"
  <2>1. IsDocument(head) /\ PlainHead(head) /\ head.overrides = <<>>
    BY DEF TypesInv, AgainSoFar, Installable, head
  <2>2. AllRender(ManifestTexts(head), values)
    BY <2>1, HeadSame
  <2> QED
    BY <1>1, <2>2 DEF RenderStrings, Go
<1>7. CheckDocument => stage' # "refused"
  <2> SUFFICES ASSUME CheckDocument PROVE stage' # "refused"
    OBVIOUS
  <2>1. stage = "document"
    BY DEF CheckDocument
  <2>2. document = head /\ rules = manifest.rules
    BY <2>1 DEF AgainSoFar, RenderedStages, FinalStages
  <2>3. Valid(document, rules, now)
    BY <2>2 DEF AgainSoFar, Installable
  <2> QED
    BY <2>3 DEF CheckDocument, Valid, Go
<1> QED
  BY <1>3, <1>4, <1>5, <1>6, <1>7

(* Nothing changes on the way.                                             *)
LEMMA AgainSoFarStep ==
  ASSUME TypesInv, ResolvedInv, options = Outcome!InstallOptions, AgainSoFar,
         [Next]_vars, ~Reinstall
  PROVE AgainSoFar'
<1>1. manifest' = manifest /\ now' = now /\ limits' = limits
  BY Frame
<1>2. Installable(head, manifest.rules, now)' = Installable(head, manifest.rules, now)
  BY <1>1 DEF head
<1>3. head' = head /\ manifest'.rules = manifest.rules /\ (Unlimited' <=> Unlimited)
  BY <1>1 DEF head, Unlimited
<1>4. SUFFICES /\ document' = document
               /\ stage' \notin {"checking", "applying", "loading"}
               /\ stage' = "overrides" => overrides' = <<>>
               /\ stage' \in RenderedStages => rules' = manifest.rules
               /\ Unlimited => stage' # "refused"
  BY <1>2, <1>3 DEF AgainSoFar
<1> USE DEF RenderedStages, EditStages, FinalStages, CheckedStages
<1>5. /\ document = head /\ stage \notin {"checking", "applying", "loading"}
      /\ stage = "overrides" => overrides = <<>>
      /\ stage \in RenderedStages => rules = manifest.rules
      /\ Unlimited => stage # "refused"
  BY DEF AgainSoFar
<1>6. CASE UNCHANGED vars
  BY <1>5, <1>6 DEF vars, overrideVars
<1>7. CASE Admit \/ ValidateShape \/ ReserveExceptions \/ ResolveVariables
  <2>1. stage' \in {"shape", "exceptions", "variables", "strings", "refused"} /\ document' = document
    BY <1>7 DEF Admit, ValidateShape, ReserveExceptions, ResolveVariables, Go
  <2>2. Unlimited => stage' # "refused"
    BY <1>7, AcceptedAgain
  <2> QED
    BY <2>1, <2>2
<1>8. CASE RenderStrings
  <2>1. /\ stage' \in {"contents", "refused"}
        /\ document' = RenderedManifest(head, values) \/ document' = head
    BY <1>8 DEF RenderStrings, Go
  <2>2. IsDocument(head) /\ PlainHead(head) /\ head.overrides = <<>>
    BY DEF TypesInv, AgainSoFar, Installable, head
  <2>3. document' = document
    BY <1>5, <2>1, <2>2, HeadSame
  <2>4. Unlimited => stage' # "refused"
    BY <1>8, AcceptedAgain
  <2> QED
    BY <2>1, <2>3, <2>4
<1>9. CASE RenderContents
  <2>1. /\ document' = document /\ overrides' = <<>>
        /\ stage' # "refused" => rules' = manifest.rules
        /\ Unlimited => stage' # "refused"
    BY <1>9, ContentsAgain
  <2>2. stage' \in {"overrides", "refused"}
    BY <1>9 DEF RenderContents, Go
  <2> QED
    BY <2>1, <2>2
<1>10. CASE OverrideStep /\ UNCHANGED <<requestVars, values, document, meterVars, loaded>>
  <2>1. SkipOverrides
    BY <1>5, <1>10 DEF OverrideStep, ReserveSelectors, CheckRule, FinishCheck, CopyRule, PassOverride,
                       OverrideRule, OverrideAction, AtOverride, CloseRule, FinishOverrides
  <2> QED
    BY <1>5, <1>10, <2>1 DEF SkipOverrides
<1>11. CASE ApplyOptions
  <2>1. document' = document /\ rules' = rules
    BY <1>11, OptionsAgain
  <2>2. stage = "options" /\ stage' = "document"
    BY <1>11 DEF ApplyOptions
  <2> QED
    BY <1>5, <2>1, <2>2
<1>12. CASE ReserveMutations \/ CheckDocument \/ WriteManifest
  <2>1. /\ document' = document /\ rules' = rules /\ stage \in RenderedStages
        /\ stage' \in {"options", "writing", "done", "refused"}
    <3>1. options.bundle = FALSE
      BY DEF Outcome!InstallOptions
    <3> QED
      BY <1>12, <3>1 DEF ReserveMutations, CheckDocument, WriteManifest, Go
  <2>2. Unlimited => stage' # "refused"
    BY <1>12, AcceptedAgain
  <2> QED
    BY <1>5, <2>1, <2>2
<1>13. CASE PassRule \/ LoadFile \/ FinishLoading
  BY <1>5, <1>13 DEF PassRule, LoadFile, FinishLoading
<1> QED
  BY <1>6, <1>7, <1>8, <1>9, <1>10, <1>11, <1>12, <1>13 DEF Next, ParseStep, Rest

(* What a plain request is rendered to for installation can be installed.  *)
LEMMA ReinstallPlain ==
  ASSUME TypesInv, NowInv, PlainInv, PinnedInv, ValidInv, Reinstall, PlainRequest(Asked)
  PROVE AgainSoFar'
<1> USE DEF RenderedStages, EditStages, FinalStages, CheckedStages
<1>1. /\ stage = "done" /\ options.pin /\ manifest' = [head |-> document, rules |-> rules]
      /\ document' = document /\ stage' = "admission" /\ now' \in {now, now + 1}
  BY DEF Reinstall
<1>2. PlainHead(document) /\ PlainTexts(document.groups) /\ PlainRules(rules)
  BY <1>1 DEF PlainInv, PlainSoFar
<1>3. document.bindings = <<>> /\ document.overrides = <<>> /\ Fixed(document.variables)
  BY <1>1 DEF PinnedInv
<1>4. Valid(document, rules, now')
  <2>1. now \in Nat /\ now' \in Nat /\ now <= now' /\ IsDocument(document)
    BY <1>1 DEF NowInv, TypesInv
  <2>2. Valid(document, rules, now)
    BY <1>1 DEF ValidInv
  <2> QED
    BY <2>1, <2>2, ValidLater
<1>5. Installable(document, rules, now')
  BY <1>2, <1>3, <1>4 DEF Installable
<1>6. head' = document /\ manifest'.rules = rules
  BY <1>1 DEF head
<1>7. Installable(head, manifest.rules, now)'
  BY <1>5, <1>6
<1> QED
  BY <1>1, <1>6, <1>7 DEF AgainSoFar

(* Every step keeps an installation as it is.                              *)
LEMMA AgainStep ==
  ASSUME TypesInv, NowInv, ResolvedInv, PlainInv, PinnedInv, ValidInv, AgainInv, [Next]_vars
  PROVE AgainInv'
<1>1. CASE Reinstall
  <2>1. earlier' = {Asked} /\ options' = Outcome!InstallOptions
    BY <1>1 DEF Reinstall
  <2>2. PlainRequest(Asked) => AgainSoFar'
    BY <1>1, ReinstallPlain
  <2>3. \A q \in earlier' : options' = Outcome!InstallOptions /\ (PlainRequest(q) => AgainSoFar')
    BY <2>1, <2>2
  <2>4. Outcome!InstallOptions' = Outcome!InstallOptions
    BY DEF Outcome!InstallOptions
  <2> QED
    BY <2>3, <2>4 DEF AgainInv
<1>2. CASE ~Reinstall
  <2>1. options' = options /\ earlier' = earlier
    BY <1>2, Frame
  <2>2. ASSUME NEW q \in earlier
        PROVE options = Outcome!InstallOptions /\ (PlainRequest(q) => AgainSoFar')
    <3>1. options = Outcome!InstallOptions /\ (PlainRequest(q) => AgainSoFar)
      BY DEF AgainInv
    <3> QED
      BY <1>2, <3>1, AgainSoFarStep
  <2>3. Outcome!InstallOptions' = Outcome!InstallOptions
    BY DEF Outcome!InstallOptions
  <2> QED
    BY <2>1, <2>2, <2>3 DEF AgainInv
<1> QED
  BY <1>1, <1>2

\* What keeps an installation stable, from the first request on.
StableInv ==
  NowInv /\ ResolvedInv /\ VariablesInv /\ PlainInv /\ PinnedInv /\ ValidInv /\ AgainInv

(* Whatever the request, its manifest and its values, what was rendered    *)
(* for installation is rendered again to itself and never refused where no *)
(* limit binds, at whatever time, as long as no value brought a marker or a*)
(* brace in, no override, local reason or commit a marker, and no empty    *)
(* value stands between closing braces (mod.rs:312, template.rs:110).      *)
THEOREM InstallStableTheorem == Spec => []InstallStable
<1> DEFINE IInv == ListsInv /\ AppliedInv /\ CheckedInv /\ TypesInv /\ StableInv
<1>1. Init => IInv
  <2> SUFFICES ASSUME Init PROVE IInv
    OBVIOUS
  <2>1. ListsInv
    <3>1. PICK q \in Requests : manifest = q.manifest
      BY DEF Init
    <3> QED
      BY <3>1, RequestTypes, EmptyList DEF Init, ListsInv, AreRules
  <2>2. AppliedInv /\ CheckedInv
    BY DEF Init, AppliedInv, AppliedSoFar, CheckedInv
  <2>3. stage = "admission" /\ earlier = {} /\ now = 1
    BY DEF Init
  <2>4. StableInv
    BY <2>3 DEF StableInv, NowInv, ResolvedInv, VariablesInv, PlainInv, PlainSoFar, PinnedInv,
                ValidInv, AgainInv, ResolvedStages, RenderedStages, EditStages, FinalStages,
                CheckedStages
  <2> QED
    BY <2>1, <2>2, <2>4, PaidInit
<1>2. IInv /\ [Next]_vars => IInv'
  <2> SUFFICES ASSUME IInv, [Next]_vars PROVE IInv'
    OBVIOUS
  <2>1. ListsInv' /\ AppliedInv' /\ CheckedInv'
    BY ListsStep, AppliedStep, CheckedStep DEF AppliedInv
  <2>2. TypesInv'
    BY TypesStep
  <2>3. NowInv' /\ ResolvedInv' /\ VariablesInv' /\ ValidInv'
    BY NowStep, ResolvedStep, VariablesStep, ValidStep DEF StableInv
  <2>4. PinnedInv' /\ PlainInv' /\ AgainInv'
    BY PinnedStep, PlainStep, AgainStep DEF StableInv
  <2> QED
    BY <2>1, <2>2, <2>3, <2>4 DEF StableInv
<1>3. IInv => InstallStable
  <2> SUFFICES ASSUME AgainInv, NEW q \in earlier, Unlimited, PlainRequest(q)
               PROVE /\ stage # "refused"
                     /\ stage = "done" => document = manifest.head /\ rules = manifest.rules
    BY DEF StableInv, InstallStable
  <2>1. AgainSoFar
    BY DEF AgainInv
  <2> QED
    BY <2>1 DEF AgainSoFar, RenderedStages, FinalStages, CheckedStages, head
<1> QED
  BY <1>1, <1>2, <1>3, PTL DEF Spec
=============================================================================
