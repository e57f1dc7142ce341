-------------------------- MODULE RulepackOutcome --------------------------
(***************************************************************************)
(* What rendering a rulepack promises, whatever order the code works in: a *)
(* request is refused, or answered with the manifest in which every field  *)
(* of every rule has the value its highest ranked override gives it. Only  *)
(* where limits bind may a good request be refused. An installed manifest  *)
(* can be rendered again.                                                  *)
(*                                                                         *)
(*   request [manifest |-> [head, rules], options]                         *)
(*   options [supplied, overrides, exceptions, mode, commit, pin, bundle]: *)
(*           mode is a set of at most one [mode, force]                    *)
(***************************************************************************)
EXTENDS RulepackDocuments

CONSTANT Files   \* what the resolver finds: a path to its [when, actions]

VARIABLES
  request,
  limited,   \* some limit may refuse what is otherwise in order
  now,       \* the clock exceptions expire by
  outcome    \* [verdict, result]

outcomeVars == <<request, limited, now, outcome>>

Verdict(v, r) == [verdict |-> v, result |-> r]

\* Nothing but the pinning of variables.
InstallOptions ==
  [supplied |-> <<>>, overrides |-> <<>>, exceptions |-> <<>>, mode |-> {},
   commit |-> {}, pin |-> TRUE, bundle |-> FALSE]

-----------------------------------------------------------------------------
\* Overrides by rank: scope, kind of selector, position.

Scoped(q) ==
  ({0} \X DOMAIN q.manifest.head.overrides) \cup ({1} \X DOMAIN q.options.overrides)

Item(q, p) == IF p[1] = 0 THEN q.manifest.head.overrides[p[2]] ELSE q.options.overrides[p[2]]

Outranks(q, p, s) ==
  LET a == Precedence(Item(q, p))
      b == Precedence(Item(q, s))
  IN p[1] > s[1] \/ (p[1] = s[1] /\ (a > b \/ (a = b /\ p[2] >= s[2])))

On(q, r) == {p \in Scoped(q) : MatchesRule(Item(q, p), r)}

OnAction(q, r, k) ==
  {p \in On(q, r) : Item(q, p).action # NoAction /\ k \in Targets(Item(q, p), r.actions)}

\* Field f under the overrides S.
Settled(q, S, f, old) ==
  LET setting == {p \in S : f \in DOMAIN Item(q, p).sets}
      top == CHOOSE p \in setting : \A s \in setting : Outranks(q, p, s)
  IN IF setting = {} THEN old ELSE Item(q, top).sets[f]

-----------------------------------------------------------------------------
\* The answer to a request whose texts all render.

SettledRule(q, r) ==
  [r EXCEPT
     !.settings = [mode |-> IF \E m \in q.options.mode : m.force
                              THEN (CHOOSE m \in q.options.mode : TRUE).mode
                              ELSE Settled(q, On(q, r), "mode", r.settings.mode),
                   priority |-> Settled(q, On(q, r), "priority", r.settings.priority)],
     !.actions = [k \in DOMAIN r.actions |-> [r.actions[k] EXCEPT
                    !.fields = [f \in ActionFields |->
                      Settled(q, OnAction(q, r, k), f, r.actions[k].fields[f])]]]]

SettledRules(q, vs) ==
  LET Enabled(r) == Settled(q, On(q, r), "enabled", TRUE)
      Written(r) == IF "content" \in r.parts THEN RenderedRule(r, vs) ELSE r
      left == SelectSeq(q.manifest.rules, Enabled)
  IN [j \in DOMAIN left |-> SettledRule(q, Written(left[j]))]

SettledHead(q, vs) ==
  LET h == q.manifest.head
      o == q.options
      written == RenderedManifest(h, vs)
      Kept(list) == IF o.pin THEN <<>> ELSE list
  IN [written EXCEPT
        !.groups = RenderedTexts(@, vs),
        !.mode = IF o.mode = {} THEN @ ELSE (CHOOSE m \in o.mode : TRUE).mode,
        !.exceptions = @ \o o.exceptions,
        !.commit = IF o.commit = {} THEN @ ELSE o.commit,
        !.bindings = Kept(@), !.overrides = Kept(@),
        !.variables = [i \in DOMAIN @ |-> PinnedVariable(@[i], o.pin, vs)]]

FilesOf(q, rs, vs) ==
  LET referring == IF q.options.bundle THEN SelectSeq(rs, LAMBDA r : "path" \in r.parts) ELSE <<>>
  IN [i \in DOMAIN referring |->
        LET file == Files[referring[i].path]
        IN [when |-> Substitute(file.when, vs), actions |-> RenderedActions(file.actions, vs)]]

-----------------------------------------------------------------------------
\* The requests that are in order.

Decided(q) ==
  /\ ShapeValid(q.manifest.head, q.manifest.rules)
  /\ ExceptionShapes(q.options.exceptions)
  /\ ValidOverrides(q.options.overrides)
  /\ Resolvable(q.manifest.head, q.options.supplied)

Written(q, vs) ==
  /\ AllRender(ManifestTexts(q.manifest.head) \o q.manifest.head.groups, vs)
  /\ \A j \in DOMAIN q.manifest.rules :
       LET r == q.manifest.rules[j]
       IN "content" \in r.parts => AllRender(ContentTexts(r.when, r.actions), vs)

\* Each override matches a rule; each one with an action, one inline action.
Applicable(q) ==
  \A p \in Scoped(q) :
    LET hit == {j \in DOMAIN q.manifest.rules : MatchesRule(Item(q, p), q.manifest.rules[j])}
    IN /\ hit # {}
       /\ Item(q, p).action # NoAction => \A j \in hit :
            /\ q.manifest.rules[j].parts = {"content"}
            /\ Cardinality(Targets(Item(q, p), q.manifest.rules[j].actions)) = 1

Found(q, rs, vs) ==
  q.options.bundle => \A j \in DOMAIN rs : "path" \in rs[j].parts =>
    /\ rs[j].path \in DOMAIN Files
    /\ AllRender(ContentTexts(Files[rs[j].path].when, Files[rs[j].path].actions), vs)

Promise(q, time) ==
  LET vs == Resolved(q.manifest.head, q.options.supplied)
      head == SettledHead(q, vs)
      rs == SettledRules(q, vs)
      good == /\ Decided(q) /\ Written(q, vs) /\ Applicable(q)
              /\ ShapeValid(head, rs)
              /\ ExceptionsValid(head.exceptions, rs, time)
              /\ ReferencesValid(rs)
              /\ Found(q, rs, vs)
  IN IF good THEN Verdict("rendered", {[head |-> head, rules |-> rs, files |-> FilesOf(q, rs, vs)]})
     ELSE Verdict("refused", {})

-----------------------------------------------------------------------------
Init == outcome = Verdict("none", {})

Answer ==
  /\ outcome.verdict = "none" /\ outcome'.verdict # "none"
  /\ \/ limited /\ outcome' = Verdict("refused", {})
     \/ outcome' = Promise(request, now)
  /\ UNCHANGED <<request, limited, now>>

\* What was rendered is installed, and rendered again later.
Again ==
  /\ outcome.verdict = "rendered" /\ request.options.pin
  /\ \E r \in outcome.result :
       request' = [manifest |-> [head |-> r.head, rules |-> r.rules], options |-> InstallOptions]
  /\ now' >= now
  /\ outcome' = Verdict("none", {})
  /\ UNCHANGED limited

Next == Answer \/ Again

Spec == Init /\ [][Next]_outcomeVars
=============================================================================
