------------------------------ MODULE Handlers ------------------------------
(***************************************************************************)
(* What a registered handler does with the values it is given: the         *)
(* handlers of default_registry (runtime/defaults.rs), the pattern-set     *)
(* methods (runtime/pattern_sets.rs), a host's handler that matches with a *)
(* precompiled regex (runtime/context.rs) and hosts' handlers of their own *)
(* ("list" returns what it was given, "fail" an error).                    *)
(*                                                                         *)
(* A handler is [does, work, flavor].  A regex is a text of literal        *)
(* characters, found anywhere; the texts in Malformed do not compile.      *)
(***************************************************************************)
EXTENDS Operators

CONSTANTS
  UpperOf,    \* the upper case of each lower-case letter
  Malformed   \* the texts that are no regex, or one that is too large

Occurs(s, t) == \E k \in 0 .. Len(t) - Len(s) : SubSeq(t, k + 1, k + Len(s)) = s

Upper(c) == IF c \in DOMAIN UpperOf THEN UpperOf[c] ELSE c
Lower(c) == IF \E d \in DOMAIN UpperOf : UpperOf[d] = c
            THEN CHOOSE d \in DOMAIN UpperOf : UpperOf[d] = c ELSE c

Total(number(_), s) == SumOf([k \in DOMAIN s |-> number(s[k])])

-----------------------------------------------------------------------------
(* RuntimePatternSets: configurations [name, kind, patterns] are admitted  *)
(* one after the other, and compiled only when all of them are.            *)

Regexes(config) == IF config.kind = "regex" THEN config.patterns ELSE <<>>
PatternBytes(config) == Total(Len, config.patterns)

\* The checks on the k-th configuration; l is RuntimePatternSetLimits.
ConfigChecks(configs, k, l) ==
  LET config == configs[k]
      upTo == SubSeq(configs, 1, k)
  IN  <<<<k <= l.sets, "sets">>,
        <<Len(config.name) <= l.name, "name">>,
        <<\E j \in DOMAIN config.name : config.name[j] # " ", "blank name">>,
        <<Len(config.patterns) <= l.patterns, "patterns">>,
        <<\A j \in DOMAIN config.patterns : Len(config.patterns[j]) <= l.pattern,
          "pattern">>,
        <<Total(LAMBDA c : Len(c.name), upTo) <= l.names, "names">>,
        <<\A j \in 1 .. k - 1 : configs[j].name # config.name, "duplicate">>,
        <<Total(PatternBytes, upTo) <= l.bytes, "pattern bytes">>>>

SetChecks(configs, l) ==
  FlattenSeq([k \in DOMAIN configs |-> ConfigChecks(configs, k, l)]) \o
    <<<<Total(LAMBDA c : Len(Regexes(c)), configs) * l.compiled <= l.allCompiled,
        "compiled">>,
      <<\A k \in DOMAIN configs : ToSet(Regexes(configs[k])) \cap Malformed = {},
        "invalid regex">>>>

CompiledSets(configs) ==
  [name \in {configs[k].name : k \in DOMAIN configs} |->
     configs[CHOOSE k \in DOMAIN configs : configs[k].name = name].patterns]

-----------------------------------------------------------------------------
(* A call: the checks made before the handler charges its work, the work,  *)
(* the checks after it, the value; and, of the work, what is really done.  *)

Call(before, work, after, value, done) ==
  [before |-> before, work |-> work, after |-> after, value |-> value, done |-> done]
Given(holds, reason, value) ==
  Call(<<<<holds, reason>>>>, 0, <<>>, IF holds THEN value ELSE Failure, 0)
Simple(holds, value) == Given(holds, "type", value)

LengthOf(v) == IF v.ty = "array" THEN Len(v.parts) ELSE Len(v.payload)

\* The places in texts: the characters of each, and its end.
Places(texts) == UNION {{k} \X (0 .. Len(texts[k])) : k \in DOMAIN texts}

\* evaluate_pattern_set_method: the work is projected for every candidate and
\* every pattern, a place of one with a place of the other; the search ends at
\* the first pattern found.
PatternSetCall(sets, receiver, name) ==
  LET texts == IF receiver.ty = "string" THEN <<receiver>> ELSE receiver.parts
      candidates == [k \in DOMAIN texts |-> texts[k].payload]
      patterns == sets[name.payload]
      Found(k, j) == Occurs(patterns[j], candidates[k])
      Tried(k, j) == /\ \A i \in 1 .. j - 1 : ~Found(k, i)
                     /\ \A l \in 1 .. k - 1 : \A i \in DOMAIN patterns : ~Found(l, i)
      known == name.ty = "string" /\ name.payload \in DOMAIN sets
      scannable == /\ receiver.ty \in {"string", "array"}
                   /\ \A k \in DOMAIN texts : texts[k].ty = "string"
  IN  IF ~known \/ ~scannable
      THEN Call(<<<<name.ty = "string", "type">>, <<known, "unknown set">>,
                  <<scannable, "type">>>>, 0, <<>>, Failure, 0)
      ELSE Call(<<>>,
                Cardinality(Places(candidates)) * Cardinality(Places(patterns)),
                <<>>,
                Bool(\E k \in DOMAIN texts : \E j \in DOMAIN patterns : Found(k, j)),
                Cardinality({c \in Places(candidates) \X Places(patterns) :
                               Tried(c[1][1], c[2][1])}))

\* precompiled_regex_is_match.
RegexCall(cache, flavor, receiver, pattern) ==
  LET work == (Len(receiver.payload) + 1) * (Len(pattern.payload) + 1)
      found == <<flavor, pattern.payload>> \in cache
  IN  Call(<<<<BothTexts(receiver, pattern), "type">>>>, work,
           <<<<found, "regex missing">>>>,
           Bool(Occurs(pattern.payload, receiver.payload)), IF found THEN work ELSE 0)

\* contains: a substring, or an item.
ContainsCall(receiver, needle) ==
  Simple(receiver.ty = "array" \/ BothTexts(receiver, needle),
         Bool(IF receiver.ty = "array"
              THEN needle \in ToSet(receiver.parts)
              ELSE Occurs(needle.payload, receiver.payload)))

\* lower_ascii and upper_ascii refuse a result that is too long before it is made.
CaseCall(letter(_), receiver, limit) ==
  LET bytes == Len(receiver.payload)
  IN  Call(<<<<receiver.ty = "string", "type">>, <<bytes <= limit, "string">>>>,
           bytes, <<>>, Text([k \in 1 .. bytes |-> letter(receiver.payload[k])]), bytes)

\* A built-in operator.
BuiltinCall(op, args, limit) ==
  LET checks == BuiltinChecks(op, args, limit)
  IN  Call(checks, 0, <<>>, IF AllHold(checks) THEN Builtin(op, args) ELSE Failure, 0)

HandlerNames ==
  {"list", "fail", "len", "contains", "contains_key", "starts_with", "ends_with",
   "lower_ascii", "upper_ascii", "containsAny", "matches"}

\* The call of a handler with args, a method's receiver first.
HandlerCall(handler, args, sets, cache, limit) ==
  CASE handler.does = "list" ->
         Call(<<>>, handler.work, <<>>, List(args), handler.work)
    [] handler.does = "fail" ->
         Call(<<>>, handler.work, <<<<FALSE, "handler">>>>, Failure, handler.work)
    [] handler.does = "len" ->
         Simple(args[1].ty \in {"string", "array", "object"}, Integer(LengthOf(args[1])))
    [] handler.does = "contains" -> ContainsCall(args[1], args[2])
    [] handler.does = "contains_key" ->
         Simple(args[1].ty = "object" /\ args[2].ty = "string",
                Bool(\E key \in ToSet(args[1].payload) : args[2].payload = <<key>>))
    [] handler.does = "starts_with" ->
         Simple(BothTexts(args[1], args[2]), Bool(IsPrefix(args[2].payload, args[1].payload)))
    [] handler.does = "ends_with" ->
         Simple(BothTexts(args[1], args[2]), Bool(IsSuffix(args[2].payload, args[1].payload)))
    [] handler.does = "lower_ascii" -> CaseCall(Lower, args[1], limit)
    [] handler.does = "upper_ascii" -> CaseCall(Upper, args[1], limit)
    [] handler.does = "containsAny" -> PatternSetCall(sets, args[1], args[2])
    [] handler.does = "matches" -> RegexCall(cache, handler.flavor, args[1], args[2])
=============================================================================
