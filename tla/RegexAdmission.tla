--------------------------- MODULE RegexAdmission ---------------------------
(***************************************************************************)
(* Regex admission during one analysis (sema/analyzer/regex.rs).  Every    *)
(* call whose capability declares regex arguments passes them, in the      *)
(* order the analyzer meets them, to validate_regex_args; what it compiles *)
(* goes to the cache of the VerifiedProgram, the only place the runtime    *)
(* takes a regex from.                                                     *)
(***************************************************************************)
EXTENDS Integers, FiniteSets

CONSTANTS
  Patterns,     \* the pattern texts that occur as string literals
  Flavors,      \* RegexFlavor: "default", "header_name"
  Bytes,        \* the source bytes of each pattern
  BadRegexes,   \* the <<flavor, pattern>> pairs compile_regex refuses
  Policies,     \* the RegexPolicy values a profile may set
  MaxUnique,    \* max_unique_regexes
  MaxSource,    \* max_total_regex_source_bytes
  MaxArgs,      \* bound: regex arguments met in one analysis
  Dynamic       \* an argument that is not a string literal

ASSUME BytesAssumption == Bytes \in [Patterns -> Nat]
ASSUME LimitAssumption == MaxUnique \in Nat /\ MaxSource \in Nat /\ MaxArgs \in Nat
ASSUME DynamicAssumption == Dynamic \notin Patterns
ASSUME PolicyAssumption ==
  Policies \subseteq {"forbid", "literal_only_precompiled", "dynamic_with_budget"}

Keys == Flavors \X Patterns

\* What the analyzer can report about a regex argument.
Reports == {"forbidden", "not a literal", "invalid", "count limit", "source limit"}

VARIABLES
  policy,        \* profile.default_regex_policy
  attempts,      \* regex_attempts: "none", "compiled" or "failed" per key
  attemptCount,  \* regex_attempt_count
  sourceBytes,   \* regex_source_bytes
  countReported, sourceReported,   \* the reported-once flags
  cache,         \* regex_cache: the keys with a compiled regex
  literals,      \* regex_literals, as the set of keys it lists
  diagnostics,   \* how often each report was pushed
  met            \* history: the <<flavor, argument>> pairs met so far
                 \* with the number of arguments, capped by MaxArgs

vars == <<policy, attempts, attemptCount, sourceBytes, countReported,
          sourceReported, cache, literals, diagnostics, met>>
admission == <<attempts, attemptCount, sourceBytes, cache>>
flags == <<countReported, sourceReported>>

Init ==
  /\ policy \in Policies
  /\ attempts = [k \in Keys |-> "none"]
  /\ attemptCount = 0
  /\ sourceBytes = 0
  /\ countReported = FALSE /\ sourceReported = FALSE
  /\ cache = {}
  /\ literals = {}
  /\ diagnostics = [r \in Reports |-> 0]
  /\ met = [args |-> {}, count |-> 0]

Report(r) == diagnostics' = [diagnostics EXCEPT ![r] = @ + 1]

\* Mutant of Cached: the flavor does not matter.
CachedForAll(key) == cache \cup {<<f, key[2]>> : f \in Flavors}

\* regex_cache after the insertion of one more regex.
Cached(key) == cache \cup {key}

\* Mutant of CountLeft: one pattern too many.
CountLeftInclusive == attemptCount <= MaxUnique

CountLeft == attemptCount < MaxUnique

\* Every step meets one more argument of one call.
Meet(flavor, arg) ==
  /\ met.count < MaxArgs
  /\ met' = [args |-> met.args \cup {<<flavor, arg>>}, count |-> met.count + 1]
  /\ UNCHANGED policy

Forbid(flavor, arg) ==
  /\ policy = "forbid"
  /\ Meet(flavor, arg)
  /\ Report("forbidden")
  /\ UNCHANGED <<admission, flags, literals>>

RefuseDynamic(flavor) ==
  /\ policy = "literal_only_precompiled"
  /\ Meet(flavor, Dynamic)
  /\ Report("not a literal")
  /\ UNCHANGED <<admission, flags, literals>>

\* DynamicWithBudget leaves a pattern that is not a literal to the runtime.
IgnoreDynamic(flavor) ==
  /\ policy = "dynamic_with_budget"
  /\ Meet(flavor, Dynamic)
  /\ UNCHANGED <<admission, flags, literals, diagnostics>>

\* The literal reaches admit_regex; a broken one is reported only when the
\* policy demands literals.
AdmitsLiterals == policy \in {"literal_only_precompiled", "dynamic_with_budget"}

\* Mutant of ReportInvalid: the failed attempt is enough.
ReportInvalidNever == UNCHANGED diagnostics

ReportInvalid ==
  IF policy = "literal_only_precompiled" THEN Report("invalid")
  ELSE UNCHANGED diagnostics

\* admit_regex, a pattern already attempted under this flavor.
Reuse(flavor, pattern) ==
  LET key == <<flavor, pattern>>
  IN  /\ AdmitsLiterals
      /\ Meet(flavor, pattern)
      /\ \/ /\ attempts[key] = "compiled"
            /\ literals' = literals \cup {key}
            /\ UNCHANGED diagnostics
         \/ /\ attempts[key] = "failed"
            /\ ReportInvalid
            /\ UNCHANGED literals
      /\ UNCHANGED <<admission, flags>>

\* Mutant of OverCount: the limit is never reported.
OverCountSilent(flavor, pattern) ==
  /\ AdmitsLiterals /\ Meet(flavor, pattern)
  /\ attempts[<<flavor, pattern>>] = "none" /\ ~CountLeft
  /\ countReported' = countReported
  /\ UNCHANGED <<admission, literals, diagnostics, sourceReported>>

\* reserve_regex_source refuses: each limit is reported once per analysis.
OverCount(flavor, pattern) ==
  /\ AdmitsLiterals
  /\ Meet(flavor, pattern)
  /\ attempts[<<flavor, pattern>>] = "none"
  /\ ~CountLeft
  /\ IF countReported THEN UNCHANGED diagnostics ELSE Report("count limit")
  /\ countReported' = TRUE
  /\ UNCHANGED <<admission, literals, sourceReported>>

OverSource(flavor, pattern) ==
  /\ AdmitsLiterals
  /\ Meet(flavor, pattern)
  /\ attempts[<<flavor, pattern>>] = "none"
  /\ CountLeft
  /\ sourceBytes + Bytes[pattern] > MaxSource
  /\ IF sourceReported THEN UNCHANGED diagnostics ELSE Report("source limit")
  /\ sourceReported' = TRUE
  /\ UNCHANGED <<admission, literals, countReported>>

\* The source bytes are reserved before the compiler runs and stay reserved
\* when it fails; a failed pattern is remembered, so it is never retried.
Compile(flavor, pattern) ==
  LET key == <<flavor, pattern>>
  IN  /\ AdmitsLiterals
      /\ Meet(flavor, pattern)
      /\ attempts[key] = "none"
      /\ CountLeft
      /\ sourceBytes + Bytes[pattern] <= MaxSource
      /\ sourceBytes' = sourceBytes + Bytes[pattern]
      /\ attemptCount' = attemptCount + 1
      /\ \/ /\ key \notin BadRegexes
            /\ attempts' = [attempts EXCEPT ![key] = "compiled"]
            /\ cache' = Cached(key)
            /\ literals' = literals \cup {key}
            /\ UNCHANGED diagnostics
         \/ /\ key \in BadRegexes
            /\ attempts' = [attempts EXCEPT ![key] = "failed"]
            /\ ReportInvalid
            /\ UNCHANGED <<cache, literals>>
      /\ UNCHANGED flags

ValidateLiteral(flavor, pattern) ==
  \/ Reuse(flavor, pattern)
  \/ OverCount(flavor, pattern)
  \/ OverSource(flavor, pattern)
  \/ Compile(flavor, pattern)

Next ==
  \E flavor \in Flavors :
    \/ \E arg \in Patterns \cup {Dynamic} : Forbid(flavor, arg)
    \/ RefuseDynamic(flavor)
    \/ IgnoreDynamic(flavor)
    \/ \E pattern \in Patterns : ValidateLiteral(flavor, pattern)

Spec == Init /\ [][Next]_vars

-----------------------------------------------------------------------------
(* Properties *)

TypeOK ==
  /\ policy \in Policies
  /\ attempts \in [Keys -> {"none", "compiled", "failed"}]
  /\ attemptCount \in Nat /\ sourceBytes \in Nat
  /\ countReported \in BOOLEAN /\ sourceReported \in BOOLEAN
  /\ cache \subseteq Keys /\ literals \subseteq Keys
  /\ diagnostics \in [Reports -> Nat]
  /\ met \in [args : SUBSET (Flavors \X (Patterns \cup {Dynamic})), count : Nat]

Attempted == {k \in Keys : attempts[k] # "none"}
Clean == \A r \in Reports : diagnostics[r] = 0

\* One element for each source byte of each of these keys.
SourceOf(keys) == UNION {{k} \X (1 .. Bytes[k[2]]) : k \in keys}

\* The work of the regex compiler is bounded before it is done: the counters are
\* the number of distinct patterns attempted, failures included, and the bytes of
\* their source, and neither passes its limit.
CompilationBounded ==
  /\ attemptCount = Cardinality(Attempted)
  /\ sourceBytes = Cardinality(SourceOf(Attempted))
  /\ attemptCount <= MaxUnique
  /\ sourceBytes <= MaxSource

\* The cache is what the attempts say: a regex is in it exactly when its
\* attempt succeeded, and the program lists no literal the cache does not hold.
CacheMatchesAttempts ==
  /\ cache = {k \in Keys : attempts[k] = "compiled"}
  /\ literals \subseteq cache

\* An analysis that reports nothing leaves no regex for the runtime to miss:
\* under LiteralOnlyPrecompiled every regex argument it met is compiled, in its
\* own flavor, and under Forbid it met none.
CleanMeansPrecompiled ==
  Clean =>
    /\ policy = "literal_only_precompiled" => met.args \subseteq cache
    /\ policy = "forbid" => met.args = {}

\* Under DynamicWithBudget too, no literal is skipped in silence: it was
\* attempted, or a limit was reported and the analysis fails.
CleanMeansAttempted ==
  Clean => \A a \in met.args : a[2] \in Patterns => attempts[a] # "none"
=============================================================================
