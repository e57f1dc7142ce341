------------------------ MODULE RegexAdmissionProofs ------------------------
(***************************************************************************)
(* The invariants of RegexAdmission for every set of patterns and every    *)
(* limit.  They are proved together: that a clean analysis has compiled    *)
(* what it met rests on the limits being reported whenever a flag is set.  *)
(***************************************************************************)
EXTENDS RegexAdmission, FiniteSetTheorems, TLAPS

\* However many arguments run into a limit, it is reported once, and the flag
\* that silences the others is set only when it was.
LimitsReportedOnce ==
  /\ countReported => diagnostics["count limit"] = 1
  /\ ~countReported => diagnostics["count limit"] = 0
  /\ sourceReported => diagnostics["source limit"] = 1
  /\ ~sourceReported => diagnostics["source limit"] = 0

IInv ==
  /\ TypeOK
  /\ IsFiniteSet(Attempted) /\ IsFiniteSet(SourceOf(Attempted)) /\ CompilationBounded
  /\ CacheMatchesAttempts
  /\ LimitsReportedOnce
  /\ CleanMeansPrecompiled
  /\ CleanMeansAttempted

\* One more report makes an analysis not clean, and leaves the others alone.
LEMMA ReportCounts ==
  ASSUME TypeOK, NEW r \in Reports, Report(r)
  PROVE  /\ diagnostics' \in [Reports -> Nat]
         /\ diagnostics'[r] = diagnostics[r] + 1
         /\ \A s \in Reports \ {r} : diagnostics'[s] = diagnostics[s]
         /\ ~Clean'
<1>1. /\ diagnostics' \in [Reports -> Nat]
      /\ diagnostics'[r] = diagnostics[r] + 1
      /\ \A s \in Reports \ {r} : diagnostics'[s] = diagnostics[s]
  BY DEF TypeOK, Report
<1>2. diagnostics[r] \in Nat
  BY DEF TypeOK
<1>3. ~Clean'
  BY <1>1, <1>2 DEF Clean
<1>4. QED
  BY <1>1, <1>3

\* The first report of a kind, and what one report of a kind says of Clean.
LEMMA FirstReport ==
  ASSUME TypeOK, NEW r \in Reports, NEW s \in Reports \ {r}, Report(r),
         diagnostics[r] = 0
  PROVE  /\ diagnostics' \in [Reports -> Nat]
         /\ diagnostics'[r] = 1
         /\ diagnostics'[s] = diagnostics[s]
BY ReportCounts

\* A report that was pushed makes the analysis unclean.
LEMMA ReportedOnce ==
  ASSUME NEW r \in Reports, diagnostics'[r] = 1
  PROVE  ~Clean'
BY DEF Clean

\* What every step does to the history of arguments.
LEMMA MeetKeepsType ==
  ASSUME TypeOK, NEW flavor \in Flavors, NEW arg \in Patterns \cup {Dynamic},
         Meet(flavor, arg)
  PROVE  /\ met' \in [args : SUBSET (Flavors \X (Patterns \cup {Dynamic})), count : Nat]
         /\ met'.args = met.args \cup {<<flavor, arg>>}
         /\ policy' = policy
BY DEF TypeOK, Meet

\* The invariant holds before the first argument.
LEMMA InitInvariant == Init => IInv
<1> SUFFICES ASSUME Init PROVE IInv
  OBVIOUS
<1>1. TypeOK
  BY DEF Init, TypeOK
<1>2. Attempted = {}
  BY DEF Init, Attempted
<1>3. SourceOf(Attempted) = {}
  BY <1>2 DEF SourceOf
<1>4. IsFiniteSet(Attempted) /\ IsFiniteSet(SourceOf(Attempted)) /\ CompilationBounded
  BY <1>2, <1>3, FS_EmptySet, LimitAssumption DEF Init, CompilationBounded
<1>5. CacheMatchesAttempts
  BY DEF Init, CacheMatchesAttempts
<1>6. LimitsReportedOnce
  BY DEF Init, LimitsReportedOnce, Reports
<1>7. CleanMeansPrecompiled /\ CleanMeansAttempted
  BY DEF Init, CleanMeansPrecompiled, CleanMeansAttempted
<1>8. QED
  BY <1>1, <1>4, <1>5, <1>6, <1>7 DEF IInv

\* A step that only reports, or ignores, an argument: nothing is attempted.
LEMMA NoAttempt ==
  ASSUME IInv, UNCHANGED admission
  PROVE  /\ Attempted' = Attempted
         /\ IsFiniteSet(Attempted)' /\ IsFiniteSet(SourceOf(Attempted))'
         /\ CompilationBounded'
         /\ literals' = literals => CacheMatchesAttempts'
<1>1. UNCHANGED <<attempts, attemptCount, sourceBytes, cache>>
  BY DEF admission
<1>2. Attempted' = Attempted /\ SourceOf(Attempted)' = SourceOf(Attempted)
  BY <1>1 DEF Attempted, SourceOf
<1>3. QED
  BY <1>1, <1>2 DEF IInv, CompilationBounded, CacheMatchesAttempts

\* Under Forbid an argument is reported and nothing is attempted.
LEMMA ForbidStep ==
  ASSUME IInv, NEW flavor \in Flavors, NEW arg \in Patterns \cup {Dynamic},
         Forbid(flavor, arg)
  PROVE  IInv'
<1>1. TypeOK /\ Report("forbidden") /\ Meet(flavor, arg)
        /\ UNCHANGED <<attempts, attemptCount, sourceBytes, cache>>
        /\ UNCHANGED <<countReported, sourceReported, literals>>
  BY DEF IInv, Forbid, admission, flags
<1>2. TypeOK' /\ ~Clean'
  BY <1>1, ReportCounts, MeetKeepsType DEF TypeOK, Reports
<1>3. LimitsReportedOnce'
  BY <1>1, ReportCounts DEF IInv, LimitsReportedOnce, Reports
<1>4. QED
  BY <1>1, <1>2, <1>3, NoAttempt
     DEF IInv, CleanMeansPrecompiled, CleanMeansAttempted, admission

\* A pattern that is not a literal is reported where literals are demanded.
LEMMA RefuseDynamicStep ==
  ASSUME IInv, NEW flavor \in Flavors, RefuseDynamic(flavor)
  PROVE  IInv'
<1>1. TypeOK /\ Report("not a literal") /\ Meet(flavor, Dynamic)
        /\ UNCHANGED <<attempts, attemptCount, sourceBytes, cache>>
        /\ UNCHANGED <<countReported, sourceReported, literals>>
  BY DEF IInv, RefuseDynamic, admission, flags
<1>2. TypeOK' /\ ~Clean'
  BY <1>1, ReportCounts, MeetKeepsType DEF TypeOK, Reports
<1>3. LimitsReportedOnce'
  BY <1>1, ReportCounts DEF IInv, LimitsReportedOnce, Reports
<1>4. QED
  BY <1>1, <1>2, <1>3, NoAttempt
     DEF IInv, CleanMeansPrecompiled, CleanMeansAttempted, admission

\* ... and passed over under DynamicWithBudget, which demands none.
LEMMA IgnoreDynamicStep ==
  ASSUME IInv, NEW flavor \in Flavors, IgnoreDynamic(flavor)
  PROVE  IInv'
<1>1. /\ TypeOK /\ Meet(flavor, Dynamic) /\ policy = "dynamic_with_budget"
      /\ UNCHANGED <<attempts, attemptCount, sourceBytes, cache>>
      /\ UNCHANGED <<countReported, sourceReported, literals, diagnostics>>
  BY DEF IInv, IgnoreDynamic, admission, flags
<1>2. TypeOK' /\ met'.args = met.args \cup {<<flavor, Dynamic>>} /\ policy' = policy
  BY <1>1, MeetKeepsType DEF TypeOK
<1>3. LimitsReportedOnce' /\ (Clean' <=> Clean)
  BY <1>1 DEF IInv, LimitsReportedOnce, Clean
<1>4. CleanMeansPrecompiled' /\ CleanMeansAttempted'
  BY <1>1, <1>2, <1>3, DynamicAssumption
     DEF IInv, CleanMeansPrecompiled, CleanMeansAttempted
<1>5. QED
  BY <1>1, <1>2, <1>3, <1>4, NoAttempt DEF IInv, admission

\* A pattern met again reports its remembered failure or is listed again.
LEMMA ReuseStep ==
  ASSUME IInv, NEW flavor \in Flavors, NEW pattern \in Patterns,
         Reuse(flavor, pattern)
  PROVE  IInv'
<1> DEFINE key == <<flavor, pattern>>
<1>0. key \in Keys
  BY DEF Keys
<1>1. /\ TypeOK /\ Meet(flavor, pattern) /\ AdmitsLiterals
      /\ UNCHANGED <<attempts, attemptCount, sourceBytes, cache>>
      /\ UNCHANGED <<countReported, sourceReported>>
  BY DEF IInv, Reuse, admission, flags
<1>2. met'.args = met.args \cup {key} /\ policy' = policy
  BY <1>1, MeetKeepsType
<1>3. CASE attempts[key] = "compiled" /\ literals' = literals \cup {key}
             /\ UNCHANGED diagnostics
  <2>1. key \in cache
    BY <1>0, <1>3 DEF IInv, CacheMatchesAttempts
  <2>2. CacheMatchesAttempts'
    BY <1>1, <1>3, <2>1 DEF IInv, CacheMatchesAttempts
  <2>3. TypeOK'
    BY <1>0, <1>1, <1>3, MeetKeepsType DEF TypeOK
  <2>4. LimitsReportedOnce' /\ (Clean' <=> Clean)
    BY <1>1, <1>3 DEF IInv, LimitsReportedOnce, Clean
  <2>5. CleanMeansPrecompiled' /\ CleanMeansAttempted'
    BY <1>1, <1>2, <1>3, <2>1, <2>4
       DEF IInv, CleanMeansPrecompiled, CleanMeansAttempted, AdmitsLiterals
  <2>6. QED
    BY <1>1, <2>2, <2>3, <2>4, <2>5, NoAttempt DEF IInv, admission
<1>4. CASE attempts[key] = "failed" /\ ReportInvalid /\ UNCHANGED literals
  <2>1. CASE policy = "literal_only_precompiled"
    <3>1. Report("invalid")
      BY <1>4, <2>1 DEF ReportInvalid
    <3>2. TypeOK' /\ ~Clean'
      BY <1>1, <1>4, <3>1, ReportCounts, MeetKeepsType DEF TypeOK, Reports
    <3>3. LimitsReportedOnce'
      BY <1>1, <3>1, ReportCounts DEF IInv, LimitsReportedOnce, Reports
    <3>4. QED
      BY <1>1, <1>4, <3>2, <3>3, NoAttempt
         DEF IInv, CleanMeansPrecompiled, CleanMeansAttempted, admission
  <2>2. CASE policy # "literal_only_precompiled"
    <3>1. UNCHANGED diagnostics /\ policy = "dynamic_with_budget"
      BY <1>1, <1>4, <2>2 DEF ReportInvalid, AdmitsLiterals
    <3>2. TypeOK' /\ LimitsReportedOnce' /\ (Clean' <=> Clean)
      BY <1>1, <1>4, <3>1, MeetKeepsType DEF IInv, TypeOK, LimitsReportedOnce, Clean
    <3>3. CleanMeansPrecompiled' /\ CleanMeansAttempted'
      BY <1>1, <1>2, <1>4, <3>1, <3>2
         DEF IInv, CleanMeansPrecompiled, CleanMeansAttempted
    <3>4. QED
      BY <1>1, <1>4, <3>2, <3>3, NoAttempt DEF IInv, admission
  <2>3. QED
    BY <2>1, <2>2
<1>5. QED
  BY <1>3, <1>4 DEF Reuse

\* A limit that refuses a pattern leaves the analysis not clean: the report is
\* pushed now, or it was when the flag was set.
LEMMA OverCountStep ==
  ASSUME IInv, NEW flavor \in Flavors, NEW pattern \in Patterns,
         OverCount(flavor, pattern)
  PROVE  IInv'
<1>0. /\ "count limit" \in Reports
      /\ "source limit" \in Reports \ {"count limit"}
  BY DEF Reports
<1>1. /\ TypeOK /\ Meet(flavor, pattern) /\ countReported'
      /\ countReported => diagnostics' = diagnostics
      /\ ~countReported => Report("count limit")
      /\ UNCHANGED <<attempts, attemptCount, sourceBytes, cache>>
      /\ sourceReported' = sourceReported /\ literals' = literals
  BY DEF IInv, OverCount, admission
<1>2. /\ diagnostics' \in [Reports -> Nat]
      /\ diagnostics'["count limit"] = 1
      /\ diagnostics'["source limit"] = diagnostics["source limit"]
  <2>1. CASE countReported
    BY <1>1, <2>1 DEF IInv, TypeOK, LimitsReportedOnce
  <2>2. CASE ~countReported
    <3>1. Report("count limit") /\ diagnostics["count limit"] = 0
      BY <1>1, <2>2 DEF IInv, LimitsReportedOnce
    <3>2. QED
      BY <1>0, <1>1, <3>1, FirstReport
  <2>3. QED
    BY <2>1, <2>2
<1>3. LimitsReportedOnce' /\ ~Clean'
  <2>1. ~Clean'
    BY <1>0, <1>2, ReportedOnce
  <2>2. LimitsReportedOnce'
    BY <1>1, <1>2 DEF IInv, LimitsReportedOnce
  <2>3. QED
    BY <2>1, <2>2
<1>4. TypeOK'
  BY <1>1, <1>2, MeetKeepsType DEF TypeOK
<1>5. QED
  BY <1>1, <1>2, <1>3, <1>4, NoAttempt
     DEF IInv, CleanMeansPrecompiled, CleanMeansAttempted, admission

\* The source limit is reported by the first pattern that runs into it.
LEMMA OverSourceStep ==
  ASSUME IInv, NEW flavor \in Flavors, NEW pattern \in Patterns,
         OverSource(flavor, pattern)
  PROVE  IInv'
<1>0. /\ "source limit" \in Reports
      /\ "count limit" \in Reports \ {"source limit"}
  BY DEF Reports
<1>1. /\ TypeOK /\ Meet(flavor, pattern) /\ sourceReported'
      /\ sourceReported => diagnostics' = diagnostics
      /\ ~sourceReported => Report("source limit")
      /\ UNCHANGED <<attempts, attemptCount, sourceBytes, cache>>
      /\ countReported' = countReported /\ literals' = literals
  BY DEF IInv, OverSource, admission
<1>2. /\ diagnostics' \in [Reports -> Nat]
      /\ diagnostics'["source limit"] = 1
      /\ diagnostics'["count limit"] = diagnostics["count limit"]
  <2>1. CASE sourceReported
    BY <1>1, <2>1 DEF IInv, TypeOK, LimitsReportedOnce
  <2>2. CASE ~sourceReported
    <3>1. Report("source limit") /\ diagnostics["source limit"] = 0
      BY <1>1, <2>2 DEF IInv, LimitsReportedOnce
    <3>2. QED
      BY <1>0, <1>1, <3>1, FirstReport
  <2>3. QED
    BY <2>1, <2>2
<1>3. LimitsReportedOnce' /\ ~Clean'
  <2>1. ~Clean'
    BY <1>0, <1>2, ReportedOnce
  <2>2. LimitsReportedOnce'
    BY <1>1, <1>2 DEF IInv, LimitsReportedOnce
  <2>3. QED
    BY <2>1, <2>2
<1>4. TypeOK'
  BY <1>1, <1>2, MeetKeepsType DEF TypeOK
<1>5. QED
  BY <1>1, <1>2, <1>3, <1>4, NoAttempt
     DEF IInv, CleanMeansPrecompiled, CleanMeansAttempted, admission

\* The source of one key has its number of bytes.
LEMMA SourceOfOne ==
  ASSUME NEW x, NEW n \in Nat
  PROVE  IsFiniteSet({x} \X (1 .. n)) /\ Cardinality({x} \X (1 .. n)) = n
<1>1. IsFiniteSet(1 .. n) /\ Cardinality(1 .. n) = IF 1 > n THEN 0 ELSE n - 1 + 1
  BY FS_Interval
<1>2. Cardinality(1 .. n) = n
  BY <1>1
<1>3. IsFiniteSet({x}) /\ Cardinality({x}) = 1
  BY FS_Singleton
<1> DEFINE k == 1 .. n
<1>4. /\ IsFiniteSet({x} \X k)
      /\ Cardinality({x} \X k) = Cardinality({x}) * Cardinality(k)
  <2>1. IsFiniteSet(k)
    BY <1>1
  <2> HIDE DEF k
  <2>2. QED
    BY <1>3, <2>1, FS_Product
<1>5. QED
  BY <1>2, <1>3, <1>4

\* One more key has its source beside that of the others.
LEMMA SourceCounted ==
  ASSUME NEW keys, NEW key \in Keys, key \notin keys, IsFiniteSet(SourceOf(keys))
  PROVE  /\ IsFiniteSet(SourceOf(keys \cup {key}))
         /\ Cardinality(SourceOf(keys \cup {key})) =
              Cardinality(SourceOf(keys)) + Bytes[key[2]]
<1> DEFINE before == SourceOf(keys)
           more == {key} \X (1 .. Bytes[key[2]])
<1>1. Bytes[key[2]] \in Nat
  BY BytesAssumption DEF Keys
<1>2. IsFiniteSet(more) /\ Cardinality(more) = Bytes[key[2]]
  BY <1>1, SourceOfOne
<1>3. SourceOf(keys \cup {key}) = before \cup more
  BY DEF SourceOf
<1>4. before \cap more = {}
  BY DEF SourceOf
<1>5. IsFiniteSet(before) /\ Cardinality(before) \in Nat
  BY FS_CardinalityType
<1> HIDE DEF before, more
<1>6. /\ IsFiniteSet(before \cup more)
      /\ Cardinality(before \cup more) =
           Cardinality(before) + Cardinality(more) - Cardinality(before \cap more)
  BY <1>2, <1>5, FS_Union
<1>7. Cardinality(before \cup more) = Cardinality(before) + Bytes[key[2]]
  BY <1>1, <1>2, <1>4, <1>5, <1>6, FS_EmptySet
<1>8. QED
  BY <1>3, <1>6, <1>7 DEF before

\* A new attempt, whatever its outcome, is one more distinct key.
LEMMA AttemptCounted ==
  ASSUME IInv, NEW key \in Keys, attempts[key] = "none",
         NEW outcome \in {"compiled", "failed"},
         attempts' = [attempts EXCEPT ![key] = outcome],
         attemptCount < MaxUnique, attemptCount' = attemptCount + 1,
         sourceBytes' = sourceBytes + Bytes[key[2]], sourceBytes' <= MaxSource
  PROVE  IsFiniteSet(Attempted)' /\ IsFiniteSet(SourceOf(Attempted))' /\ CompilationBounded'
<1>1. attempts \in [Keys -> {"none", "compiled", "failed"}]
  BY DEF IInv, TypeOK
<1>2. Attempted' = Attempted \cup {key} /\ key \notin Attempted
  BY <1>1 DEF Attempted
<1>3. /\ IsFiniteSet(Attempted \cup {key})
      /\ Cardinality(Attempted \cup {key}) = Cardinality(Attempted) + 1
  BY <1>2, FS_AddElement DEF IInv
<1>4. /\ attemptCount \in Nat /\ attemptCount = Cardinality(Attempted)
      /\ sourceBytes = Cardinality(SourceOf(Attempted))
  BY DEF IInv, TypeOK, CompilationBounded
<1>5. /\ IsFiniteSet(SourceOf(Attempted \cup {key}))
      /\ Cardinality(SourceOf(Attempted \cup {key})) = sourceBytes + Bytes[key[2]]
  BY <1>2, <1>4, SourceCounted DEF IInv
<1>6. SourceOf(Attempted)' = SourceOf(Attempted \cup {key})
  BY <1>2 DEF SourceOf
<1>7. QED
  BY <1>2, <1>3, <1>4, <1>5, <1>6, LimitAssumption DEF CompilationBounded

\* A compiled pattern enters the cache; a failed one is remembered.
LEMMA CompileStep ==
  ASSUME IInv, NEW flavor \in Flavors, NEW pattern \in Patterns,
         Compile(flavor, pattern)
  PROVE  IInv'
<1> DEFINE key == <<flavor, pattern>>
<1>0. key \in Keys /\ key[2] = pattern
  BY DEF Keys
<1>1. /\ TypeOK /\ Meet(flavor, pattern) /\ AdmitsLiterals
      /\ attempts[key] = "none" /\ attemptCount < MaxUnique
      /\ attemptCount' = attemptCount + 1
      /\ sourceBytes' = sourceBytes + Bytes[pattern] /\ sourceBytes' <= MaxSource
      /\ UNCHANGED <<countReported, sourceReported>>
  BY DEF IInv, Compile, CountLeft, flags
<1>2. met'.args = met.args \cup {key} /\ policy' = policy
  BY <1>1, MeetKeepsType
<1>3. attemptCount' \in Nat /\ sourceBytes' \in Nat
  BY <1>1, BytesAssumption DEF TypeOK
<1>4. attempts \in [Keys -> {"none", "compiled", "failed"}]
  BY <1>1 DEF TypeOK
<1>5. CASE /\ attempts' = [attempts EXCEPT ![key] = "compiled"]
           /\ cache' = cache \cup {key} /\ literals' = literals \cup {key}
           /\ UNCHANGED diagnostics
  <2>1. IsFiniteSet(Attempted)' /\ IsFiniteSet(SourceOf(Attempted))' /\ CompilationBounded'
    BY <1>0, <1>1, <1>5, AttemptCounted
  <2>2. CacheMatchesAttempts'
    BY <1>0, <1>4, <1>5 DEF IInv, CacheMatchesAttempts
  <2>3. TypeOK'
    BY <1>0, <1>1, <1>3, <1>4, <1>5, MeetKeepsType DEF TypeOK
  <2>4. LimitsReportedOnce' /\ (Clean' <=> Clean)
    BY <1>1, <1>5 DEF IInv, LimitsReportedOnce, Clean
  <2>5. CleanMeansPrecompiled'
    BY <1>1, <1>2, <1>5, <2>4 DEF IInv, CleanMeansPrecompiled, AdmitsLiterals
  <2>6. CleanMeansAttempted'
    BY <1>0, <1>2, <1>4, <1>5, <2>3, <2>4 DEF IInv, CleanMeansAttempted, TypeOK, Keys
  <2>7. QED
    BY <2>1, <2>2, <2>3, <2>4, <2>5, <2>6 DEF IInv
<1>6. CASE /\ attempts' = [attempts EXCEPT ![key] = "failed"]
           /\ ReportInvalid /\ UNCHANGED <<cache, literals>>
  <2>1. IsFiniteSet(Attempted)' /\ IsFiniteSet(SourceOf(Attempted))' /\ CompilationBounded'
    BY <1>0, <1>1, <1>6, AttemptCounted
  <2>2. CacheMatchesAttempts'
    BY <1>0, <1>1, <1>4, <1>6 DEF IInv, CacheMatchesAttempts
  <2>3. CASE policy = "literal_only_precompiled"
    <3>1. Report("invalid")
      BY <1>6, <2>3 DEF ReportInvalid
    <3>2. TypeOK' /\ ~Clean'
      BY <1>0, <1>1, <1>3, <1>4, <1>6, <3>1, ReportCounts, MeetKeepsType
         DEF TypeOK, Reports
    <3>3. LimitsReportedOnce'
      BY <1>1, <3>1, ReportCounts DEF IInv, LimitsReportedOnce, Reports
    <3>4. QED
      BY <2>1, <2>2, <3>2, <3>3 DEF IInv, CleanMeansPrecompiled, CleanMeansAttempted
  <2>4. CASE policy # "literal_only_precompiled"
    <3>1. UNCHANGED diagnostics /\ policy = "dynamic_with_budget"
      BY <1>1, <1>6, <2>4 DEF ReportInvalid, AdmitsLiterals
    <3>2. TypeOK' /\ LimitsReportedOnce' /\ (Clean' <=> Clean)
      BY <1>0, <1>1, <1>3, <1>4, <1>6, <3>1, MeetKeepsType
         DEF IInv, TypeOK, LimitsReportedOnce, Clean
    <3>3. CleanMeansPrecompiled'
      BY <1>2, <3>1 DEF CleanMeansPrecompiled
    <3>4. CleanMeansAttempted'
      BY <1>0, <1>2, <1>4, <1>6, <3>2 DEF IInv, CleanMeansAttempted, TypeOK, Keys
    <3>5. QED
      BY <2>1, <2>2, <3>2, <3>3, <3>4 DEF IInv
  <2>5. QED
    BY <2>3, <2>4
<1>7. QED
  BY <1>5, <1>6 DEF Compile, Cached

\* Every argument preserves the invariant.
LEMMA StepInvariant == IInv /\ [Next]_vars => IInv'
<1> SUFFICES ASSUME IInv, [Next]_vars PROVE IInv'
  OBVIOUS
<1>1. CASE Next
  <2>1. ASSUME NEW flavor \in Flavors, NEW arg \in Patterns \cup {Dynamic},
               Forbid(flavor, arg)
        PROVE  IInv'
    BY <2>1, ForbidStep
  <2>2. ASSUME NEW flavor \in Flavors, RefuseDynamic(flavor) \/ IgnoreDynamic(flavor)
        PROVE  IInv'
    BY <2>2, RefuseDynamicStep, IgnoreDynamicStep
  <2>3. ASSUME NEW flavor \in Flavors, NEW pattern \in Patterns,
               ValidateLiteral(flavor, pattern)
        PROVE  IInv'
    BY <2>3, ReuseStep, OverCountStep, OverSourceStep, CompileStep DEF ValidateLiteral
  <2>4. QED
    BY <1>1, <2>1, <2>2, <2>3 DEF Next
<1>2. CASE UNCHANGED vars
  BY <1>2 DEF vars, IInv, TypeOK, CompilationBounded, Attempted, SourceOf, CacheMatchesAttempts,
     LimitsReportedOnce, CleanMeansPrecompiled, CleanMeansAttempted, Clean
<1>3. QED
  BY <1>1, <1>2

\* The invariant holds throughout an analysis.
LEMMA Invariance == Spec => []IInv
BY InitInvariant, StepInvariant, PTL DEF Spec

\* The state of regex admission keeps its types.
THEOREM TypeTheorem == Spec => []TypeOK
<1>1. IInv => TypeOK
  BY DEF IInv
<1>2. QED
  BY <1>1, Invariance, PTL

\* The regex compiler runs at most max_unique_regexes times, over at most
\* max_total_regex_source_bytes of source, in every analysis.
THEOREM CompilationTheorem == Spec => []CompilationBounded
<1>1. IInv => CompilationBounded
  BY DEF IInv
<1>2. QED
  BY <1>1, Invariance, PTL

\* Whatever the limits and the patterns: under LiteralOnlyPrecompiled an
\* analysis that reported nothing met nothing but literals and compiled them
\* all, and under Forbid it met no regex argument.
THEOREM PrecompiledTheorem == Spec => []CleanMeansPrecompiled
<1>1. IInv => CleanMeansPrecompiled
  BY DEF IInv
<1>2. QED
  BY <1>1, Invariance, PTL

\* Under every policy: an analysis that reported nothing attempted each literal
\* it met, in the flavor it met it in; none was skipped in silence.
THEOREM AttemptedTheorem == Spec => []CleanMeansAttempted
<1>1. IInv => CleanMeansAttempted
  BY DEF IInv
<1>2. QED
  BY <1>1, Invariance, PTL

\* The runtime's cache is the set of patterns that were attempted and compiled.
THEOREM CacheTheorem == Spec => []CacheMatchesAttempts
<1>1. IInv => CacheMatchesAttempts
  BY DEF IInv
<1>2. QED
  BY <1>1, Invariance, PTL
=============================================================================
