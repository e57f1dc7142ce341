--------------------------- MODULE SchemaRegistry ---------------------------
(***************************************************************************)
(* Registration of expression functions in a RuntimeSchema                 *)
(* (sema/schema.rs, sema/schema/expression_limits.rs).  The builder never  *)
(* returns an error: a refused or duplicated function leaves a diagnostic  *)
(* in the schema, and the analysis of any program over that schema reads   *)
(* it back.  The diagnostics are themselves limited, the limits can change *)
(* between two calls and a serialized schema comes back with the default   *)
(* ones; a refusal must survive all of it.                                 *)
(***************************************************************************)
EXTENDS Integers, Sequences, FiniteSets
LOCAL INSTANCE FiniteSetsExt

CONSTANTS
  Names,           \* the function names
  Functions,       \* the functions a caller may offer, by what is measured
  LimitSets,       \* the ExpressionFunctionLimits a caller may set
  DefaultLimits,   \* ExpressionFunctionLimits::default()
  DiagnosticCeiling, DiagnosticByteCeiling, BodyDepthCeiling,
                   \* the fixed limits no ExpressionFunctionLimits can raise
  MessageBytes,    \* the lengths a bounded diagnostic message may have
  HostSignatures,  \* the <<name, arity>> pairs a host may declare itself
  MaxRequests      \* bound: distinct registrations in one behaviour

Scopes == {"Global", "Local"}

\* What the limits measure of a function: its parameters, the bytes of its
\* name and parameters, and the nodes, depth, scalar bytes and calls of its
\* body; signature and syntax tell whether both are well formed.
Measures == {"params", "bytes", "nodes", "depth", "scalars", "calls"}
FunctionType ==
  [params : Nat, bytes : Nat, nodes : Nat, depth : Nat, scalars : Nat,
   calls : Nat, signature : BOOLEAN, syntax : BOOLEAN]
LimitType ==
  [functions : Nat, params : Nat, bytes : Nat, nodes : Nat, depth : Nat,
   scalars : Nat, calls : Nat, diagnostics : Nat, diagnosticBytes : Nat]

ASSUME FunctionAssumption == Functions \subseteq FunctionType
ASSUME LimitAssumption == LimitSets \cup {DefaultLimits} \subseteq LimitType
ASSUME BoundAssumption ==
  /\ DiagnosticCeiling \in Nat /\ DiagnosticByteCeiling \in Nat
  /\ BodyDepthCeiling \in Nat /\ MaxRequests \in Nat
  /\ MessageBytes \subseteq Nat
  /\ HostSignatures \subseteq Names \X Nat

Entries == [scope : Scopes, name : Names, fn : Functions]
SameKey(e, f) == e.scope = f.scope /\ e.name = f.name

VARIABLES
  stored,       \* expression_functions and local_expression_functions
  signatures,   \* functions: <<name, arity, who registered it last>>
  limits,       \* expression_function_limits
  diagnostics,  \* expression_function_diagnostics, by message length
  truncated,    \* expression_function_diagnostics_truncated
  requested,    \* history: every function a caller offered
  refused       \* history: one was rejected, or replaced another

vars == <<stored, signatures, limits, diagnostics, truncated, requested, refused>>

Init ==
  /\ stored = {}
  /\ signatures = {}
  /\ limits = DefaultLimits
  /\ diagnostics = <<>>
  /\ truncated = FALSE
  /\ requested = {}
  /\ refused = FALSE

Lower(a, b) == IF a < b THEN a ELSE b
Total(S, measure) == MapThenSumSet(LAMBDA e : e.fn[measure], S)

-----------------------------------------------------------------------------
(* Diagnostics *)

DiagnosticLimit == Lower(limits.diagnostics, DiagnosticCeiling)
DiagnosticByteLimit == Lower(limits.diagnosticBytes, DiagnosticByteCeiling)

\* The bytes of the first i diagnostics.
BytesTo(i) == MapThenSumSet(LAMBDA k : diagnostics[k], 1 .. i)

\* Mutant of Push: a diagnostic over the limit is dropped without a trace.
PushDropping(length) ==
  /\ diagnostics' = IF Len(diagnostics) < DiagnosticLimit
                    THEN Append(diagnostics, length) ELSE diagnostics
  /\ truncated' = truncated

\* push_expression_function_diagnostic: one that does not fit is dropped, and
\* the schema remembers that something was.
Push(length) ==
  LET fits == /\ Len(diagnostics) < DiagnosticLimit
              /\ BytesTo(Len(diagnostics)) + length <= DiagnosticByteLimit
  IN  \/ /\ fits
         /\ diagnostics' = Append(diagnostics, length)
         /\ truncated' = truncated
      \/ /\ ~fits
         /\ truncated' = TRUE
         /\ diagnostics' = diagnostics

-----------------------------------------------------------------------------
(* Registration *)

\* collect_expression_function_params: the signature fits beside the functions
\* it does not replace.
SignatureFits(others, e) ==
  /\ Cardinality(others) + 1 <= limits.functions
  /\ Total(others, "params") + e.fn.params <= limits.params
  /\ Total(others, "bytes") + e.fn.bytes <= limits.bytes
  /\ e.fn.signature

\* validate_functions over a set of functions: the counters only grow, so the
\* order the maps list them in does not matter.
Fits(S) ==
  /\ Cardinality(S) <= limits.functions
  /\ Total(S, "params") <= limits.params
  /\ Total(S, "bytes") <= limits.bytes
  /\ Total(S, "nodes") <= limits.nodes
  /\ Total(S, "scalars") <= limits.scalars
  /\ Total(S, "calls") <= limits.calls
  /\ \A e \in S : /\ e.fn.signature /\ e.fn.syntax
                  /\ e.fn.depth <= Lower(limits.depth, BodyDepthCeiling)

Others(e) == {f \in stored : ~SameKey(e, f)}

Offer(e) ==
  /\ Cardinality(requested \cup {e}) <= MaxRequests
  /\ requested' = requested \cup {e}
  /\ limits' = limits

RejectSignature(e, length) ==
  /\ Offer(e)
  /\ ~SignatureFits(Others(e), e)
  /\ Push(length)
  /\ refused' = TRUE
  /\ stored' = stored /\ signatures' = signatures

RejectBody(e, length) ==
  /\ Offer(e)
  /\ SignatureFits(Others(e), e)
  /\ ~Fits(Others(e) \cup {e})
  /\ Push(length)
  /\ refused' = TRUE
  /\ stored' = stored /\ signatures' = signatures

\* Mutant of AddFunction: a name has one signature.
AddFunctionByName(name, arity, by) ==
  signatures' = {s \in signatures : s[1] # name} \cup {<<name, arity, by>>}

\* add_function: a plain capability takes the place of a host's.
AddFunction(name, arity, by) ==
  signatures' = {s \in signatures : s[1] # name \/ s[2] # arity}
                  \cup {<<name, arity, by>>}

Admit(e) ==
  /\ Offer(e)
  /\ SignatureFits(Others(e), e)
  /\ Fits(Others(e) \cup {e})
  /\ AddFunction(e.name, e.fn.params, "function")
  /\ stored' = Others(e) \cup {e}

Register(e) ==
  /\ \A f \in stored : ~SameKey(e, f)
  /\ Admit(e)
  /\ refused' = refused
  /\ diagnostics' = diagnostics /\ truncated' = truncated

\* Mutant of Replace: the last function of a name wins, as in a plain map.
ReplaceSilently(e, length) ==
  /\ \E f \in stored : SameKey(e, f)
  /\ Admit(e)
  /\ diagnostics' = diagnostics /\ truncated' = truncated
  /\ refused' = TRUE

\* A duplicate replaces the function of that name and is reported.
Replace(e, length) ==
  /\ \E f \in stored : SameKey(e, f)
  /\ Admit(e)
  /\ Push(length)
  /\ refused' = TRUE

-----------------------------------------------------------------------------
(* The other calls a host makes while it builds the schema *)

\* set_expression_function_limits takes any limits, at any time.
SetLimits(l) ==
  /\ limits' = l
  /\ UNCHANGED <<stored, signatures, diagnostics, requested>>
  /\ truncated' = truncated /\ refused' = refused

\* Serialized and read back: the limits are not part of the wire form.
Reload ==
  /\ limits' = DefaultLimits
  /\ UNCHANGED <<stored, signatures, diagnostics, requested>>
  /\ truncated' = truncated /\ refused' = refused

AddHostCapability(name, arity) ==
  /\ AddFunction(name, arity, "host")
  /\ UNCHANGED <<stored, limits, diagnostics, requested>>
  /\ truncated' = truncated /\ refused' = refused

Next ==
  \/ \E e \in Entries :
       \/ Register(e)
       \/ \E length \in MessageBytes :
            RejectSignature(e, length) \/ RejectBody(e, length) \/ Replace(e, length)
  \/ \E l \in LimitSets : SetLimits(l)
  \/ Reload
  \/ \E s \in HostSignatures : AddHostCapability(s[1], s[2])

Spec == Init /\ [][Next]_vars

-----------------------------------------------------------------------------
(* validated_expression_function_diagnostics: what an analysis reads back *)

\* The retained diagnostics that fit the present limits.
Kept == {i \in DOMAIN diagnostics :
           i <= DiagnosticLimit /\ BytesTo(i) <= DiagnosticByteLimit}

\* Mutant of Invalid: the functions were validated when they were registered.
InvalidTrusted == FALSE

\* The functions are validated again; the message about them, of the given
\* length, takes what room is left.
Invalid == ~Fits(stored)
InvalidReported(length) ==
  /\ Invalid
  /\ Cardinality(Kept) < DiagnosticLimit
  /\ BytesTo(Cardinality(Kept)) + length <= DiagnosticByteLimit

\* With nothing to show for a cut, the budget message takes its place.
BudgetReported(length) ==
  /\ Kept = {} /\ ~InvalidReported(length)
  /\ truncated \/ Kept # DOMAIN diagnostics \/ Invalid

\* The analysis stops at any message.
Stops(length) == Kept # {} \/ InvalidReported(length) \/ BudgetReported(length)
Analyzable == \E length \in MessageBytes : ~Stops(length)

-----------------------------------------------------------------------------
(* Properties *)

\* The sets that stand for maps hold one entry per key.
TypeOK ==
  /\ stored \subseteq Entries
  /\ \A e, f \in stored : SameKey(e, f) => e = f
  /\ signatures \subseteq Names \X Nat \X {"function", "host"}
  /\ limits \in LimitType
  /\ diagnostics \in Seq(Nat)
  /\ truncated \in BOOLEAN /\ refused \in BOOLEAN
  /\ requested \subseteq Entries

\* A refusal is never forgotten: whatever limits are set after it, however few
\* diagnostics they leave room for, and after a round trip through the wire
\* form, no program is analyzed over the schema.
FailClosed == refused => ~Analyzable

\* A schema that analyzes holds exactly the functions its builder was offered:
\* none was dropped, none replaced.
NothingLost == Analyzable => stored = requested

\* ... and they fit the limits now in force, whatever limits they were
\* registered under.
AnalyzableFits == Analyzable => Fits(stored)

\* Every stored function can be called, and in a schema that analyzes no
\* signature of a replaced function is left behind to be called instead.
SignaturesCurrent ==
  /\ \A e \in stored : \E by \in {"function", "host"} :
       <<e.name, e.fn.params, by>> \in signatures
  /\ Analyzable => \A s \in signatures : s[3] = "function" =>
       \E e \in stored : e.name = s[1] /\ e.fn.params = s[2]

=============================================================================
