------------------------ MODULE SchemaRegistryProofs ------------------------
(***************************************************************************)
(* For every set of names, functions, limits and message lengths: a        *)
(* refused registration keeps every later analysis from going on, and a    *)
(* schema that analyzes lost no function.                                  *)
(***************************************************************************)
EXTENDS SchemaRegistry, SequenceTheorems, TLAPS

\* A refusal leaves a trace that the limits of a later analysis cannot erase.
Traced == refused => diagnostics # <<>> \/ truncated

\* Until something is refused, what was offered is what is stored.
Complete == ~refused => stored = requested

\* Every stored function has the signature it is called by ...
Callable ==
  \A e \in stored : \E by \in {"function", "host"} :
    <<e.name, e.fn.params, by>> \in signatures

\* ... and, while nothing has left a trace, every signature of a function is of
\* one that is stored.
Backed ==
  diagnostics = <<>> /\ ~truncated =>
    \A s \in signatures : s[3] = "function" =>
      \E e \in stored : e.name = s[1] /\ e.fn.params = s[2]

IInv == TypeOK /\ Traced /\ Complete /\ Callable /\ Backed

\* Pushing a diagnostic leaves one, or the mark that one is missing.
LEMMA PushTraces ==
  ASSUME NEW length \in MessageBytes, TypeOK, Push(length)
  PROVE  /\ diagnostics' \in Seq(Nat) /\ truncated' \in BOOLEAN
         /\ diagnostics' # <<>> \/ truncated'
<1>1. length \in Nat /\ diagnostics \in Seq(Nat) /\ truncated \in BOOLEAN
  BY BoundAssumption DEF TypeOK
<1>2. /\ Append(diagnostics, length) \in Seq(Nat)
      /\ Append(diagnostics, length) # <<>>
  BY <1>1, AppendProperties
<1>3. \/ diagnostics' = Append(diagnostics, length) /\ truncated' = truncated
      \/ truncated' = TRUE /\ diagnostics' = diagnostics
  BY DEF Push
<1>4. QED
  BY <1>1, <1>2, <1>3

\* An offer keeps the types of what it touches.
LEMMA OfferTypes ==
  ASSUME NEW e \in Entries, TypeOK, Offer(e)
  PROVE  requested' \subseteq Entries /\ limits' \in LimitType
BY DEF Offer, TypeOK

\* Admitting a function keeps the types of what it touches.
LEMMA AdmitTypes ==
  ASSUME NEW e \in Entries, TypeOK, Admit(e)
  PROVE  /\ requested' \subseteq Entries /\ limits' \in LimitType
         /\ stored' \subseteq Entries
         /\ \A f, g \in stored' : SameKey(f, g) => f = g
         /\ signatures' \subseteq Names \X Nat \X {"function", "host"}
<1>1. e.name \in Names /\ e.fn.params \in Nat
  BY FunctionAssumption DEF Entries, FunctionType
<1>2. \A f, g \in stored' : SameKey(f, g) => f = g
  <2>1. stored' = Others(e) \cup {e}
    BY DEF Admit
  <2>2. \A f, g \in Others(e) : SameKey(f, g) => f = g
    BY DEF Others, TypeOK
  <2>3. \A f \in Others(e) : ~SameKey(e, f) /\ ~SameKey(f, e)
    BY DEF Others, SameKey
  <2>4. QED
    BY <2>1, <2>2, <2>3
<1>3. QED
  BY <1>1, <1>2, OfferTypes DEF Admit, AddFunction, TypeOK, Others

\* A function that is admitted gets a signature, and takes none from another.
LEMMA AdmitCallable ==
  ASSUME NEW e \in Entries, Callable, Admit(e)
  PROVE  Callable'
<1>1. /\ stored' = Others(e) \cup {e} /\ Others(e) \subseteq stored
      /\ signatures' = {s \in signatures : s[1] # e.name \/ s[2] # e.fn.params}
                         \cup {<<e.name, e.fn.params, "function">>}
  BY DEF Admit, AddFunction, Others
<1>2. ASSUME NEW f \in Others(e)
      PROVE  \E by \in {"function", "host"} :
               <<f.name, f.fn.params, by>> \in signatures'
  <2>1. PICK by \in {"function", "host"} :
          <<f.name, f.fn.params, by>> \in signatures
    BY <1>1 DEF Callable
  <2>2. CASE f.name = e.name /\ f.fn.params = e.fn.params
    BY <1>1, <2>2
  <2>3. CASE f.name # e.name \/ f.fn.params # e.fn.params
    BY <1>1, <2>1, <2>3
  <2>4. QED
    BY <2>2, <2>3
<1>3. <<e.name, e.fn.params, "function">> \in signatures'
  BY <1>1
<1>4. QED
  BY <1>1, <1>2, <1>3 DEF Callable

\* The initial schema satisfies the invariant.
LEMMA InitInvariant == Init => IInv
<1> SUFFICES ASSUME Init PROVE IInv
  OBVIOUS
<1>1. /\ stored = {} /\ requested = {} /\ signatures = {} /\ diagnostics = <<>>
      /\ limits = DefaultLimits /\ truncated = FALSE /\ refused = FALSE
  BY DEF Init
<1>2. limits \in LimitType /\ diagnostics \in Seq(Nat)
  BY <1>1, LimitAssumption, EmptySeq
<1>3. TypeOK
  BY <1>1, <1>2 DEF TypeOK
<1>4. ~refused /\ stored = requested
  BY <1>1
<1>5. Callable /\ Backed
  BY <1>1 DEF Callable, Backed
<1>6. QED
  BY <1>3, <1>4, <1>5 DEF IInv, Traced, Complete

\* Every call on the schema preserves the invariant.
LEMMA StepInvariant == IInv /\ [Next]_vars => IInv'
<1> SUFFICES ASSUME IInv, [Next]_vars PROVE IInv'
  OBVIOUS
<1> USE DEF IInv
<1>1. ASSUME NEW e \in Entries, Register(e) PROVE IInv'
  <2>1. TypeOK'
    BY <1>1, AdmitTypes DEF Register, TypeOK
  <2>2. Traced'
    BY <1>1 DEF Register, Traced
  <2>3. Complete'
    <3>1. Others(e) = stored
      BY <1>1 DEF Register, Others
    <3>2. stored' = stored \cup {e} /\ requested' = requested \cup {e}
          /\ refused' = refused
      BY <1>1, <3>1 DEF Register, Admit, Offer
    <3>3. QED
      BY <3>2 DEF Complete
  <2>4. Callable'
    BY <1>1, AdmitCallable DEF Register
  <2>5. Backed'
    <3>1. /\ stored' = stored \cup {e}
          /\ signatures' \subseteq signatures
                             \cup {<<e.name, e.fn.params, "function">>}
          /\ diagnostics' = diagnostics /\ truncated' = truncated
      BY <1>1 DEF Register, Admit, Others, AddFunction
    <3>2. QED
      BY <3>1 DEF Backed
  <2>6. QED
    BY <2>1, <2>2, <2>3, <2>4, <2>5
<1>2. ASSUME NEW e \in Entries, NEW length \in MessageBytes,
             RejectSignature(e, length) \/ RejectBody(e, length)
      PROVE  IInv'
  <2>1. /\ Offer(e) /\ Push(length) /\ refused' = TRUE
        /\ stored' = stored /\ signatures' = signatures
    BY <1>2 DEF RejectSignature, RejectBody
  <2>2. QED
    BY <2>1, PushTraces, OfferTypes
    DEF TypeOK, Traced, Complete, Callable, Backed
<1>3. ASSUME NEW e \in Entries, NEW length \in MessageBytes, Replace(e, length)
      PROVE  IInv'
  <2>1. Admit(e) /\ Push(length) /\ refused' = TRUE
    BY <1>3 DEF Replace
  <2>2. QED
    BY <2>1, PushTraces, AdmitTypes, AdmitCallable
    DEF TypeOK, Traced, Complete, Backed
<1>4. ASSUME NEW l \in LimitSets, SetLimits(l) PROVE IInv'
  BY <1>4, LimitAssumption
  DEF SetLimits, TypeOK, Traced, Complete, Callable, Backed
<1>5. CASE Reload
  BY <1>5, LimitAssumption
  DEF Reload, TypeOK, Traced, Complete, Callable, Backed
<1>6. ASSUME NEW s \in HostSignatures, AddHostCapability(s[1], s[2]) PROVE IInv'
  <2>1. s[1] \in Names /\ s[2] \in Nat
    BY BoundAssumption
  <2>2. signatures' \subseteq Names \X Nat \X {"function", "host"}
    BY <1>6, <2>1 DEF AddHostCapability, AddFunction, TypeOK
  <2>3. Callable'
    <3>1. /\ stored' = stored
          /\ signatures' = {t \in signatures : t[1] # s[1] \/ t[2] # s[2]}
                             \cup {<<s[1], s[2], "host">>}
      BY <1>6 DEF AddHostCapability, AddFunction
    <3>2. ASSUME NEW e \in stored
          PROVE  \E by \in {"function", "host"} :
                   <<e.name, e.fn.params, by>> \in signatures'
      <4>1. PICK by \in {"function", "host"} :
              <<e.name, e.fn.params, by>> \in signatures
        BY DEF Callable
      <4>2. CASE e.name = s[1] /\ e.fn.params = s[2]
        BY <3>1, <4>2
      <4>3. CASE e.name # s[1] \/ e.fn.params # s[2]
        BY <3>1, <4>1, <4>3
      <4>4. QED
        BY <4>2, <4>3
    <3>3. QED
      BY <3>1, <3>2 DEF Callable
  <2>4. Backed'
    BY <1>6 DEF AddHostCapability, AddFunction, Backed
  <2>5. QED
    BY <1>6, <2>2, <2>3, <2>4 DEF AddHostCapability, TypeOK, Traced, Complete
<1>7. CASE UNCHANGED vars
  BY <1>7 DEF vars, TypeOK, Traced, Complete, Callable, Backed
<1>8. QED
  BY <1>1, <1>2, <1>3, <1>4, <1>5, <1>6, <1>7 DEF Next

\* The invariant holds throughout.
LEMMA Invariance == Spec => []IInv
BY InitInvariant, StepInvariant, PTL DEF Spec

\* A trace is enough to stop an analysis, under any limits.
LEMMA TraceStops ==
  ASSUME TypeOK, diagnostics # <<>> \/ truncated, NEW length
  PROVE  Stops(length)
<1>1. ASSUME diagnostics # <<>> PROVE DOMAIN diagnostics # {}
  <2>1. /\ Len(diagnostics) \in Nat /\ Len(diagnostics) # 0
        /\ DOMAIN diagnostics = 1 .. Len(diagnostics)
    BY <1>1, EmptySeq, LenProperties DEF TypeOK
  <2>2. 1 \in DOMAIN diagnostics
    BY <2>1
  <2>3. QED
    BY <2>2
<1>2. CASE Kept # {}
  BY <1>2 DEF Stops
<1>3. CASE Kept = {}
  <2>1. truncated \/ Kept # DOMAIN diagnostics
    BY <1>1, <1>3
  <2>2. QED
    BY <1>3, <2>1 DEF Stops, BudgetReported
<1>4. QED
  BY <1>2, <1>3

\* The state of a schema always has its types.
THEOREM TypeTheorem == Spec => []TypeOK
BY Invariance, PTL DEF IInv

\* A refused or replaced function keeps every later analysis from going on,
\* whatever limits are set in between.
THEOREM FailClosedTheorem == Spec => []FailClosed
<1>1. IInv => FailClosed
  BY TraceStops DEF IInv, Traced, FailClosed, Analyzable
<1>2. QED
  BY <1>1, Invariance, PTL

\* A schema that analyzes holds the functions its builder was offered, no less
\* and no other.
THEOREM NothingLostTheorem == Spec => []NothingLost
<1>1. IInv => NothingLost
  BY TraceStops DEF IInv, Traced, Complete, NothingLost, Analyzable
<1>2. QED
  BY <1>1, Invariance, PTL

\* No program is analyzed over functions that do not fit the limits in force,
\* whether they were registered under larger ones or by no call at all.
THEOREM AnalyzableFitsTheorem == Spec => []AnalyzableFits
<1>1. ASSUME ~Fits(stored), NEW length PROVE Stops(length)
  <2>1. Invalid
    BY <1>1 DEF Invalid
  <2>2. QED
    BY <2>1 DEF Stops, BudgetReported
<1>2. AnalyzableFits
  BY <1>1 DEF AnalyzableFits, Analyzable
<1>3. QED
  BY <1>2, PTL

\* What is stored can be called, and in a schema that analyzes a call by the
\* signature of a function finds a function of that name and arity.
THEOREM SignaturesTheorem == Spec => []SignaturesCurrent
<1>1. IInv => SignaturesCurrent
  BY TraceStops DEF IInv, Callable, Backed, SignaturesCurrent, Analyzable
<1>2. QED
  BY <1>1, Invariance, PTL
=============================================================================
