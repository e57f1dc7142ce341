---------------------------- MODULE MCFunctionGraph ----------------------------
(* All graphs over three global functions with up to two calls each; two names *)
(* in two scopes; and calls to the host and of a wrong arity.                  *)
EXTENDS FunctionGraph

Bodies(names, arities) ==
  LET calls == [name : names, arity : arities]
  IN  [params : {0}, calls : UNION {[1 .. n -> calls] : n \in 0 .. 2}]

MCSchemas ==
  [{"Global"} \X (1 .. 3) -> Bodies(1 .. 3, {0})]
    \cup UNION {[keys -> Bodies(1 .. 2, {0})] :
                  keys \in SUBSET ({"Global", "Local"} \X (1 .. 2))}
    \cup [{"Global", "Local"} \X {1} -> Bodies(1 .. 2, 0 .. 1)]

MCHosts == {<<2, 0>>}
MCLimits == {<<0, 9>>, <<2, 3>>}
MCBytes == [k \in Kinds |-> IF k = "recursive" THEN 2 ELSE 1]
=============================================================================
