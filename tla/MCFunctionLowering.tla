-------------------------- MODULE MCFunctionLowering --------------------------
(* Two functions of a parameter x, in one scope or two, with bodies that use it *)
(* never, once or twice, call each other, themselves or the host, and name the  *)
(* variable y; and a function g of the other scope too.                         *)
EXTENDS FunctionLowering, TLC

One == [kind |-> "literal", name |-> "one", args |-> <<>>]
Name(x) == [kind |-> "name", name |-> x, args |-> <<>>]
Pair(a, b) == [kind |-> "operator", name |-> "+", args |-> <<a, b>>]
Call(f, a) == [kind |-> "call", name |-> f, args |-> <<a>>]
X == Name("x")
Y == Name("y")

FBodies == {X, Pair(X, X), Pair(Y, Call("g", X)), Call("h", Call("g", Pair(X, Y))),
            Call("f", X), One}
GBodies == {X, Pair(X, X), Pair(X, Y), Call("f", X), Call("h", X)}
Roots == {Call("f", One), Call("f", Call("g", X)), Call("g", Call("f", X)),
          Call("f", Call("f", Y)), Pair(Call("g", X), Call("f", Call("h", One))),
          [kind |-> "call", name |-> "f", args |-> <<One, X>>]}

Function(param, body) == [params |-> <<param>>, body |-> body]
Schemas(f, g) ==
  {(<<s, "f">> :> Function("x", f)) @@ (<<t, "g">> :> Function(p, g)) :
     s \in {"Local", "Global"}, t \in {"Local", "Global"}, p \in {"x", "y"}}
MCPrograms ==
  [root : Roots, functions : UNION {Schemas(f, g) : f \in FBodies, g \in GBodies}]

\* h of the program and h of the host differ only when f is global.
Scoped ==
  [root : {Call("f", Call("h", One))},
   functions : {(<<"Global", "f">> :> Function("x", X))
                  @@ (<<"Local", "h">> :> Function("x", Pair(X, X)))}]

MCLimits == {[nodes |-> 12, depth |-> 5, scalars |-> 12],
             [nodes |-> 9, depth |-> 3, scalars |-> 6],
             [nodes |-> 7, depth |-> 6, scalars |-> 4]}
Ample == {[nodes |-> 12, depth |-> 5, scalars |-> 12]}
=============================================================================
