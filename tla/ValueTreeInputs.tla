--------------------------- MODULE ValueTreeInputs ---------------------------
(***************************************************************************)
(* The trees and limits the model-checking modules of the traversals run   *)
(* over: every shape of at most Size nodes, strings and keys of the given  *)
(* byte lengths, and limits that squeeze one counter at a time.            *)
(***************************************************************************)
EXTENDS ValueTrees

\* Shapes as parent functions: every node but the root under a smaller one.
Shapes(n) == {p \in [1..n -> 0..n-1] :
                p[1] = 0 /\ \A i \in 2..n : p[i] \in 1..i-1}
KidsOf(p) == [i \in DOMAIN p |->
                SetToSortSeq({j \in DOMAIN p : p[j] = i}, <)]
LevelsOf(p) ==
  LET level[i \in DOMAIN p] == IF i = 1 THEN 1 ELSE level[p[i]] + 1 IN level
Kindings(p) == {k \in [DOMAIN p -> Kinds] :
                  \A i \in DOMAIN p : i # 1 => k[p[i]] \in Containers}

\* A string weighs one of the given payloads, an object one byte per key.
Texts(kids, kind, payloads) ==
  LET strings == {i \in DOMAIN kind : kind[i] = "string"}
  IN  {[i \in DOMAIN kind |->
          IF i \in strings THEN f[i]
          ELSE IF kind[i] = "object" THEN Len(kids[i]) ELSE 0]
       : f \in [strings -> payloads]}

TreesOf(p, payloads) ==
  LET kids == KidsOf(p)
  IN  UNION {{[kids |-> kids, level |-> LevelsOf(p), kind |-> k, text |-> t] :
                t \in Texts(kids, k, payloads)} : k \in Kindings(p)}

TreesUpTo(size, payloads) ==
  UNION {UNION {TreesOf(p, payloads) : p \in Shapes(n)} : n \in 1..size}

Roomy == [depth |-> 9, nodes |-> 9, items |-> 9, bytes |-> 40, string |-> 9]
Squeezed(sizes) ==
  UNION {{[Roomy EXCEPT ![f] = v] : v \in sizes[f]} : f \in DOMAIN Roomy}
=============================================================================
