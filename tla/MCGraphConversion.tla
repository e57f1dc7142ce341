-------------------------- MODULE MCGraphConversion --------------------------
(* Every tree of at most four nodes; one limit tight, or nodes and bytes. The *)
(* conversions have no limit on a single string.                             *)
EXTENDS GraphConversion, ValueTreeInputs

MCTrees == TreesUpTo(4, {2})
MCLimits ==
  Squeezed([depth |-> {0, 1, 2, 3}, nodes |-> {0, 1, 3}, items |-> {0, 2},
            bytes |-> {0, 3, 4, 6}, string |-> {}])
    \cup {[Roomy EXCEPT !.nodes = 3, !.bytes = 4]}
=============================================================================
