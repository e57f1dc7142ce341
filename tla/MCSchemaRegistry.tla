--------------------------- MODULE MCSchemaRegistry ---------------------------
(* Small functions of two arities, one with a broken signature and one with a *)
(* body too deep; limits that leave room for two, one or no diagnostics.      *)
EXTENDS SchemaRegistry

Plain == [params |-> 1, bytes |-> 2, nodes |-> 1, depth |-> 1, scalars |-> 1,
          calls |-> 0, signature |-> TRUE, syntax |-> TRUE]
MCFunctions ==
  {Plain, [Plain EXCEPT !.params = 2, !.nodes = 2],
   [Plain EXCEPT !.signature = FALSE], [Plain EXCEPT !.depth = 4]}

MCDefault ==
  [functions |-> 3, params |-> 4, bytes |-> 6, nodes |-> 4, depth |-> 9,
   scalars |-> 3, calls |-> 2, diagnostics |-> 2, diagnosticBytes |-> 3]
MCHosts == {<<"f", 1>>}

MCLimits ==
  {[MCDefault EXCEPT !.functions = 1, !.diagnostics = 0],
   [MCDefault EXCEPT !.diagnostics = 9, !.diagnosticBytes = 1, !.nodes = 2]}
=============================================================================
