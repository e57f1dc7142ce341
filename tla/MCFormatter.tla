------------------------------ MODULE MCFormatter ------------------------------
EXTENDS Formatter

Wide == [bytes |-> 40, scalars |-> 9, tokens |-> 20, diagnostics |-> 2,
         nodes |-> 9, items |-> 2, output |-> 40,
         format_depth |-> 4, format_nodes |-> 9]
Tight == [bytes |-> 7, scalars |-> 2, tokens |-> 6, diagnostics |-> 0,
          nodes |-> 3, items |-> 1, output |-> 8,
          format_depth |-> 3, format_nodes |-> 3]

MCLexemes == {"a", "'q'", "(", ")", "[", "]", ",", ".", "-", "+", "*", "@"}
MCLimitChoices == {Wide, Tight}
\* Room for a string as it was written, not for its canonical form.
Narrow == {[Wide EXCEPT !.bytes = 3]}

Given(kind, name, kids) == Tree(kind, name, kids, 0, 0)
GivenLeaves == {Given("name", "a", <<>>), Given("name", "let", <<>>),
                Given("literal", "-1", <<>>), Given("literal", "1", <<>>)}
Grown(S) ==
  S \cup {Given("unary", "-", <<x>>) : x \in S}
    \cup {Given("member", "a", <<x>>) : x \in S}
    \cup {Given("method", "a", <<x, y>>) : x \in S, y \in S}
    \cup {Given("binary", op, <<x, y>>) : x \in S, y \in S, op \in {"-", "*", "<"}}
    \cup {Given("array", "", <<x>>) : x \in S}
MCGivenTrees == Grown(Grown({Given("name", "a", <<>>), Given("literal", "-1", <<>>)}))
                \cup Grown(GivenLeaves)
===============================================================================
