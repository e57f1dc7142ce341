-------------------------------- MODULE Parser --------------------------------
(***************************************************************************)
(* parser/lexer.rs and parser/parse.rs: from source text to a tree.        *)
(*                                                                         *)
(* A text is a sequence of lexemes.  "'q'" and "\"q\"" are the string of   *)
(* one quote character written in single quotes and in canonical form,     *)
(* "@" is anything the lexer refuses, "let" a reserved word, " " blanks    *)
(* and comments.  Names and literals not named here behave like "a", "1"   *)
(* and "str".                                                              *)
(*                                                                         *)
(* A call of a parse_ method takes the parser's state and returns it with  *)
(* the expression it read:                                                 *)
(*   at      position; nested  recursion_depth; nodes  ast_nodes           *)
(*   tree    the expression; items the expressions of a list               *)
(*   depth   serialized_depth of tree, or the largest among items          *)
(*   why     "none", or why it failed: "limit", "syntax" at a token, or    *)
(*           "end" where the text ends too early                           *)
(* Lexing and parsing are functions of the text and the limits lim.        *)
(***************************************************************************)
EXTENDS Integers, Sequences
LOCAL INSTANCE SequencesExt

\* MAX_PARSE_RECURSION_DEPTH is 256 and MAX_AST_SERIALIZED_DEPTH is 127.
CONSTANTS MaxRecursion, MaxSerializedDepth
ASSUME DepthAssumption == MaxRecursion \in Nat /\ MaxSerializedDepth \in Nat

LOCAL Larger(m, n) == IF m < n THEN n ELSE m

Names == {"a"}
Literals == {"1", "str", "true"}
Unaries == {"!", "-"}
\* The binary operators, the loosest level first.
Ladder == << {"||"}, {"&&"}, {"=="}, {"<"}, {"+", "-"}, {"*"} >>

-------------------------------------------------------------------------------
(* The lexer. *)

Width(x) == CASE x = "'q'" -> 3
              [] x = "\"q\"" -> 4
              [] x = "let" -> 3
              [] x = "true" -> 4
              [] x \in {"==", "&&", "||", "-1"} -> 2
              [] OTHER -> 1
Bytes(text) == FoldLeft(LAMBDA n, x : n + Width(x), 0, text)

\* What identifiers, keywords and decoded strings charge.
Scalars(x) == CASE x \in {"a", "'q'", "\"q\"", "str"} -> 1
                [] x \in {"let", "true"} -> Width(x)
                [] OTHER -> 0

\* A negative integer has no token of its own: it reads as a minus and a
\* literal.  Both forms of a string decode to one.
TokensOf(x) == CASE x \in {"'q'", "\"q\""} -> <<"str">>
                 [] x = "-1" -> <<"-", "1">>
                 [] OTHER -> <<x>>

\* fail_limit forgets the earlier diagnostics and ends the scan.
FailLimit(lexer) == [lexer EXCEPT !.diagnostics = 1, !.stopped = TRUE]

PushDiagnostic(lim, lexer) ==
  IF lexer.diagnostics >= lim.diagnostics THEN FailLimit(lexer)
  ELSE [lexer EXCEPT !.diagnostics = @ + 1]

PushToken(lim, lexer, token) ==
  IF lexer.stopped \/ Len(lexer.tokens) >= lim.tokens THEN FailLimit(lexer)
  ELSE [lexer EXCEPT !.tokens = Append(@, token)]

LexOne(lim, lexer, x) ==
  IF lexer.stopped \/ x = " " THEN lexer
  ELSE IF x = "@" THEN PushDiagnostic(lim, lexer)
  ELSE IF lexer.scalars + Scalars(x) > lim.scalars THEN FailLimit(lexer)
  ELSE FoldLeft(LAMBDA l, token : PushToken(lim, l, token),
                [lexer EXCEPT !.scalars = @ + Scalars(x)], TokensOf(x))

Lex(lim, text) ==
  LET blank == [tokens |-> <<>>, scalars |-> 0, diagnostics |-> 0,
                stopped |-> FALSE]
      read == FoldLeft(LAMBDA l, x : LexOne(lim, l, x), blank, text)
  IN IF Bytes(text) > lim.bytes THEN FailLimit(blank)
     ELSE IF read.stopped THEN read
     ELSE PushToken(lim, read, "eof")

-------------------------------------------------------------------------------
(* The parser's helpers; t is the sequence of tokens, which ends in "eof". *)

NoTree == [kind |-> "none", name |-> "", kids |-> <<>>, from |-> 0, to |-> 0]
Tree(kind, name, kids, from, to) ==
  [kind |-> kind, name |-> name, kids |-> kids, from |-> from, to |-> to]

Start == [at |-> 1, nested |-> 0, nodes |-> 0, tree |-> NoTree,
          items |-> <<>>, depth |-> 0, why |-> "none"]

Peek(t, s) == t[s.at]
Skip(s) == [s EXCEPT !.at = @ + 1]
Fail(s, why) == [s EXCEPT !.why = why]
Failed(s) == s.why # "none"
SyntaxError(t, s) == Fail(s, IF Peek(t, s) = "eof" THEN "end" ELSE "syntax")

\* make_expression: the depth is checked, then the node is paid for.
Make(lim, s, tree, depth) ==
  IF depth > MaxSerializedDepth \/ s.nodes >= lim.nodes THEN Fail(s, "limit")
  ELSE [s EXCEPT !.nodes = @ + 1, !.tree = tree, !.depth = depth]

\* Mutant of Binary: the depth of the right operand is forgotten.
BinaryShallow(lim, left, op, right) ==
  Make(lim, right,
       Tree("binary", op, <<left.tree, right.tree>>,
            left.tree.from, right.tree.to),
       2 + left.depth)

Binary(lim, left, op, right) ==
  Make(lim, right,
       Tree("binary", op, <<left.tree, right.tree>>,
            left.tree.from, right.tree.to),
       2 + Larger(left.depth, right.depth))

-------------------------------------------------------------------------------
(* The grammar, one operator per parse_ method; the six methods of the     *)
(* binary levels differ in their operators only.                           *)
RECURSIVE ParseLevel(_, _, _, _), ParseChain(_, _, _, _), ParseUnary(_, _, _)
RECURSIVE ParsePostfix(_, _, _), ParseItems(_, _, _, _, _, _)

\* parse_nested: one native level more while an expression of a level is read;
\* the level behind the binary ones is parse_unary.
Nested(lim, t, level, s) ==
  IF s.nested >= MaxRecursion THEN Fail(s, "limit")
  ELSE LET inner == ParseLevel(lim, t, level, [s EXCEPT !.nested = @ + 1])
       IN [inner EXCEPT !.nested = @ - 1]

ParseLevel(lim, t, level, s) ==
  IF level > Len(Ladder) THEN ParseUnary(lim, t, s)
  ELSE ParseChain(lim, t, level, ParseLevel(lim, t, level + 1, s))

\* The loop of a level: every further operand joins on the right.
ParseChain(lim, t, level, left) ==
  IF Failed(left) \/ Peek(t, left) \notin Ladder[level] THEN left
  ELSE LET right == ParseLevel(lim, t, level + 1, Skip(left))
       IN IF Failed(right) THEN right
          ELSE ParseChain(lim, t, level,
                          Binary(lim, left, Peek(t, left), right))

ParseOr(lim, t, s) == ParseLevel(lim, t, 1, s)

\* After an opening token: the expressions up to close.
ParseItems(lim, t, close, items, deepest, s) ==
  IF Len(items) >= lim.items THEN Fail(s, "limit")
  ELSE LET item == Nested(lim, t, 1, s)
           all == Append(items, item.tree)
           depth == Larger(deepest, item.depth)
       IN IF Failed(item) THEN item
          ELSE IF Peek(t, item) = close
               THEN [Skip(item) EXCEPT !.items = all, !.depth = depth]
          ELSE IF Peek(t, item) = ","
               THEN ParseItems(lim, t, close, all, depth, Skip(item))
          ELSE SyntaxError(t, item)

ParseList(lim, t, close, s) ==
  IF Peek(t, s) = close THEN [Skip(s) EXCEPT !.items = <<>>, !.depth = 0]
  ELSE ParseItems(lim, t, close, <<>>, 0, s)

\* A call or array whose list has been read, with the receiver if any.
MakeList(lim, kind, name, receivers, from, outer, list) ==
  IF Failed(list) THEN list
  ELSE Make(lim, list,
            Tree(kind, name, receivers \o list.items, from, list.at - 1),
            Larger(outer, 3 + list.depth))

ParsePrimary(lim, t, s) ==
  LET token == Peek(t, s)
      next == Skip(s)
  IN CASE token \in Literals ->
            Make(lim, next, Tree("literal", token, <<>>, s.at, s.at), 2)
       [] token \in Names /\ Peek(t, next) = "(" ->
            MakeList(lim, "call", token, <<>>, s.at, 0,
                     ParseList(lim, t, ")", Skip(next)))
       [] token \in Names /\ Peek(t, next) # "(" ->
            Make(lim, next, Tree("name", token, <<>>, s.at, s.at), 2)
       [] token = "(" ->
            LET inner == Nested(lim, t, 1, next)
            IN IF Failed(inner) THEN inner
               ELSE IF Peek(t, inner) = ")" THEN Skip(inner)
               ELSE SyntaxError(t, inner)
       [] token = "[" ->
            MakeList(lim, "array", "", <<>>, s.at, 0,
                     ParseList(lim, t, "]", next))
       [] OTHER -> SyntaxError(t, s)

ParsePostfix(lim, t, receiver) ==
  IF Failed(receiver) \/ Peek(t, receiver) # "." THEN receiver
  ELSE LET dot == Skip(receiver)
           name == Peek(t, dot)
           next == Skip(dot)
           from == receiver.tree.from
           outer == 2 + receiver.depth
       IN IF name \notin Names THEN SyntaxError(t, dot)
          ELSE ParsePostfix(lim, t,
                 IF Peek(t, next) = "("
                 THEN MakeList(lim, "method", name, <<receiver.tree>>, from,
                               outer, ParseList(lim, t, ")", Skip(next)))
                 ELSE Make(lim, next,
                           Tree("member", name, <<receiver.tree>>,
                                from, dot.at), outer))

ParseUnary(lim, t, s) ==
  IF Peek(t, s) \notin Unaries
  THEN ParsePostfix(lim, t, ParsePrimary(lim, t, s))
  ELSE LET inner == Nested(lim, t, Len(Ladder) + 1, Skip(s))
       IN IF Failed(inner) THEN inner
          ELSE Make(lim, inner,
                    Tree("unary", Peek(t, s), <<inner.tree>>,
                         s.at, inner.tree.to),
                    2 + inner.depth)

\* parse_expression_with_limits: a text the lexer refuses is not parsed.
Parse(lim, text) ==
  LET lexer == Lex(lim, text)
      read == ParseOr(lim, lexer.tokens, Start)
  IN IF lexer.diagnostics > 0 THEN Fail(Start, "lexer")
     ELSE IF Failed(read) \/ Peek(lexer.tokens, read) = "eof" THEN read
     ELSE SyntaxError(lexer.tokens, read)

-------------------------------------------------------------------------------
(* The reference: the trees the grammar gives tokens i to j of t, with no  *)
(* order of reading, inside n nested constructs.  Levels 1 to 6 are the    *)
(* binary ones, 7 the unary and 8 the postfix one.                         *)
RECURSIVE Derive(_, _, _, _, _), DeriveList(_, _, _, _)

DeriveList(t, n, i, j) ==
  IF i > j THEN {<<>>}
  ELSE {<<x>> : x \in Derive(t, n + 1, 1, i, j)}
       \cup UNION {{<<p[1]>> \o p[2] :
                      p \in Derive(t, n + 1, 1, i, k - 1)
                            \X (DeriveList(t, n, k + 1, j) \ {<<>>})} :
                   k \in {m \in i .. j : t[m] = ","}}

DerivePostfix(t, n, i, j) ==
  {Tree("literal", t[i], <<>>, i, j) : k \in {m \in {i} : m = j /\ t[m] \in Literals}}
  \cup {Tree("name", t[i], <<>>, i, j) : k \in {m \in {i} : m = j /\ t[m] \in Names}}
  \cup (IF i < j /\ t[i] = "(" /\ t[j] = ")"
        THEN Derive(t, n + 1, 1, i + 1, j - 1) ELSE {})
  \cup (IF i < j /\ t[i] = "[" /\ t[j] = "]"
        THEN {Tree("array", "", l, i, j) : l \in DeriveList(t, n, i + 1, j - 1)}
        ELSE {})
  \cup (IF i + 1 < j /\ t[i] \in Names /\ t[i + 1] = "(" /\ t[j] = ")"
        THEN {Tree("call", t[i], l, i, j) : l \in DeriveList(t, n, i + 2, j - 1)}
        ELSE {})
  \cup (IF i + 1 < j /\ t[j - 1] = "." /\ t[j] \in Names
        THEN {Tree("member", t[j], <<r>>, r.from, j) :
                r \in Derive(t, n, 8, i, j - 2)} ELSE {})
  \cup UNION {{Tree("method", t[k - 1], <<p[1]>> \o p[2], p[1].from, j) :
                 p \in Derive(t, n, 8, i, k - 3)
                       \X DeriveList(t, n, k + 1, j - 1)} :
              k \in {m \in i + 3 .. j - 1 :
                       /\ t[j] = ")" /\ t[m] = "("
                       /\ t[m - 1] \in Names /\ t[m - 2] = "."}}

Derive(t, n, level, i, j) ==
  IF i > j \/ n > MaxRecursion THEN {}
  ELSE IF level = 8 THEN DerivePostfix(t, n, i, j)
  ELSE IF level = 7
       THEN IF t[i] \in Unaries
            THEN {Tree("unary", t[i], <<x>>, i, x.to) :
                    x \in Derive(t, n + 1, 7, i + 1, j)}
            ELSE Derive(t, n, 8, i, j)
  ELSE Derive(t, n, level + 1, i, j)
       \cup UNION {{Tree("binary", t[k], p, p[1].from, p[2].to) :
                      p \in Derive(t, n, level, i, k - 1)
                            \X Derive(t, n, level + 1, k + 1, j)} :
                   k \in {m \in i + 1 .. j - 1 : t[m] \in Ladder[level]}}

RECURSIVE NodeCount(_), Levels(_), JsonDepth(_), Widest(_), TreeScalars(_)
LOCAL Sum(s) == FoldLeft(+, 0, s)
LOCAL Largest(s) == FoldLeft(Larger, 0, s)
LOCAL Over(tree, f(_)) == [k \in DOMAIN tree.kids |-> f(tree.kids[k])]

NodeCount(tree) == 1 + Sum(Over(tree, NodeCount))
Levels(tree) == 1 + Largest(Over(tree, Levels))
\* The containers around the innermost value when serde_json writes a tree:
\* a node and its kind are objects, and a list is an array around its items.
JsonDepth(tree) ==
  LET inside(k) == IF \/ tree.kind \in {"array", "call"}
                      \/ (tree.kind = "method" /\ k > 1) THEN 3 ELSE 2
  IN Larger(IF tree.kind \in {"array", "call", "method"} THEN 3 ELSE 2,
            Largest([k \in DOMAIN tree.kids |->
                       inside(k) + JsonDepth(tree.kids[k])]))
Widest(tree) ==
  Larger(CASE tree.kind \in {"array", "call"} -> Len(tree.kids)
           [] tree.kind = "method" -> Len(tree.kids) - 1
           [] OTHER -> 0,
         Largest(Over(tree, Widest)))
TreeScalars(tree) ==
  (IF tree.kind \in {"unary", "binary"} \/ tree.name \in {"1", "-1", "true"}
   THEN 0 ELSE Scalars(tree.name)) + Sum(Over(tree, TreeScalars))

\* The trees a text stands for within its limits.
Meaning(lim, text) ==
  LET tokens == FlattenSeq([k \in DOMAIN text |->
                              IF text[k] = " " THEN <<>> ELSE TokensOf(text[k])])
      scalars == FoldLeft(LAMBDA n, x : n + Scalars(x), 0, text)
  IN IF \/ "@" \in {text[k] : k \in DOMAIN text}
        \/ Bytes(text) > lim.bytes
        \/ Len(tokens) + 1 > lim.tokens
        \/ scalars > lim.scalars
     THEN {}
     ELSE {d \in Derive(tokens, 0, 1, 1, Len(tokens)) :
             /\ NodeCount(d) <= lim.nodes
             /\ JsonDepth(d) <= MaxSerializedDepth
             /\ Widest(d) <= lim.items}
===============================================================================
