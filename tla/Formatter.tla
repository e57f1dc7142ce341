------------------------------- MODULE Formatter -------------------------------
(***************************************************************************)
(* parser/format.rs with preflight.rs and validation.rs, and the two       *)
(* passes the documents promise of canonical text: a text is parsed (or a  *)
(* tree is given, as the public AST allows), formatted, parsed again and   *)
(* formatted again.                                                        *)
(*                                                                         *)
(*   phase   "writing", "parsed", "formatting", "formatted", "refused"     *)
(*   round   how many texts have been formatted                            *)
(*   text    the text to parse next; tree  the tree parsed last            *)
(*   tasks   the stack of format_expression_with_limits, the next task     *)
(*           first; output  what it has written                            *)
(*   first   the tree and text of the first pass                           *)
(*   why     which call refused, and the parser's reason                   *)
(***************************************************************************)
EXTENDS Parser
LOCAL INSTANCE SequencesExt

CONSTANTS Lexemes,      \* what source texts are written with
          MaxLexemes,   \* bound on the length of a source text
          GivenTrees,   \* trees built by a host, spans all zero
          LimitChoices  \* the ParseLimits and AstFormatLimits tried

VARIABLES lim, phase, round, text, tree, tasks, output, first, why
vars == <<lim, phase, round, text, tree, tasks, output, first, why>>

\* A span says where a tree was read, not what it means.
RECURSIVE Meant(_)
Meant(e) == [kind |-> e.kind, name |-> e.name,
             kids |-> [k \in DOMAIN e.kids |-> Meant(e.kids[k])]]

-------------------------------------------------------------------------------
(* preflight_ast and validate_ast_syntax_with_scalar_limit.                *)

\* The loop of preflight_ast: trees with their depth, the next one first.
RECURSIVE Preflight(_, _)
Preflight(stack, nodes) ==
  IF stack = <<>> THEN TRUE ELSE
  LET e == stack[1].tree
      depth == stack[1].depth
      kids == [k \in DOMAIN e.kids |-> [tree |-> e.kids[k], depth |-> depth + 1]]
  IN /\ depth <= lim.format_depth
     /\ nodes < lim.format_nodes
     /\ Len(kids) <= lim.format_nodes - (nodes + 1)
     /\ kids # <<>> => depth < lim.format_depth
     /\ Preflight(kids \o Tail(stack), nodes + 1)

\* Names that are no identifier are refused; scalars are charged.
RECURSIVE NamesValid(_)
NamesValid(e) == /\ e.kind \in {"name", "member", "call", "method"} => e.name \in Names
                 /\ \A k \in DOMAIN e.kids : NamesValid(e.kids[k])
Validate(e) == NamesValid(e) /\ TreeScalars(e) <= lim.output

Admitted(e) == Preflight(<<[tree |-> e, depth |-> 1]>>, 0) /\ Validate(e)

-------------------------------------------------------------------------------
(* The formatter's tasks. *)

Text(x) == [text |-> x, tree |-> NoTree, parent |-> 0, side |-> "Text"]
Expression(e, parent, side) ==
  [text |-> "", tree |-> e, parent |-> parent, side |-> side]

Precedence(e) ==
  CASE e.kind = "binary" -> CHOOSE k \in DOMAIN Ladder : e.name \in Ladder[k]
    [] e.kind = "unary" -> 7
    [] e.kind \in {"member", "call", "method"} -> 8
    [] OTHER -> 9

\* Mutant of NeedsParentheses: an equal level needs none on either side.
NeedsParenthesesBelow(own, parent, side) == side # "Root" /\ own < parent

\* Mutant of NeedsParentheses: the sides are swapped.
NeedsParenthesesLeft(own, parent, side) ==
  side # "Root" /\ (own < parent \/ (side = "Left" /\ own = parent))

NeedsParentheses(own, parent, side) ==
  side # "Root" /\ (own < parent \/ (side = "Right" /\ own = parent))

\* schedule_sequence: a comma and a blank before every item but the first.
Sequence(items) ==
  FlattenSeq([k \in DOMAIN items |->
    (IF k > 1 THEN <<Text(","), Text(" ")>> ELSE <<>>)
    \o <<Expression(items[k], 0, "Root")>>])

Receiver(e) == Expression(e.kids[1], Precedence(e), "Receiver")

\* schedule_expression: the tasks of one node, in the order they run.
Schedule(e, parent, side) ==
  LET own == Precedence(e)
      body ==
        CASE e.kind = "literal" ->
               <<Text(IF e.name = "str" THEN "\"q\"" ELSE e.name)>>
          [] e.kind = "name" -> <<Text(e.name)>>
          [] e.kind = "array" -> <<Text("[")>> \o Sequence(e.kids) \o <<Text("]")>>
          [] e.kind = "member" -> <<Receiver(e), Text("."), Text(e.name)>>
          [] e.kind = "call" ->
               <<Text(e.name), Text("(")>> \o Sequence(e.kids) \o <<Text(")")>>
          [] e.kind = "method" ->
               <<Receiver(e), Text("."), Text(e.name), Text("(")>>
               \o Sequence(Tail(e.kids)) \o <<Text(")")>>
          [] e.kind = "unary" ->
               <<Text(e.name), Expression(e.kids[1], own, "Unary")>>
          [] e.kind = "binary" ->
               <<Expression(e.kids[1], own, "Left"), Text(" "), Text(e.name),
                 Text(" "), Expression(e.kids[2], own, "Right")>>
  IN IF NeedsParentheses(own, parent, side)
     THEN <<Text("(")>> \o body \o <<Text(")")>> ELSE body

-------------------------------------------------------------------------------
(* The two passes. *)

NoFirst == [tree |-> NoTree, text |-> <<>>]

Init ==
  /\ lim \in LimitChoices
  /\ phase = "writing" /\ round = 0
  /\ text = <<>> /\ tree = NoTree
  /\ tasks = <<>> /\ output = <<>>
  /\ first = NoFirst /\ why = "none"

\* A text grows while it could still become an expression: what follows the
\* first error is never looked at by the parser.
Write ==
  /\ phase = "writing" /\ Len(text) < MaxLexemes
  /\ (text # <<>> => Parse(lim, text).why \in {"none", "end"})
  /\ \E x \in Lexemes : text' = Append(text, x)
  /\ UNCHANGED <<lim, phase, round, tree, tasks, output, first, why>>

\* A host hands over a tree it built itself.
Give ==
  /\ phase = "writing" /\ text = <<>>
  /\ \E e \in GivenTrees : tree' = e /\ first' = [first EXCEPT !.tree = e]
  /\ phase' = "parsed"
  /\ UNCHANGED <<lim, round, text, tasks, output, why>>

Read ==
  /\ phase = "writing" \/ (phase = "formatted" /\ round = 1)
  /\ LET parsed == Parse(lim, text) IN
     \/ /\ ~Failed(parsed)
        /\ phase' = "parsed" /\ tree' = parsed.tree
        /\ first' = IF round = 0 THEN [first EXCEPT !.tree = parsed.tree] ELSE first
        /\ UNCHANGED why
     \/ /\ Failed(parsed)
        /\ phase' = "refused" /\ why' = parsed.why
        /\ UNCHANGED <<tree, first>>
  /\ UNCHANGED <<lim, round, text, tasks, output>>

\* format_expression_with_limits up to its loop.
Format ==
  /\ phase = "parsed"
  /\ \/ /\ Admitted(tree)
        /\ phase' = "formatting"
        /\ tasks' = <<Expression(tree, 0, "Root")>> /\ output' = <<>>
        /\ UNCHANGED why
     \/ /\ ~Admitted(tree)
        /\ phase' = "refused" /\ why' = "shape"
        /\ UNCHANGED <<tasks, output>>
  /\ UNCHANGED <<lim, round, text, tree, first>>

\* A pass of the loop: an expression is scheduled, a text is written if the
\* output still fits.
RunTask ==
  /\ phase = "formatting" /\ tasks # <<>>
  /\ LET task == tasks[1] IN
     \/ /\ task.side # "Text"
        /\ tasks' = Schedule(task.tree, task.parent, task.side) \o Tail(tasks)
        /\ UNCHANGED <<phase, output, why>>
     \/ /\ task.side = "Text"
        /\ Bytes(Append(output, task.text)) <= lim.output
        /\ output' = Append(output, task.text) /\ tasks' = Tail(tasks)
        /\ UNCHANGED <<phase, why>>
     \/ /\ task.side = "Text"
        /\ Bytes(Append(output, task.text)) > lim.output
        /\ phase' = "refused" /\ why' = "output" /\ tasks' = <<>>
        /\ UNCHANGED output
  /\ UNCHANGED <<lim, round, text, tree, first>>

Return ==
  /\ phase = "formatting" /\ tasks = <<>>
  /\ phase' = "formatted" /\ round' = round + 1
  /\ text' = output
  /\ first' = IF round = 0 THEN [first EXCEPT !.text = output] ELSE first
  /\ UNCHANGED <<lim, tree, tasks, output, why>>

Next == Write \/ Give \/ Read \/ Format \/ RunTask \/ Return
Spec == Init /\ [][Next]_vars

-------------------------------------------------------------------------------
(* Properties. *)

\* The characters of a text: a negative literal is written as a minus and one.
Spelled(written) ==
  FlattenSeq([k \in DOMAIN written |->
    IF written[k] = "-1" THEN <<"-", "1">> ELSE <<written[k]>>])

FromText == first.tree # NoTree /\ first.tree.to > 0

\* The parser reads a text exactly when the grammar gives it a meaning within
\* the limits, and then reads the one tree it means, with its spans: the
\* binary levels, their associativity, the unary and postfix chains and every
\* limit of parse.rs and lexer.rs.
ParseExact ==
  phase = "writing" /\ text # <<>> =>
    LET parsed == Parse(lim, text)
    IN Meaning(lim, text) = IF Failed(parsed) THEN {} ELSE {parsed.tree}

\* docs/Specification.md Canonical Formatting, for texts: a canonical text
\* that fits the source limit reads again, under the limits its source was
\* read with, and as the same tree, which formats again.  The parentheses the
\* formatter writes are never more, and never nested deeper, than those its
\* source needed.
RoundTrip ==
  FromText /\ round = 1 =>
    /\ phase = "refused" => Bytes(text) > lim.bytes
    /\ phase = "parsed" => Meant(tree) = Meant(first.tree)

\* Whatever tree a host hands over: the text written for it can be refused for
\* a limit only, and once it reads, formatting what was read gives that text
\* again, negative literals included, which read as a negation. Excepted is the
\* literal of the least integer: its digits are no integer token, and no tree of
\* this model holds it.
Idempotent ==
  /\ phase = "refused" => why \notin {"syntax", "end"} \/ round = 0
  /\ phase = "formatted" /\ round = 2 => Spelled(output) = Spelled(first.text)

\* The first line of docs/Specification.md Canonical Formatting as it stands:
\* the canonical form of a text that was read reads as the same tree.
CanonicalReads ==
  FromText /\ round = 1 => phase # "refused"
===============================================================================
