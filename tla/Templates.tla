----------------------------- MODULE Templates -----------------------------
(***************************************************************************)
(* Text with placeholders as rulepack_render/template.rs reads it. A text  *)
(* is a list of pieces: words, single braces and markers {{name}}; names   *)
(* are single words, and a marker without one stands for {{}}. Braces join *)
(* as bytes do: five pieces can spell a marker, and two can break a text   *)
(* that held none. A piece weighs one byte: only sums and limits matter.   *)
(***************************************************************************)
EXTENDS Integers, Sequences, FiniteSets, SequencesExt

\* A function, a record or a list, of anything.
IsFunction(f) == f = [x \in DOMAIN f |-> f[x]]

\* A list of anything.
Listed(s) == s \in Seq(Range(s))

\* The sum of the first n of some numbers, and of a list of numbers.
SumTo(numbers, n) ==
  LET sum[k \in 0 .. n] == IF k = 0 THEN 0 ELSE sum[k - 1] + numbers[k]
  IN  sum[n]

SumOf(numbers) == SumTo(numbers, Len(numbers))

Word(w) == [marker |-> FALSE, name |-> w]
Marker(n) == [marker |-> TRUE, name |-> n]
Malformed == Marker("")

Markers(text) == {i \in DOMAIN text : text[i].marker}

Open == Word("lbrace")
Close == Word("rbrace")
Braces == {Open, Close}

\* Where pieces spell a marker: two opening braces, its name, two closing ones.
Spelled(text) ==
  {i \in DOMAIN text :
     /\ i + 4 \in DOMAIN text
     /\ text[i] = Open /\ text[i + 1] = Open
     /\ ~text[i + 2].marker /\ text[i + 2] \notin Braces
     /\ text[i + 3] = Close /\ text[i + 4] = Close}

\* The text as it is scanned: what spells a marker is one.
Scanned(text) ==
  LET spelled == Spelled(text)
  IN FlattenSeq([i \in DOMAIN text |->
       IF i \in spelled THEN <<Marker(text[i + 2].name)>>
       ELSE IF \E k \in 1 .. 4 : i - k \in spelled THEN <<>>
       ELSE <<text[i]>>])

\* Neighbours that make {{ or }} outside a marker, or a { inside its name.
BracesMeet(left, right) ==
  \/ left = Open /\ (right = Open \/ right.marker)
  \/ left = Close /\ right = Close

Stray(text) == \E i \in DOMAIN text : i + 1 \in DOMAIN text /\ BracesMeet(text[i], text[i + 1])

\* Nothing in the text is read as a marker or is half of one.
Plain(text) == Markers(text) = {} /\ ~Stray(text)

\* ... nor can be, whatever stands beside it.
Braceless(text) == \A i \in DOMAIN text : ~text[i].marker /\ text[i] \notin Braces

\* measure, strict: a malformed, unresolved or unknown marker is an error.
\* values holds the resolved names only, declared or bound.
Renders(text, values) ==
  LET scanned == Scanned(text)
  IN ~Stray(scanned) /\ \A i \in Markers(scanned) : scanned[i].name \in DOMAIN values

\* render_measured: one pass; a value is copied, never read for markers, and
\* a marker without a value stays.
Substitute(text, values) ==
  LET scanned == Scanned(text)
  IN FlattenSeq([i \in DOMAIN scanned |->
       IF scanned[i].marker /\ scanned[i].name \in DOMAIN values THEN values[scanned[i].name]
       ELSE <<scanned[i]>>])

\* The bytes of some texts, and their markers, as the meter adds them up.
BytesOf(texts) == SumOf([i \in DOMAIN texts |-> Len(texts[i])])
MarkersOf(texts) == SumOf([i \in DOMAIN texts |-> Cardinality(Markers(Scanned(texts[i])))])

\* The bytes of a text that may be absent.
OptionalBytes(texts) == IF texts = {} THEN 0 ELSE Len(CHOOSE t \in texts : TRUE)

\* The same for all the texts of a document.
AllRender(texts, values) == \A i \in DOMAIN texts : Renders(texts[i], values)
RenderedTexts(texts, values) == [i \in DOMAIN texts |-> Substitute(texts[i], values)]
=============================================================================
