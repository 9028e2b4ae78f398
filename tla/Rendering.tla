------------------------------ MODULE Rendering ------------------------------
(***************************************************************************)
(* Texts with placeholders, as both facades render them.  A text is a      *)
(* sequence of tokens: braces, words a placeholder's name may be made of,  *)
(* and anything else.  Nothing marks a placeholder but its braces, so what *)
(* a fill leaves may read as one again.  The width is the number of braces *)
(* on either side: two in a prompt, one in a command.                      *)
(***************************************************************************)
EXTENDS Naturals, Sequences, SequencesExt

CONSTANTS
  Words,   \* tokens of \w[\w.-]*
  Others   \* tokens that are neither words nor braces, the blank among them

Open == "{"
Close == "}"
Blank == " "
Braces == {Open, Close}

ASSUME TokensAssumption ==
  /\ Blank \in Others
  /\ Words \cap (Others \cup Braces) = {} /\ Others \cap Braces = {}

Tokens == Words \cup Others \cup Braces
Texts == Seq(Tokens)
PlaceholderNames == Seq(Words) \ {<< >>}

\* What a render is given: a value per name, in the order of the object's keys.
Bindings == {vars \in Seq(PlaceholderNames \X Texts) :
           \A i, j \in DOMAIN vars : vars[i][1] = vars[j][1] => i = j}

Row(brace, width) == [i \in 1 .. width |-> brace]
Spelled(name, width) == Row(Open, width) \o name \o Row(Close, width)

\* The token positions h[1] .. h[2] that read as a placeholder.
IsHole(text, h, width) ==
  /\ h[1] + 2 * width <= h[2]
  /\ \A k \in h[1] .. h[1] + width - 1 : text[k] = Open
  /\ \A k \in h[1] + width .. h[2] - width : text[k] \in Words
  /\ \A k \in h[2] - width + 1 .. h[2] : text[k] = Close

Holes(text, width) ==
  {h \in (DOMAIN text) \X (DOMAIN text) : IsHole(text, h, width)}

NameAt(text, h, width) == SubSeq(text, h[1] + width, h[2] - width)

placeholdersIn(text, width) == {NameAt(text, h, width) : h \in Holes(text, width)}

Occurs(s, text, i) ==
  i + Len(s) <= Len(text) + 1 /\ SubSeq(text, i, i + Len(s) - 1) = s

\* Mutant of replaceAll: only the first occurrence.
replaceFirst(text, s, r) ==
  LET from[i \in 1 .. Len(text) + 1] ==
        IF i > Len(text) THEN << >>
        ELSE IF Occurs(s, text, i) THEN r \o SubSeq(text, i + Len(s), Len(text))
        ELSE <<text[i]>> \o from[i + 1]
  IN from[1]

\* split and join, or replace with a global pattern: from left to right.
replaceAll(text, s, r) ==
  LET from[i \in 1 .. Len(text) + 1] ==
        IF i > Len(text) THEN << >>
        ELSE IF Occurs(s, text, i) THEN r \o from[i + Len(s)]
        ELSE <<text[i]>> \o from[i + 1]
  IN from[1]

Fill(text, name, value, width) == replaceAll(text, Spelled(name, width), value)

\* vars are filled one after the other, in their order.
FillAll(text, vars, width) ==
  LET filled[i \in 0 .. Len(vars)] ==
        IF i = 0 THEN text ELSE Fill(filled[i - 1], vars[i][1], vars[i][2], width)
  IN filled[Len(vars)]

Names(vars) == {vars[i][1] : i \in DOMAIN vars}

Rendered(out) == [threw |-> "no", out |-> out]
Threw(why) == [threw |-> why, out |-> << >>]

-----------------------------------------------------------------------------
\* What properties of a render speak of.

\* Every brace of a text is one of a placeholder of its own.
NoStrayBrace(text, width) == \A k \in DOMAIN text : text[k] \in Braces =>
  \E h \in Holes(text, width) : k \in h[1] .. h[2]

\* No placeholder follows another at once.
HolesApart(text, width) == \A g, h \in Holes(text, width) : h[1] # g[2] + 1

IsClear(text, width) == NoStrayBrace(text, width) /\ HolesApart(text, width)

Braceless(vars) == \A i \in DOMAIN vars : ToSet(vars[i][2]) \cap Braces = {}

\* What filling means: all holes at once, none of them in a value.
ValueOf(vars, name) == vars[CHOOSE i \in DOMAIN vars : vars[i][1] = name][2]

FilledAtOnce(text, vars, width) ==
  LET Given(i) == {h \in Holes(text, width) :
                     h[1] = i /\ NameAt(text, h, width) \in Names(vars)}
      from[i \in 1 .. Len(text) + 1] ==
        IF i > Len(text) THEN << >>
        ELSE IF Given(i) = {} THEN <<text[i]>> \o from[i + 1]
        ELSE LET h == CHOOSE h \in Given(i) : TRUE IN
             ValueOf(vars, NameAt(text, h, width)) \o from[h[2] + 1]
  IN from[1]
=============================================================================
