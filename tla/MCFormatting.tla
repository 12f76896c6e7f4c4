---------------------------- MODULE MCFormatting ----------------------------
(* Instances of Formatting for TLC.                                        *)
EXTENDS Formatting

Texts(pieces, n) == {FlattenSeq(s) : s \in UNION {[1 .. k -> pieces] : k \in 0 .. n}}

\* Runes of every size, whole and broken, between all kinds of line ends.
Wide == Texts({<<"a">>, <<NL>>, <<CR, NL>>, <<CR>>, <<"2", "+">>, <<"4", "+", "+", "+">>, <<"+">>}, 3)

\* Blocks of one or two lines, the last line with its newline or without,
\* and blank lines with white space on them.
Loose == Texts({<<"a", NL>>, <<NL>>, <<" ", NL>>, <<"a">>, <<"a", CR, NL>>}, 4)

\* What the formatter may make of them: no blank line first or last, no white
\* space on blank lines, and a newline at the end.
Tidy == {t \in Texts({<<"a", NL>>, <<"b", NL>>, <<NL>>}, 4) :
           t = <<>> \/ (t[1] # NL /\ t[Len(t) - 1] # NL)}

Lines(s) == FlattenSeq([i \in DOMAIN s |-> <<s[i], NL>>])

\* Longer texts for the diff: lines moved, repeated, replaced and dropped.
Moved ==
  {<<Lines(x), Lines(y)>> :
     x \in {<<"a", "b", "c", "d", "e">>, <<"a", "b", "c", "a", "b">>, <<"a", "b", "b", "b", "b", "c">>},
     y \in {<<a, b, c, d, e>> : a \in {"a", "b", "x"}, b \in {"a", "b"}, c \in {"c", "d", "b"},
                                d \in {"b", "c", "a", "x"}, e \in {"b", "e", "c"}}}

MCFormats ==
  {<<w, <<"b", NL>>>> : w \in Wide}
  \cup {p \in Loose \X Tidy : Len(p[1]) <= 5 /\ Len(p[2]) <= 4}
  \cup {<<w, NotParseable>> : w \in {<<"a">>, <<"a", NL>>}}
  \cup Moved
=============================================================================
