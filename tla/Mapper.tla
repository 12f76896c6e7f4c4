------------------------------- MODULE Mapper -------------------------------
(***************************************************************************)
(* Documents, positions and edits.  A document is a sequence of bytes.  Of *)
(* a byte counts whether it ends a line, is white, starts a rune of two or *)
(* of four bytes, or goes on with one; all others are letters.  Offsets    *)
(* count bytes from 0; the positions of the protocol count lines and       *)
(* UTF-16 code units, of which a rune of four bytes has two.               *)
(***************************************************************************)
EXTENDS Integers, FiniteSets, Sequences, SequencesExt

NL == "nl"
CR == "cr"
White == {" ", CR, NL}
NonASCII == {"2", "4", "+"}    \* the first bytes of long runes, and the others

Slice(c, from, to) == SubSeq(c, from + 1, to)
Position(line, character) == [line |-> line, character |-> character]

-----------------------------------------------------------------------------
\* utf8.DecodeRune: a byte that does not start a whole rune stands alone.
RuneSize(s) ==
  IF Len(s) >= 2 /\ s[1] = "2" /\ s[2] = "+" THEN 2
  ELSE IF Len(s) >= 4 /\ s[1] = "4" /\ (\A i \in 2 .. 4 : s[i] = "+") THEN 4
  ELSE 1

\* The loop over the runes of s: how many bytes and units it has left behind.
NextRune(s, at) ==
  LET size == RuneSize(SubSeq(s, at.bytes + 1, Len(s)))
  IN  IF at.bytes = Len(s) THEN at
      ELSE [bytes |-> at.bytes + size, units |-> at.units + IF size = 4 THEN 2 ELSE 1]
AfterRunes(s) ==
  LET after[k \in 0 .. Len(s)] ==
        IF k = 0 THEN [bytes |-> 0, units |-> 0] ELSE NextRune(s, after[k - 1])
  IN  after

UTF16Count(s) == AfterRunes(s)[Len(s)].units

\* initLineStart
LineStart(c) ==
  LET starts[o \in 0 .. Len(c)] ==
        IF o = 0 THEN <<0>>
        ELSE IF c[o] = NL THEN Append(starts[o - 1], o) ELSE starts[o - 1]
  IN  starts[Len(c)]

\* GetLSPEndPosition
EndPosition(c) ==
  LET starts == LineStart(c)
  IN  Position(Len(starts) - 1, UTF16Count(Slice(c, starts[Len(starts)], Len(c))))

OffsetToPosition(c, offset) ==
  LET starts == LineStart(c)
      line == Max({l \in DOMAIN starts : starts[l] <= offset})
  IN  Position(line - 1, UTF16Count(Slice(c, starts[line], offset)))

\* A variant in which the line ends before its line feed, whatever is there.
LineEndAtFeed(c, line) ==
  IF line + 1 = Len(LineStart(c)) THEN Len(c) ELSE LineStart(c)[line + 2] - 1

\* Where the content of a line ends: before the whole line terminator.
LineEnd(c, line) ==
  LET starts == LineStart(c)
      feed == starts[line + 2] - 1
  IN  IF line + 1 = Len(starts) THEN Len(c)
      ELSE IF feed > starts[line + 1] /\ c[feed] = CR THEN feed - 1
      ELSE feed

NoOffset == -1    \* in place of an offset, the error

\* LSPPosToParserPosition: a column past the end of the line is taken for its
\* end, one inside of a rune for the end of the rune.  Only a line past the
\* document is an error.
PositionToOffset(c, pos) ==
  LET start == LineStart(c)[pos.line + 1]
      line == Slice(c, start, LineEnd(c, pos.line))
      after == AfterRunes(line)
      enough == {k \in DOMAIN after :
                   after[k].bytes = Len(line) \/ after[k].units >= pos.character}
  IN  IF pos.line >= Len(LineStart(c)) THEN NoOffset
      ELSE IF \A i \in DOMAIN c : c[i] \notin NonASCII
      THEN start + Min({pos.character, Len(line)})
      ELSE start + after[Min(enough)].bytes

-----------------------------------------------------------------------------
(***************************************************************************)
(* ApplyEdits: the edits that start last are made first.                   *)
(***************************************************************************)
Edit(start, end, text) == [start |-> start, end |-> end, text |-> text]
Located(c, edits) ==
  [k \in DOMAIN edits |-> [from |-> PositionToOffset(c, edits[k].start),
                           to |-> PositionToOffset(c, edits[k].end), text |-> edits[k].text]]

\* The order of edits that start at one offset is that of the argument: Go's
\* sort does not move them as long as there are few.
LastFirst(located) == SortSeq(located, LAMBDA d, e : d.from > e.from)

\* The error of a position, or of a range that is not in the text, gives up
\* all of the edits.
Made(out, e) ==
  IF out.fits /\ e.from >= 0 /\ e.to <= Len(out.text) /\ e.from <= e.to
  THEN [out EXCEPT !.text = Slice(@, 0, e.from) \o e.text \o Slice(@, e.to, Len(@))]
  ELSE [fits |-> FALSE, text |-> <<>>]

ApplyEdits(c, edits) ==
  FoldLeft(Made, [fits |-> TRUE, text |-> c], LastFirst(Located(c, edits)))
=============================================================================
