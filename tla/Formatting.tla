----------------------------- MODULE Formatting -----------------------------
(***************************************************************************)
(* The formatting requests on one document and the diff of the command     *)
(* line.  The formatter only prints whole documents; a range is formatted  *)
(* by formatting the document and picking, of the blocks of lines between  *)
(* blank ones, those that changed and overlap the selection.               *)
(***************************************************************************)
EXTENDS Mapper, Diff

CONSTANTS
  Formats,        \* pairs of a document and what the formatter makes of it
  NotParseable,   \* in place of the latter if the document does not parse
  Columns         \* bound: the columns at which selections start and end

\* Documents are sequences of bytes, of which each is named by a string.
ASSUME FormatsAssumption ==
  \A pair \in Formats : /\ pair[1] \in Seq(STRING)
                        /\ pair[2] # NotParseable => pair[2] \in Seq(STRING)

VARIABLES
  content,     \* the document, at the client and at the server
  formatted,   \* what the formatter makes of it
  answer       \* the answer to the request

vars == <<content, formatted, answer>>

Silent == [to |-> "nothing"]
Refused == [to |-> "refused"]

-----------------------------------------------------------------------------
(***************************************************************************)
(* Blocks: the runs of lines that are not blank, as ranges of offsets.     *)
(***************************************************************************)
NextLineStart(c, offset) ==
  Min({Len(c)} \cup {o \in offset + 1 .. Len(c) : c[o] = NL})
LineStartOf(c, offset) == Max({0} \cup {o \in 1 .. offset : c[o] = NL})

LinesOf(c) ==
  LET starts == LineStart(c)
      count == IF Last(starts) = Len(c) THEN Len(starts) - 1 ELSE Len(starts)
  IN  [k \in 1 .. count |-> [start |-> starts[k], end |-> NextLineStart(c, starts[k])]]
IsBlank(c, line) == \A o \in line.start + 1 .. line.end : c[o] \in White

Blocks(c) ==
  FoldLeft(LAMBDA blocks, line :
             IF IsBlank(c, line) THEN blocks
             ELSE IF blocks # <<>> /\ Last(blocks).end = line.start
             THEN [blocks EXCEPT ![Len(blocks)].end = line.end]
             ELSE Append(blocks, line),
           <<>>, LinesOf(c))

\* The blocks of a document and the blank segments before, between and
\* after them.
Segments(c) ==
  LET b == Blocks(c)
      before(i) == IF i = 1 THEN 0 ELSE b[i - 1].end
  IN  FlattenSeq([i \in DOMAIN b |-> <<[start |-> before(i), end |-> b[i].start], b[i]>>])
      \o <<[start |-> IF b = <<>> THEN 0 ELSE Last(b).end, end |-> Len(c)]>>

BlockEdit(segment, text) == [start |-> segment.start, end |-> segment.end, text |-> text]
TextOf(c, segment) == Slice(c, segment.start, segment.end)

HasCRLF(c) == \E o \in 1 .. Len(c) - 1 : c[o] = CR /\ c[o + 1] = NL

\* The segments of the documents correspond.
Aligned(old, new) ==
  ~HasCRLF(old) /\ Blocks(old) # <<>> /\ Len(Blocks(old)) = Len(Blocks(new))

\* A variant that aligns whatever there is of either.
BlockDiffByIndex(old, new) ==
  LET o == Segments(old)
      n == Segments(new)
      edit(k) == IF TextOf(old, o[k]) = TextOf(new, n[k]) THEN <<>>
                 ELSE <<BlockEdit(o[k], TextOf(new, n[k]))>>
  IN  FlattenSeq([k \in 1 .. Min({Len(o), Len(n)}) |-> edit(k)])

BlockDiff(old, new) ==
  LET o == Segments(old)
      n == Segments(new)
      edit(k) == IF TextOf(old, o[k]) = TextOf(new, n[k]) THEN <<>>
                 ELSE <<BlockEdit(o[k], TextOf(new, n[k]))>>
  IN  IF Aligned(old, new) THEN FlattenSeq([k \in DOMAIN o |-> edit(k)])
      ELSE IF old = new THEN <<>>
      ELSE <<BlockEdit([start |-> 0, end |-> Len(old)], new)>>

-----------------------------------------------------------------------------
(***************************************************************************)
(* The requests.                                                           *)
(***************************************************************************)
FormatDocument(c, new) ==
  IF new = NotParseable \/ c = new THEN <<>>
  ELSE <<Edit(Position(0, 0), EndPosition(c), new)>>

\* The selection expanded to whole lines.
Selected(c, from, to) ==
  [start |-> LineStartOf(c, PositionToOffset(c, from)),
   end   |-> NextLineStart(c, LineStartOf(c, PositionToOffset(c, to)))]

InSelection(edit, selection) == ~(edit.end <= selection.start \/ edit.start >= selection.end)

FormatRange(c, new, from, to) ==
  LET picked == SelectSeq(BlockDiff(c, new), LAMBDA e : InSelection(e, Selected(c, from, to)))
  IN  IF new = NotParseable \/ c = new THEN <<>>
      ELSE [k \in DOMAIN picked |->
              Edit(OffsetToPosition(c, picked[k].start), OffsetToPosition(c, picked[k].end),
                   picked[k].text)]

\* Positions race with edits: that of a selection may be past the document.
Positions(c) ==
  {Position(l, n) : l \in 0 .. Len(LineStart(c)), n \in 0 .. Len(c) + 1}
IsPast(c, pos) == PositionToOffset(c, pos) = NoOffset
NotAfter(p, q) == p.line < q.line \/ (p.line = q.line /\ p.character <= q.character)

Init == /\ \E pair \in Formats : content = pair[1] /\ formatted = pair[2]
        /\ answer = Silent

AskDocument ==
  /\ answer = Silent
  /\ answer' = [to |-> "document", edits |-> FormatDocument(content, formatted)]
  /\ UNCHANGED <<content, formatted>>

\* The range is any; that of on-type formatting is a definition's.  Where
\* there is anything to format a position past the document is an error.
AskRange(from, to) ==
  /\ answer = Silent /\ NotAfter(from, to)
  /\ answer' =
       IF formatted \notin {NotParseable, content} /\ (IsPast(content, from) \/ IsPast(content, to))
       THEN Refused
       ELSE [to |-> "range", from |-> from, until |-> to,
             edits |-> FormatRange(content, formatted, from, to)]
  /\ UNCHANGED <<content, formatted>>

\* The lines of a document with their newlines, as the diff has them.
DiffLines(c) == [k \in DOMAIN LinesOf(c) |-> TextOf(c, LinesOf(c)[k])]

AskDiff ==
  /\ answer = Silent /\ formatted # NotParseable
  /\ answer' = [to |-> "diff", chunks |-> UnifiedDiff(DiffLines(content), DiffLines(formatted))]
  /\ UNCHANGED <<content, formatted>>

\* The client makes the edits of an answer, all or none.
Apply ==
  LET made == ApplyEdits(content, answer.edits) IN
  /\ answer.to \in {"document", "range"}
  /\ content' = IF made.fits THEN made.text ELSE content
  /\ answer' = IF made.fits THEN [to |-> "done"] ELSE Refused
  /\ UNCHANGED formatted

Next ==
  \/ AskDocument \/ AskDiff \/ Apply
  \/ \E from, to \in {p \in Positions(content) : p.character \in Columns} : AskRange(from, to)

Spec == Init /\ [][Next]_vars

-----------------------------------------------------------------------------
(***************************************************************************)
(* Properties                                                              *)
(***************************************************************************)
\* Positions and offsets correspond: an offset comes back from its position,
\* and a position that a client only hints at, past the end of a line or
\* inside of a surrogate pair, is an offset of that line between two runes,
\* not inside of its ending, and never before that of an earlier position
\* (mapper.go:81-84).
PositionsMap ==
  answer = Silent =>
    LET c == content
        Offset(p) == PositionToOffset(c, p)
        line(l) == Slice(c, LineStart(c)[l + 1], LineEnd(c, l))
        ends(l) == {LineStart(c)[l + 1] + AfterRunes(line(l))[k].bytes : k \in 0 .. Len(line(l))}
        last(l) == UTF16Count(line(l)) + 1
    IN  \A l \in 0 .. Len(LineStart(c)) - 1 :
          /\ \A o \in ends(l) : Offset(OffsetToPosition(c, o)) = o
          /\ \A n \in 0 .. last(l) :
               LET o == Offset(Position(l, n))
               IN  /\ o \in ends(l)
                   /\ ~(o > 0 /\ o < Len(c) /\ c[o] = CR /\ c[o + 1] = NL)
          /\ \A n \in 1 .. last(l) : Offset(Position(l, n - 1)) <= Offset(Position(l, n))

\* The edits of an answer can be made.  Those of a document, or of a range that
\* is all of it, give what the formatter made of it.  Those of another range give, block by block, the
\* formatted block where the block is selected and the old one elsewhere, or
\* the whole formatted document where blocks do not correspond
\* (format.go:73-78: any subset splices safely).
EditsFormatSelection ==
  [][Apply =>
       LET old == content
           new == formatted
           result == content'
           \* The lines of the selection, counted from 0.
           lines == answer.from.line .. answer.until.line
           IsSelected(block) ==
             \E l \in lines \ {Len(LineStart(old))} : LineStart(old)[l + 1] \in block.start .. block.end - 1
           Chosen(i) == IF IsSelected(Blocks(old)[i]) THEN TextOf(new, Blocks(new)[i])
                        ELSE TextOf(old, Blocks(old)[i])
       IN  /\ answer' # Refused
           /\ IF new = NotParseable THEN result = old
              ELSE IF answer.to = "document" \/ 0 .. Len(LinesOf(old)) - 1 \subseteq lines
              THEN old # <<>> => result = new
              ELSE IF Aligned(old, new)
              THEN /\ Len(Blocks(result)) = Len(Blocks(old))
                   /\ \A i \in DOMAIN Blocks(old) : TextOf(result, Blocks(result)[i]) = Chosen(i)
              ELSE result \in {old, new}]_vars

\* The diff is empty only for equal texts, and patching the old text with it
\* gives the new one: every chunk stands where its header says.
DiffPatches ==
  answer.to = "diff" =>
    LET old == DiffLines(content)
        patched == Patch(old, answer.chunks)
    IN  /\ patched.fits
        /\ patched.text \o Part(old, patched.at, Len(old)) = DiffLines(formatted)
        /\ answer.chunks = <<>> => content = formatted
=============================================================================
