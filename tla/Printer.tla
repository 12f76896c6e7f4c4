------------------------------ MODULE Printer -------------------------------
(***************************************************************************)
(* doc.Print: the machine that lays a document out.  It keeps a stack of   *)
(* commands, each a document with the mode and the indentation it is to be *)
(* printed in, and takes one command a step.                               *)
(*                                                                         *)
(* A text is its width, and ends in no whitespace.  Indentation is in      *)
(* spaces, so that it is its width as well.                                *)
(***************************************************************************)
EXTENDS Doc

CONSTANTS
  Input,        \* the documents
  PrintWidth

ASSUME OptionsAssumption == PrintWidth \in Nat \ {0} /\ TabWidth \in Nat \ {0}

VARIABLES
  doc,          \* the document
  brk,          \* the groups that break whether they fit or not
  commands,     \* the stack, the top last
  out,          \* what is written: texts, spaces, indentations and newlines
  position,     \* the column
  groupMode,    \* how each group that was printed was: its mode, and what
                \* of its states
  lineSuffix,   \* the commands to print before the line ends
  remeasure,    \* shouldRemeasure
  commentEnded  \* lastLineComment

vars == <<doc, brk, commands, out, position, groupMode, lineSuffix, remeasure,
          commentEnded>>

-----------------------------------------------------------------------------
(***************************************************************************)
(* The output.                                                             *)
(***************************************************************************)
IsBlank(item) == item.kind \in {"space", "indent"}
Newline == [kind |-> "newline", tag |-> None, width |-> 0]
Item(kind, width) == [kind |-> kind, tag |-> None, width |-> width]

RECURSIVE Trimmed(_)
Trimmed(o) == IF o # <<>> /\ IsBlank(Last(o)) THEN Trimmed(Front(o)) ELSE o

\* The columns written since the last newline.
RECURSIVE Column(_)
Column(o) ==
  IF o = <<>> \/ Last(o).kind = "newline" THEN 0 ELSE Last(o).width + Column(Front(o))

LineEnded == Trimmed(out) # <<>> /\ Last(Trimmed(out)).kind = "newline"
Indented(o, indent) == IF indent = 0 THEN o ELSE Append(o, Item("indent", indent))

-----------------------------------------------------------------------------
(***************************************************************************)
(* fits: whether a command, and what is printed behind it up to the next   *)
(* place where a line may end, fits into the width that is left.           *)
(***************************************************************************)
Broken(g) == g.tag \in brk
ModeOf(d, mode) ==
  IF d.tag = None THEN mode
  ELSE IF d.tag \in DOMAIN groupMode THEN groupMode[d.tag].mode ELSE "flat"
Contents(d, mode) == IF ModeOf(d, mode) = "break" THEN d.broken ELSE d.flat

Command(indent, mode, d) == [indent |-> indent, mode |-> mode, doc |-> d]
Pushed(stack, cmd, ds) ==
  stack \o [i \in DOMAIN ds |-> [cmd EXCEPT !.doc = ds[Len(ds) + 1 - i]]]

RECURSIVE Fits(_, _, _, _, _)
Fits(stack, rest, width, space, suffix) ==
  LET cmd == Last(stack)
      d == cmd.doc
      below == Front(stack)
      mode == IF Broken(d) THEN "break" ELSE cmd.mode
      contents == IF d.expanded # <<>> /\ mode = "break" THEN Last(d.expanded) ELSE d.of
  IN  IF width < 0 THEN FALSE
      ELSE IF stack = <<>>
           THEN rest = <<>> \/ Fits(<<Last(rest)>>, Front(rest), width, space, suffix)
      ELSE CASE d.op = "text" ->
                  IF d.width = 0 THEN Fits(below, rest, width, space, suffix)
                  ELSE Fits(below, rest, width - d.width - (IF space THEN 1 ELSE 0), FALSE, suffix)
             [] d.op = "concat" -> Fits(Pushed(below, cmd, d.parts), rest, width, space, suffix)
             [] d.op = "indent" -> Fits(Pushed(below, cmd, <<d.of>>), rest, width, space, suffix)
             [] d.op = "group" ->
                  ~(Broken(d) /\ cmd.mode = "flat")
                  /\ Fits(Append(below, [cmd EXCEPT !.mode = mode, !.doc = contents]),
                          rest, width, space, suffix)
             [] d.op = "ifBreak" ->
                  Fits(Pushed(below, cmd, <<Contents(d, cmd.mode)>>), rest, width, space, suffix)
             [] d.op = "line" ->
                  cmd.mode = "break" \/ d.hard
                  \/ Fits(below, rest, width, space \/ ~d.soft, suffix)
             [] d.op = "lineSuffix" -> Fits(below, rest, width, space, TRUE)
             [] d.op = "boundary" -> ~suffix /\ Fits(below, rest, width, space, suffix)
             [] OTHER -> Fits(below, rest, width, space, suffix)

-----------------------------------------------------------------------------
(***************************************************************************)
(* printGroup: flat if that fits, else the first of the states between     *)
(* that does, else broken.  Within a flat group nothing is measured, until *)
(* a hard line was printed there.                                          *)
(***************************************************************************)
GroupCommand(cmd, rest) ==
  LET g == cmd.doc
      As(mode, d) == Command(cmd.indent, mode, d)
      FitsAs(d) ==
        Fits(<<As("flat", d)>>, rest, PrintWidth - position, FALSE, lineSuffix # <<>>)
      between == {i \in 2..Len(g.expanded) - 1 : ~Broken(g) /\ FitsAs(g.expanded[i])}
  IN  IF cmd.mode = "flat" /\ ~remeasure
      THEN As(IF Broken(g) THEN "break" ELSE "flat", g.of)
      ELSE IF ~Broken(g) /\ FitsAs(g.of) THEN As("flat", g.of)
      ELSE IF g.expanded = <<>> THEN As("break", g.of)
      ELSE IF between # {}
           THEN As("flat", g.expanded[CHOOSE i \in between : \A j \in between : i <= j])
      ELSE As("break", Last(g.expanded))

-----------------------------------------------------------------------------
(***************************************************************************)
(* run.  Top is the command that is taken.  After the last command the     *)
(* suffixes that no line has flushed are still to be printed.              *)
(***************************************************************************)
Top == Last(commands)
Rest == Front(commands)
At(op) == commands # <<>> /\ Top.doc.op = op

\* Variant: pending suffixes are lost with the last command.
ContinueOnly(stack, suffixes) == commands' = stack /\ lineSuffix' = suffixes

Continue(stack, suffixes) ==
  IF stack = <<>>
  THEN /\ commands' = Reverse(suffixes)
       /\ lineSuffix' = <<>>
  ELSE commands' = stack /\ lineSuffix' = suffixes

\* The width of the last text is not added: nothing is measured behind it.
PrintText ==
  /\ At("text")
  /\ IF Top.doc.width = 0 THEN UNCHANGED <<out, position, commentEnded>>
     ELSE /\ out' = Append(out, [kind |-> "text", tag |-> Top.doc.tag, width |-> Top.doc.width])
          /\ position' = position + IF Rest = <<>> THEN 0 ELSE Top.doc.width
          /\ commentEnded' = FALSE
  /\ Continue(Rest, lineSuffix)
  /\ UNCHANGED <<doc, brk, groupMode, remeasure>>

Unfold(ds, indent) ==
  /\ Continue(Pushed(Rest, Command(indent, Top.mode, Top.doc), ds), lineSuffix)
  /\ UNCHANGED <<doc, brk, out, position, groupMode, remeasure, commentEnded>>

PrintConcat == At("concat") /\ Unfold(Top.doc.parts, Top.indent)
PrintIndent == At("indent") /\ Unfold(<<Top.doc.of>>, Top.indent + Top.doc.by)
PrintIfBreak == At("ifBreak") /\ Unfold(<<Contents(Top.doc, Top.mode)>>, Top.indent)
PrintBreakParent == At("breakParent") /\ Unfold(<<>>, Top.indent)
PrintBoundary ==
  /\ At("boundary")
  /\ Unfold(IF lineSuffix = <<>> THEN <<>> ELSE <<HardLineNoBreak>>, Top.indent)

PrintLineSuffix ==
  /\ At("lineSuffix")
  /\ Continue(Rest, Append(lineSuffix, Command(Top.indent, Top.mode, Top.doc.of)))
  /\ UNCHANGED <<doc, brk, out, position, groupMode, remeasure, commentEnded>>

PrintTrim ==
  /\ At("trim")
  /\ out' = Trimmed(out)
  /\ position' = position - (Column(out) - Column(Trimmed(out)))
  /\ Continue(Rest, lineSuffix)
  /\ UNCHANGED <<doc, brk, groupMode, remeasure, commentEnded>>

PrintGroup ==
  /\ At("group")
  /\ LET g == GroupCommand(Top, Rest)
     IN  /\ commands' = Append(Rest, g)
         /\ groupMode' = [t \in DOMAIN groupMode \cup {Top.doc.tag} |->
                            IF t = Top.doc.tag THEN [mode |-> g.mode, of |-> g.doc]
                            ELSE groupMode[t]]
  /\ remeasure' = FALSE
  /\ UNCHANGED <<doc, brk, out, position, lineSuffix, commentEnded>>

AtLine(flat) ==
  /\ At("line")
  /\ flat <=> (Top.mode = "flat" /\ ~Top.doc.hard)

PrintFlatLine ==
  /\ AtLine(TRUE)
  /\ IF Top.doc.soft THEN UNCHANGED <<out, position>>
     ELSE out' = Append(out, Item("space", 1)) /\ position' = position + 1
  /\ Continue(Rest, lineSuffix)
  /\ UNCHANGED <<doc, brk, groupMode, remeasure, commentEnded>>

\* The suffixes are printed first, and then the line is taken again.
FlushSuffixes ==
  /\ AtLine(FALSE)
  /\ lineSuffix # <<>>
  /\ commands' = commands \o Reverse(lineSuffix)
  /\ lineSuffix' = <<>>
  /\ remeasure' = (remeasure \/ Top.mode = "flat")
  /\ UNCHANGED <<doc, brk, out, position, groupMode, commentEnded>>

\* A structural line does not add to a newline, except that one that closes
\* a list (afterComment) does unless the line ended a comment.
Collapses(line) ==
  ~line.hard /\ LineEnded /\ (line.afterComment => commentEnded)

NewOutput(line, indent) ==
  IF line.literal THEN Append(out, Newline)
  ELSE Indented(IF Collapses(line) THEN Trimmed(out) ELSE Append(Trimmed(out), Newline), indent)

\* Variant: a literal line is thought to be indented.
AlwaysIndented(line, indent) == indent

Begins(line, indent) == IF line.literal THEN 0 ELSE indent

PrintLine ==
  /\ AtLine(FALSE)
  /\ lineSuffix = <<>>
  /\ out' = NewOutput(Top.doc, Top.indent)
  /\ position' = Begins(Top.doc, Top.indent)
  /\ commentEnded' =
       IF Top.doc.literal THEN FALSE
       ELSE IF Collapses(Top.doc) THEN commentEnded
       ELSE Top.doc.comment \/ (Top.doc.hard /\ commentEnded)
  /\ remeasure' = (remeasure \/ Top.mode = "flat")
  /\ Continue(Rest, lineSuffix)
  /\ UNCHANGED <<doc, brk, groupMode>>

Init ==
  /\ doc \in Input
  /\ brk = PropagateBreaks(doc)
  /\ commands = <<Command(0, "break", doc)>>
  /\ out = <<>> /\ position = 0
  /\ groupMode = <<>> /\ lineSuffix = <<>>
  /\ remeasure = FALSE /\ commentEnded = FALSE

Next ==
  \/ PrintText \/ PrintConcat \/ PrintIndent \/ PrintIfBreak \/ PrintBreakParent
  \/ PrintBoundary \/ PrintLineSuffix \/ PrintTrim \/ PrintGroup
  \/ PrintFlatLine \/ FlushSuffixes \/ PrintLine

Spec == Init /\ [][Next]_vars

-----------------------------------------------------------------------------
\* The document as a sequence of what it prints, by what each operation
\* means and in the modes that the groups were printed in.
TextAtom(d) == IF d.width = 0 THEN <<>> ELSE <<[text |-> d.tag]>>
Break == [newline |-> TRUE]
RECURSIVE Meaning(_, _), MeaningAll(_, _)
MeaningAll(ds, mode) ==
  IF ds = <<>> THEN <<>> ELSE Meaning(Head(ds), mode) \o MeaningAll(Tail(ds), mode)
Meaning(d, mode) ==
  CASE d.op = "text" -> TextAtom(d)
    [] d.op = "concat" -> MeaningAll(d.parts, mode)
    [] d.op = "indent" -> Meaning(d.of, mode)
    [] d.op = "group" -> Meaning(groupMode[d.tag].of, groupMode[d.tag].mode)
    [] d.op = "ifBreak" -> Meaning(Contents(d, mode), mode)
    [] d.op = "line" -> IF mode = "flat" /\ ~d.hard THEN <<>> ELSE <<Break>>
    [] d.op = "lineSuffix" -> <<[suffix |-> Meaning(d.of, mode)]>>
    [] d.op = "boundary" -> <<[boundary |-> TRUE]>>
    [] OTHER -> <<>>

\* A suffix waits for the next newline, or the end; a boundary is a newline
\* if one waits.
RECURSIVE Flushed(_, _)
Flushed(atoms, waiting) ==
  IF atoms = <<>> THEN IF waiting = <<>> THEN <<>> ELSE Flushed(waiting, <<>>)
  ELSE LET a == Head(atoms)
       IN  IF "suffix" \in DOMAIN a THEN Flushed(Tail(atoms), waiting \o a.suffix)
           ELSE IF "boundary" \in DOMAIN a
                THEN Flushed((IF waiting = <<>> THEN <<>> ELSE <<Break>>) \o Tail(atoms), waiting)
           ELSE IF a = Break /\ waiting # <<>> THEN Flushed(waiting \o atoms, <<>>)
           ELSE <<a>> \o Flushed(Tail(atoms), waiting)

RECURSIVE OneBreak(_)
OneBreak(atoms) ==
  IF Len(atoms) < 2 THEN atoms
  ELSE IF atoms[1] = Break /\ atoms[2] = Break THEN OneBreak(Tail(atoms))
  ELSE <<atoms[1]>> \o OneBreak(Tail(atoms))

Written ==
  LET kept == SelectSeq(out, LAMBDA item : ~IsBlank(item))
  IN  [i \in DOMAIN kept |->
         IF kept[i].kind = "newline" THEN Break ELSE [text |-> kept[i].tag]]

\* The output is what the document means: every text of it once and in
\* order, a suffix at the end of its line, on different lines exactly what a
\* line that breaks is between (how many newlines apart is left open).
PrintsMeaning ==
  commands = <<>> => OneBreak(Written) = OneBreak(Flushed(Meaning(doc, "break"), <<>>))

\* What a document puts on the line it begins on: widths, spaces, a Stop
\* where the line may end, Never where it cannot be laid out flat, and where
\* a suffix waits and where none may.
Space == -1
Stop == -2
Never == -3
Suffix == -4
Boundary == -5
RECURSIVE Row(_, _), RowAll(_, _)
RowAll(ds, mode) ==
  IF ds = <<>> THEN <<>> ELSE Row(Head(ds), mode) \o RowAll(Tail(ds), mode)
Row(d, mode) ==
  CASE d.op = "text" -> IF d.width = 0 THEN <<>> ELSE <<d.width>>
    [] d.op = "concat" -> RowAll(d.parts, mode)
    [] d.op = "indent" -> Row(d.of, mode)
    [] d.op = "group" ->
         IF Broken(d) /\ mode = "flat" THEN <<Never>>
         ELSE Row(IF d.expanded # <<>> /\ mode = "break" THEN Last(d.expanded) ELSE d.of,
                  mode)
    [] d.op = "ifBreak" -> Row(Contents(d, mode), mode)
    [] d.op = "line" ->
         IF mode = "break" \/ d.hard THEN <<Stop>> ELSE IF d.soft THEN <<>> ELSE <<Space>>
    [] d.op = "lineSuffix" -> <<Suffix>>
    [] d.op = "boundary" -> <<Boundary>>
    [] OTHER -> <<>>

RECURSIVE Behind(_)
Behind(stack) ==
  IF stack = <<>> THEN <<>>
  ELSE Row(Last(stack).doc, Last(stack).mode) \o Behind(Front(stack))

\* The row up to its first Stop fits into width: a space counts with the text
\* behind it.
RowFits(row, width) ==
  LET ends == {i \in DOMAIN row : row[i] = Stop}
      line == IF ends = {} THEN row ELSE SubSeq(row, 1, (CHOOSE i \in ends : \A j \in ends : i <= j) - 1)
      Spaces(i) == {j \in 1..i : line[j] = Space /\ \A k \in j + 1..i - 1 : line[k] < 0}
      widths == [i \in DOMAIN line |->
                   IF line[i] < 0 THEN 0
                   ELSE line[i] + IF Spaces(i) = {} THEN 0 ELSE 1]
  IN  /\ Never \notin Range(line)
      /\ \A i, j \in DOMAIN line : line[i] = Suffix /\ line[j] = Boundary => j < i
      /\ FoldLeft(+, 0, widths) <= width

\* A group that need not break is laid out flat exactly when it and what is
\* behind it, up to the next place where the line may end, do not cross the
\* print width from the column where the output really is: however the
\* position was kept over newlines, trims, suffixes and collapsed lines.
MeasuredRight ==
  [][At("group") /\ (Top.mode = "break" \/ remeasure)
       /\ ~Broken(Top.doc) /\ Top.doc.expanded = <<>> /\ lineSuffix = <<>>
     => (Last(commands').mode = "flat"
         <=> RowFits(Row(Top.doc, "flat") \o Behind(Rest), PrintWidth - Column(out)))]_vars
=============================================================================
