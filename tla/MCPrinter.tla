----------------------------- MODULE MCPrinter ------------------------------
(***************************************************************************)
(* Documents of three pieces, on their own or in a group, where each piece *)
(* is one of the shapes the formatter builds.  A piece at place i has the  *)
(* tags 10 * i + 1 and on.                                                 *)
(***************************************************************************)
EXTENDS Printer

Tag(i, n) == 10 * i + n
Word(i, n, width) == Text(Tag(i, n), width)
Pair(i, n, line) == Concat(<<Word(i, n, 2), line, Word(i, n + 1, 1)>>)

\* A list: its items in a group, indented, with a comment at the end or not.
List(i, item) ==
  Group(Tag(i, 1), Concat(<<Word(i, 2, 1), Indent(Concat(<<SoftLine, item>>)),
                            AfterCommentLine, Word(i, 3, 1)>>))

Simple(i) == {Word(i, 1, 0), Word(i, 1, 2), Line, SoftLine, HardLine, CommentLine}
Piece(i) ==
  Simple(i) \cup
  { AfterCommentLine, LiteralLine, TrimDoc, LineSuffixBoundary,
    LineSuffix(Word(i, 1, 3)),
    LineSuffix(Concat(<<Word(i, 1, 1), BreakParent>>)),
    IfBreak(Word(i, 1, 1), Pair(i, 2, Line)),
    Group(Tag(i, 1), Pair(i, 2, Line)),
    Group(Tag(i, 1), Indent(Pair(i, 2, HardLine))),
    Group(Tag(i, 1), Concat(<<Group(Tag(i, 5), Pair(i, 2, SoftLine)), Line, Word(i, 4, 2)>>)),
    GroupBreak(Tag(i, 1), Align(1, Pair(i, 2, Line))),
    List(i, Group(Tag(i, 4), Concat(<<Word(i, 5, 3), Line, Word(i, 6, 2)>>))),
    List(i, Concat(<<Word(i, 5, 3), CommentLine>>)),
    Concat(<<Group(Tag(i, 1), Pair(i, 2, Line)), IfBreakFor(Tag(i, 1), Word(i, 4, 1), Line)>>),
    ConditionalGroup(Tag(i, 1), <<Pair(i, 2, Line), Pair(i, 4, SoftLine), Pair(i, 6, HardLine)>>) }

Bodies == {Concat(<<a, b, c>>) : a \in Piece(1), b \in Piece(2), c \in Piece(3)}
MCInput ==
  Bodies \cup {Group(Tag(4, 1), Concat(<<Word(4, 2, 1), Indent(b), Word(4, 3, 1)>>)) : b \in Bodies}
=============================================================================
