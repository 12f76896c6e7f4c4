-------------------------------- MODULE Doc ---------------------------------
(***************************************************************************)
(* The documents that doc.Print lays out, of the Wadler/Prettier kind.  A  *)
(* document is a record with the operation (op); a group and a text have a *)
(* tag, which is their identity: two records with one tag are one node     *)
(* that two parents share.                                                 *)
(***************************************************************************)
EXTENDS Integers, Sequences, SequencesExt

CONSTANT TabWidth

Text(tag, width) == [op |-> "text", tag |-> tag, width |-> width]
Concat(parts) == [op |-> "concat", parts |-> parts]
Group(tag, d) == [op |-> "group", tag |-> tag, of |-> d, brk |-> FALSE, expanded |-> <<>>]
GroupBreak(tag, d) == [Group(tag, d) EXCEPT !.brk = TRUE]
ConditionalGroup(tag, states) == [Group(tag, states[1]) EXCEPT !.expanded = states]
IfBreakFor(tag, broken, flat) ==
  [op |-> "ifBreak", tag |-> tag, broken |-> broken, flat |-> flat]
None == 0
IfBreak(broken, flat) == IfBreakFor(None, broken, flat)
Indent(d) == [op |-> "indent", by |-> TabWidth, of |-> d]
Align(n, d) == [op |-> "indent", by |-> n, of |-> d]
LineSuffix(d) == [op |-> "lineSuffix", of |-> d]
LineSuffixBoundary == [op |-> "boundary"]
TrimDoc == [op |-> "trim"]
BreakParent == [op |-> "breakParent"]
LineDoc == [op |-> "line", soft |-> FALSE, hard |-> FALSE, literal |-> FALSE,
            comment |-> FALSE, afterComment |-> FALSE]
Line == LineDoc
SoftLine == [LineDoc EXCEPT !.soft = TRUE]
HardLineNoBreak == [LineDoc EXCEPT !.hard = TRUE]
HardLine == Concat(<<HardLineNoBreak, BreakParent>>)
LiteralLine == Concat(<<[HardLineNoBreak EXCEPT !.literal = TRUE], BreakParent>>)
CommentLine == Concat(<<[HardLineNoBreak EXCEPT !.comment = TRUE], BreakParent>>)
AfterCommentLine == [SoftLine EXCEPT !.afterComment = TRUE]

-----------------------------------------------------------------------------
(***************************************************************************)
(* propagateBreaks.  The traversal t keeps the stack of groups it is in,   *)
(* the groups it has visited and the groups that break.  A group that was  *)
(* visited is pushed and left there: traverseDoc returns before exit.      *)
(***************************************************************************)
Children(d) ==
  CASE d.op = "concat" -> d.parts
    [] d.op = "group" -> Append(d.expanded, d.of)
    [] d.op \in {"indent", "lineSuffix"} -> <<d.of>>
    [] d.op = "ifBreak" -> <<d.broken, d.flat>>
    [] OTHER -> <<>>

BreakParentGroup(t) ==
  IF t.stack = <<>> THEN t ELSE [t EXCEPT !.brk = @ \cup {Last(t.stack)}]

Exit(t, d) ==
  LET popped == [t EXCEPT !.stack = Front(@)]
  IN  IF d.brk \/ d.tag \in t.brk
      THEN [BreakParentGroup(popped) EXCEPT !.brk = @ \cup {d.tag}] ELSE popped

RECURSIVE Traverse(_, _), TraverseAll(_, _)
TraverseAll(t, ds) ==
  IF ds = <<>> THEN t ELSE TraverseAll(Traverse(t, Head(ds)), Tail(ds))

Traverse(t, d) ==
  LET entered == [t EXCEPT !.stack = Append(@, d.tag)]
  IN  IF d.op = "breakParent" THEN BreakParentGroup(t)
      ELSE IF d.op # "group" THEN TraverseAll(t, Children(d))
      ELSE IF d.tag \in t.visited THEN entered
      ELSE Exit(TraverseAll([entered EXCEPT !.visited = @ \cup {d.tag}], Children(d)), d)

PropagateBreaks(d) == Traverse([stack |-> <<>>, visited |-> {}, brk |-> {}], d).brk
=============================================================================
