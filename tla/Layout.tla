------------------------------- MODULE Layout -------------------------------
(***************************************************************************)
(* formatter.Format: the document that is printed for a parsed file, and   *)
(* what becomes of it when it is saved, read and formatted again.  The     *)
(* parser is the machine of Parser; a step more formats a file that it     *)
(* read without an error.                                                  *)
(*                                                                         *)
(* The formatter works on tokens, comments among them, and on their lines, *)
(* and an operator gives a sequence of documents to be printed one behind  *)
(* the other.  Columns are left out: indentation and alignment are spaces  *)
(* at places where there is a space or the start of a line, and which      *)
(* groups do not fit into the width is an option, by the token that opens  *)
(* the group.  One separator mode and one break mode hold for all          *)
(* constructs.  A comment is on one line.                                  *)
(***************************************************************************)
EXTENDS Parser, Doc

CONSTANTS
  Inputs,    \* the files to format, and the options: of a token its kind, its
             \* identity (none if it is its kind that is written), its line and
             \* the blank lines before it; the separator mode, the break mode
             \* and the groups that are too wide
  Passes     \* bound: how often a file is formatted

VARIABLES
  file,      \* the tokens of the file that is read
  options,
  source,    \* the file before it was ever formatted
  tree,      \* what was parsed when the file was last formatted
  output,    \* what was written then: texts, spaces and newlines
  passes     \* how often the file was formatted

layoutVars == <<toks, p, doc, file, options, source, tree, output, passes>>

-----------------------------------------------------------------------------
(***************************************************************************)
(* The nodes of the tree.                                                  *)
(***************************************************************************)
Within(m, n) ==
  n.first <= m.first /\ m.last <= n.last /\ m.last - m.first < n.last - n.first
Members(n, kind) ==
  LET below == {m \in p.nodes : Within(m, n)}
  IN  SetToSortSeq({m \in below : m.kind = kind /\ ~\E k \in below : Within(m, k)},
                   LAMBDA m, k : m.first < k.first)

PrevReal(i) == LET S == {j \in Real : j <= i} IN IF S = {} THEN 0 ELSE Max(S)
ScanKind(from, to, kind) ==
  LET S == {i \in from..to : toks[i] = kind} IN IF S = {} THEN to ELSE Min(S)

\* The structured annotations that begin at a token, one behind the other.
RECURSIVE Annos(_)
Annos(i) ==
  LET here == {n \in p.nodes : n.kind = "structured" /\ n.first = i}
  IN  IF here = {} THEN <<>>
      ELSE LET n == CHOOSE n \in here : TRUE IN <<n>> \o Annos(NextReal(n.last + 1))
ContentStart(n) ==
  LET annos == Annos(n.first)
  IN  IF annos = <<>> THEN n.first ELSE NextReal(Last(annos).last + 1)

Nothing == "nothing"
Sep(n) == IF toks[n.last] \in Separator THEN toks[n.last] ELSE Nothing
Seps(ns) == [k \in DOMAIN ns |-> Sep(ns[k])]

-----------------------------------------------------------------------------
(***************************************************************************)
(* Texts, and the tag of a group: the token that opens it, and whether it  *)
(* is in the copy of a field for a body that breaks.                       *)
(***************************************************************************)
Gap == [kind |-> "space", id |-> 0]
Space == Text(Gap, 1)
Forced(kind) == Text([kind |-> kind, id |-> 0], 1)
Spelling(kind) == IF kind = "async" THEN "oneway" ELSE kind
Word(i) == Text([kind |-> Spelling(toks[i]), id |-> file[i].id], 1)

Tag(i, padded) == 4 * i + IF padded THEN 1 ELSE 0
FunctionTag(n) == 4 * n.first + 2
OpenedBy(tag) == IF tag % 4 = 2 THEN "function" ELSE toks[tag \div 4]

-----------------------------------------------------------------------------
(***************************************************************************)
(* Comments: one on the line of the token before it stays there, one on a  *)
(* line of its own gets one.                                               *)
(***************************************************************************)
SameLineRun(i) ==
  LET Same(c) == toks[c] \in IsComment /\ file[c].line = file[i].line
      n == CHOOSE n \in 0..Len(toks) - i - 1 :
             ~Same(i + n + 1) /\ \A k \in 1..n : Same(i + k)
  IN  [k \in 1..n |-> i + k]

Repeated(n, d) == [k \in 1..n |-> d]
OwnLineComment(c, prev, first) ==
  (IF prev > 0 \/ ~first \/ file[c].blank > 0 THEN <<SoftLine>> ELSE <<>>)
  \o Repeated(file[c].blank, HardLine) \o <<Word(c), CommentLine>>

\* Variant: a line comment does not end its line.
InlineComment(c) == <<Space, Word(c)>>

SameLineComment(c) ==
  <<Space, Word(c)>> \o IF toks[c] = "line comment" THEN <<CommentLine>> ELSE <<>>

InGap(prev, i) == [k \in 1..i - prev - 1 |-> prev + k]
OwnLineRun(i) ==
  LET prev == PrevReal(i - 1)
  IN  SelectSeq(InGap(prev, i), LAMBDA c : prev = 0 \/ file[c].line # file[prev].line)
HasOwnLineComments(i) == OwnLineRun(i) # <<>>
HasSameLineComments(i) == SameLineRun(i) # <<>>
SameLineEndsLine(i) == \E c \in Range(SameLineRun(i)) : toks[c] = "line comment"

SameLineComments(i) ==
  LET run == SameLineRun(i)
  IN  FlattenSeq([k \in DOMAIN run |-> SameLineComment(run[k])])

OwnLineComments(i) ==
  LET run == OwnLineRun(i)
  IN  FlattenSeq([k \in DOMAIN run |-> OwnLineComment(run[k], PrevReal(i - 1), k = 1)])
      \o IF run = <<>> THEN <<>> ELSE Repeated(file[i].blank, HardLine)

\* The comments behind a separator that is dropped.
SuppressedSepComments(i) ==
  LET run == SameLineRun(i)
  IN  FlattenSeq([k \in DOMAIN run |-> OwnLineComment(run[k], i, FALSE)])

CommentsRun(prev, i) ==
  LET gap == InGap(prev, i)
      Same(c) == file[c].line = file[prev].line
  IN  [docs |-> FlattenSeq([k \in DOMAIN gap |->
                  IF Same(gap[k]) THEN SameLineComment(gap[k])
                  ELSE OwnLineComment(gap[k], prev, FALSE)]),
       ended |-> gap # <<>> /\ (Same(Last(gap)) => toks[Last(gap)] = "line comment")]

-----------------------------------------------------------------------------
(***************************************************************************)
(* Runs of tokens.                                                         *)
(***************************************************************************)
Attaches(prev, kind) ==
  \/ kind \in {"}", ")", "]", ">", ",", ";", ":"}
  \/ prev \in {"{", "(", "[", "<", "&", "@"}
  \/ kind = "<" /\ prev \in Container
TokenGap(prev, i) ==
  IF SameLineEndsLine(prev) \/ Attaches(toks[prev], toks[i]) THEN <<>> ELSE <<Space>>

\* Documents in a group, if they are to be one.
Grouped(grouped, tag, docs) == IF grouped THEN <<Group(tag, Concat(docs))>> ELSE docs
FoldBreak(flat) == IfBreak(Line, Concat(flat))

Plain == [leading |-> FALSE, trailing |-> FALSE, skip |-> {}, text |-> Nothing]
Leading == [Plain EXCEPT !.leading = TRUE]
Trailing == [Plain EXCEPT !.trailing = TRUE]
All == [Leading EXCEPT !.trailing = TRUE]
Skipping(i) == [Plain EXCEPT !.skip = {i}]

\* The tokens from one to another, with the comments between them.  The text
\* of a token that is skipped is left out, or replaced.
EmitTokens(from, to, o) ==
  LET real == SelectSeq([k \in 1..to - from + 1 |-> from + k - 1], LAMBDA i : i \in Real)
      last == IF real = <<>> THEN from ELSE Last(real)
      Dropped(i) == i \in o.skip /\ o.text = Nothing
      Before(prev, i) ==
        LET run == CommentsRun(prev, i)
        IN  run.docs \o IF run.ended \/ Dropped(i) THEN <<>> ELSE TokenGap(prev, i)
      Emitted(i) ==
        IF i \notin o.skip THEN <<Word(i)>>
        ELSE IF o.text = Nothing THEN <<>> ELSE <<Forced(o.text)>>
      before == PrevReal(last - 1)
      inline == ~Dropped(last) \/ (before > 0 /\ file[before].line = file[last].line)
  IN  (IF o.leading THEN OwnLineComments(from) ELSE <<>>)
      \o FlattenSeq([k \in DOMAIN real |->
           (IF k = 1 THEN <<>> ELSE Before(real[k - 1], real[k])) \o Emitted(real[k])])
      \o IF ~o.trailing THEN <<>>
         ELSE IF inline THEN SameLineComments(last) ELSE SuppressedSepComments(last)

CommaSep(comma) == EmitTokens(comma, comma, All) \o <<FoldBreak(<<Space>>)>>

\* Variant: the blank lines are written in front of the comments as well.
BlanksTwice(n) == Repeated(file[n.first].blank, HardLine)

BlankLines(n) ==
  IF HasOwnLineComments(n.first) THEN <<>> ELSE Repeated(file[n.first].blank, HardLine)

-----------------------------------------------------------------------------
(***************************************************************************)
(* Separators.                                                             *)
(***************************************************************************)
SepText(sep) == IF options.sep = "preserve" THEN sep ELSE options.sep
SepDoc(sep) == IF SepText(sep) = Nothing THEN <<>> ELSE <<Forced(SepText(sep))>>

Mixed(seps, ks) == \E k \in ks : (seps[k] # Nothing) # (seps[1] # Nothing)
SepForcesBreak(seps) ==
  \/ seps # <<>> /\ options.sep # Nothing /\ Last(seps) # Nothing
  \/ options.sep = "preserve" /\ Mixed(seps, 2..Len(seps) - 1)
SepForcesBreakList(seps) ==
  options.sep = "preserve" /\ Mixed(seps, 2..Len(seps))

\* What follows an item behind its separator.
ItemTrailing(n) ==
  LET before == PrevReal(n.last - 1)
  IN  IF \/ Sep(n) = Nothing \/ SepText(Sep(n)) # Nothing
         \/ before > 0 /\ file[before].line = file[n.last].line
      THEN SameLineComments(n.last) ELSE SuppressedSepComments(n.last)

FieldSep(prev) ==
  IfBreak(Line, Concat(SepDoc(Sep(prev)) \o <<Line>>))

-----------------------------------------------------------------------------
(***************************************************************************)
(* Annotations.                                                            *)
(***************************************************************************)
NoteDoc(n, last) ==
  EmitTokens(n.first, IF Sep(n) = Nothing THEN n.last ELSE n.last - 1, All)
  \o IF Sep(n) # Nothing THEN CommaSep(n.last)
     ELSE IF last THEN <<>> ELSE <<FoldBreak(<<Space>>)>>
SeparatedNotes(items) ==
  FlattenSeq([k \in DOMAIN items |-> NoteDoc(items[k], k = Len(items))])

NotesInside(items) ==
  IF items = <<>> THEN <<>>
  ELSE <<Indent(Concat(<<FoldBreak(<<>>)>> \o SeparatedNotes(items))), FoldBreak(<<>>)>>

AnnotationsDoc(n, padded) ==
  LET found == Members(n, "annotations")
      a == found[1]
      items == Members(a, "annotation")
  IN  IF found = <<>> THEN <<>>
      ELSE <<Space>>
           \o Grouped(items # <<>>, Tag(a.first, padded),
                      EmitTokens(a.first, a.first, All) \o NotesInside(items)
                      \o EmitTokens(a.last, a.last, Leading))
           \o IF a.last = n.last THEN <<>> ELSE SameLineComments(a.last)

\* The end of a node behind its annotations: a separator.
BehindAnnotations(n, o) ==
  LET found == Members(n, "annotations")
  IN  IF found = <<>> \/ found[1].last >= n.last THEN <<>>
      ELSE EmitTokens(NextReal(found[1].last + 1), n.last, o)

-----------------------------------------------------------------------------
(***************************************************************************)
(* Constant values.                                                        *)
(***************************************************************************)
SepBehind(n) ==
  LET i == NextReal(n.last + 1) IN IF toks[i] \in Separator THEN i ELSE 0
Replacing(i) ==
  IF SepText(toks[i]) = toks[i] THEN All
  ELSE [All EXCEPT !.skip = {i}, !.text = SepText(toks[i])]

ItemSep(item) ==
  IF SepBehind(item) = 0 THEN <<FoldBreak(<<Space>>)>>
  ELSE EmitTokens(SepBehind(item), SepBehind(item), Replacing(SepBehind(item)))
       \o <<FoldBreak(<<Space>>)>>

TrailingItemSep(item) ==
  LET i == SepBehind(item)
      text == SepText(IF i = 0 THEN Nothing ELSE toks[i])
  IN  IF i = 0 THEN IF text = Nothing THEN <<>> ELSE <<Forced(text), Space>>
      ELSE EmitTokens(i, i, Replacing(i))
           \o IF text = Nothing \/ SameLineEndsLine(i) THEN <<>> ELSE <<Space>>

ItemsInside(items) ==
  LET Behind(n) == IF SepBehind(n) = 0 THEN Nothing ELSE toks[SepBehind(n)]
      forced == \/ options.brk
                \/ SepForcesBreakList([k \in 1..Len(items) - 1 |-> Behind(items[k])])
  IN  (IF forced THEN <<BreakParent>> ELSE <<>>)
      \o <<Indent(Concat(<<FoldBreak(<<>>)>> \o FlattenSeq([k \in DOMAIN items |->
             (IF k = 1 THEN <<>> ELSE ItemSep(items[k - 1])) \o OwnLineComments(items[k].first)
             \o items[k].docs \o SameLineComments(items[k].last)])))>>
      \o TrailingItemSep(Last(items)) \o <<IfBreak(SoftLine, Concat(<<>>))>>

ConstItems(items, v, padded) ==
  Grouped(items # <<>>, Tag(v.first, padded),
    EmitTokens(v.first, v.first, Trailing)
    \o (IF items = <<>> THEN <<>> ELSE ItemsInside(items))
    \o EmitTokens(v.last, v.last, Leading))

RECURSIVE ConstDoc(_, _)
ConstDoc(v, padded) ==
  LET parts == Members(v, "value")
      Item(n) == [first |-> n.first, last |-> n.last, docs |-> ConstDoc(n, padded)]
      Entry(key, value) == [first |-> key.first, last |-> value.last,
                            docs |-> EmitTokens(key.first, value.last, Plain)]
      items == IF toks[v.first] = "[" THEN [k \in DOMAIN parts |-> Item(parts[k])]
               ELSE [k \in 1..Len(parts) \div 2 |-> Entry(parts[2 * k - 1], parts[2 * k])]
  IN  IF toks[v.first] \in {"[", "{"} THEN ConstItems(items, v, padded)
      ELSE EmitTokens(v.first, v.last, Plain)

-----------------------------------------------------------------------------
(***************************************************************************)
(* Structured annotations: each has its line.                              *)
(***************************************************************************)
StructuredValue(v, name, padded) ==
  IF toks[v.first] \notin {"[", "{"}
  THEN EmitTokens(PrevReal(v.first - 1), NextReal(v.last + 1), Leading)
  ELSE OwnLineComments(v.first)
       \o (IF HasOwnLineComments(v.first) \/ SameLineEndsLine(name) THEN <<>> ELSE <<Space>>)
       \o ConstDoc(v, padded)

StructuredAnno(n, padded) ==
  LET name == NextReal(n.first + 1)
  IN  <<Group(Tag(n.first, padded), Concat(
          EmitTokens(n.first, name, Trailing)
          \o StructuredValue(Members(n, "value")[1], name, padded)))>>
      \o SameLineComments(n.last)

StructuredLead(n, padded) ==
  LET annos == Annos(n.first)
  IN  IF annos = <<>> THEN <<>>
      ELSE FlattenSeq([k \in DOMAIN annos |->
             (IF k = 1 THEN <<>> ELSE OwnLineComments(annos[k].first))
             \o StructuredAnno(annos[k], padded)
             \o IF SameLineEndsLine(annos[k].last) THEN <<>> ELSE <<HardLine>>])
           \o OwnLineComments(ContentStart(n))

-----------------------------------------------------------------------------
(***************************************************************************)
(* Fields and enum values.                                                 *)
(***************************************************************************)
FieldContent(n, padded) ==
  LET found == Members(n, "annotations")
      o == IF Sep(n) = Nothing THEN Plain ELSE Skipping(n.last)
  IN  StructuredLead(n, padded)
      \o IF found = <<>> THEN EmitTokens(ContentStart(n), n.last, o)
         ELSE EmitTokens(ContentStart(n), found[1].first - 1, [o EXCEPT !.trailing = TRUE])
              \o AnnotationsDoc(n, padded)
              \o BehindAnnotations(n, [o EXCEPT !.leading = TRUE])

\* What the fields contain, each written for a body that breaks and for one
\* that does not.
Contents(ns) ==
  [k \in DOMAIN ns |-> [padded \in BOOLEAN |-> FieldContent(ns[k], padded)]]

\* An item of a body, or, with no body to depend on, of a list that breaks.
FieldDoc(n, content, body) ==
  LET broken == content[TRUE] \o SepDoc(Sep(n))
  IN  OwnLineComments(n.first)
      \o (IF body = None THEN broken
          ELSE <<IfBreakFor(body, Concat(broken), Concat(content[FALSE]))>>)
      \o ItemTrailing(n)

\* Items, and what is between two of them.
ItemsDoc(ns, contents, body) ==
  FlattenSeq([k \in DOMAIN ns |->
    (IF k = 1 THEN <<>> ELSE <<IF body = None THEN Line ELSE FieldSep(ns[k - 1])>>)
    \o BlankLines(ns[k]) \o FieldDoc(ns[k], contents[k], body)])

OpenBrace(i) ==
  <<Space, Word(i)>> \o SameLineComments(i)
  \o IF HasSameLineComments(i) THEN <<BreakParent>> ELSE <<>>
CloseBrace(n, i) == EmitTokens(i, i, IF i = n.last THEN Plain ELSE Trailing)

BracedGroup(n, items, open, close) ==
  LET tag == Tag(open, FALSE)
      some == items # <<>>
      forced == some /\ (options.brk \/ SepForcesBreak(Seps(items)))
  IN  Group(tag, Concat(
        (IF forced THEN <<BreakParent>> ELSE <<>>) \o OpenBrace(open)
        \o <<Indent(Concat(
               (IF some THEN <<Line>> \o ItemsDoc(items, Contents(items), tag) ELSE <<>>)
               \o OwnLineComments(close))),
             IfBreak(SoftLine, Concat(IF some THEN <<Space>> ELSE <<>>))>>
        \o CloseBrace(n, close)))

BodyHeader(n, open) ==
  StructuredLead(n, FALSE) \o EmitTokens(ContentStart(n), open, Skipping(open))
Open(n) == ScanKind(ContentStart(n), n.last, "{")
CloseOf(n) == ScanKind(Open(n) + 1, n.last, "}")

\* Structs, unions, exceptions and enums.
BodyDoc(n, kind) ==
  BodyHeader(n, Open(n)) \o <<BracedGroup(n, Members(n, kind), Open(n), CloseOf(n))>>
  \o AnnotationsDoc(n, FALSE) \o BehindAnnotations(n, Leading)

-----------------------------------------------------------------------------
(***************************************************************************)
(* Functions.                                                              *)
(***************************************************************************)
\* Variant: a comment behind a parameter is thought to be kept when flat.
ForcedByLeading(ns) ==
  \E n \in Range(ns) : Annos(n.first) # <<>> \/ file[n.first].blank >= 1 \/ HasOwnLineComments(n.first)

FieldsForcedBroken(ns) ==
  /\ ns # <<>>
  /\ \/ HasSameLineComments(PrevReal(ns[1].first - 1))
     \/ HasOwnLineComments(NextReal(Last(ns).last + 1))
     \/ \E n \in Range(ns) : \/ Annos(n.first) # <<>> \/ file[n.first].blank >= 1
                             \/ HasOwnLineComments(n.first) \/ HasSameLineComments(n.last)
MustBreak(ns) == FieldsForcedBroken(ns) \/ SepForcesBreak(Seps(ns)) \/ options.brk

ParenClose(ns, open) ==
  NextReal(IF ns = <<>> THEN open + 1 ELSE Last(ns).last + 1)

BrokenFields(ns, contents) == ItemsDoc(ns, contents, None)
FlatFieldsJoin(ns, contents) ==
  FlattenSeq([k \in DOMAIN ns |->
    (IF k = 1 THEN <<>> ELSE SepDoc(Sep(ns[k - 1])) \o <<Line>>) \o contents[k][FALSE]])

ParenGroup(ns, contents, open, close, forced) ==
  LET opened == <<Word(open)>> \o SameLineComments(open)
      broken ==
        IF ns = <<>> THEN opened \o EmitTokens(close, close, Leading)
        ELSE opened
             \o <<Indent(Concat(<<Line>> \o BrokenFields(ns, contents) \o OwnLineComments(close))),
                  Line, Word(close)>>
  IN  Group(Tag(open, FALSE), IfBreak(
        Concat(broken \o IF forced THEN <<BreakParent>> ELSE <<>>),
        Concat(opened \o FlatFieldsJoin(ns, contents) \o <<Word(close)>>)))

Throws(n) == Members(n, "throws")
ThrowsDoc(n) ==
  IF Throws(n) = <<>> THEN <<>>
  ELSE LET t == Throws(n)[1]
           ns == Members(t, "field")
       IN  <<Space, Word(PrevReal(t.first - 1)), Space,
             ParenGroup(ns, Contents(ns), t.first, t.last, MustBreak(ns))>>

FunctionTail(n, open) ==
  LET argsClose == ParenClose(Members(n, "field"), open)
      close == IF Throws(n) = <<>> THEN argsClose ELSE Throws(n)[1].last
      notes == Members(n, "annotations")
      next == IF notes = <<>> THEN close + 1 ELSE notes[1].last + 1
      Trail(i) == IF i < n.last THEN SameLineComments(i) ELSE <<>>
  IN  Trail(argsClose) \o (IF Throws(n) = <<>> THEN <<>> ELSE Trail(close))
      \o (IF notes = <<>> \/ close + 1 >= notes[1].first THEN <<>>
          ELSE EmitTokens(close + 1, PrevReal(notes[1].first - 1), Leading))
      \o AnnotationsDoc(n, FALSE)
      \o IF next > n.last THEN <<>> ELSE EmitTokens(NextReal(next), n.last, Leading)

FunctionDoc(n) ==
  LET open == ScanKind(ContentStart(n), n.last, "(")
      args == Members(n, "field")
      forced == MustBreak(args)
  IN  OwnLineComments(n.first) \o StructuredLead(n, FALSE)
      \o Grouped(~forced, FunctionTag(n),
           EmitTokens(ContentStart(n), open, Skipping(open))
           \o <<ParenGroup(args, Contents(args), open, ParenClose(args, open), forced)>>
           \o ThrowsDoc(n) \o FunctionTail(n, open))
      \o SameLineComments(n.last)

ServiceDoc(n) ==
  LET open == Open(n)
      close == CloseOf(n)
      fs == Members(n, "function")
      lead == IF fs # <<>> THEN <<Line>>
              ELSE IF HasOwnLineComments(close) THEN <<>>
              ELSE Repeated(file[close].blank, HardLine)
  IN  BodyHeader(n, open) \o OpenBrace(open)
      \o <<Indent(Concat(
             lead \o FlattenSeq([k \in DOMAIN fs |->
               (IF k = 1 THEN <<>> ELSE <<Line>>) \o BlankLines(fs[k]) \o FunctionDoc(fs[k])])
             \o OwnLineComments(close))),
           AfterCommentLine>>
      \o CloseBrace(n, close) \o AnnotationsDoc(n, FALSE)

-----------------------------------------------------------------------------
(***************************************************************************)
(* The other definitions, and the document.                                *)
(***************************************************************************)
HeaderWithAnnotations(n) ==
  LET found == Members(n, "annotations")
  IN  StructuredLead(n, FALSE)
      \o (IF found = <<>> THEN EmitTokens(ContentStart(n), n.last, Plain)
          ELSE EmitTokens(ContentStart(n), found[1].first - 1, Trailing))
      \o AnnotationsDoc(n, FALSE) \o BehindAnnotations(n, Leading)

ConstantDoc(n) ==
  LET v == Members(n, "value")[1]
      eq == PrevReal(v.first - 1)
  IN  StructuredLead(n, FALSE) \o EmitTokens(ContentStart(n), eq, Trailing)
      \o TokenGap(eq, v.first) \o OwnLineComments(v.first) \o ConstDoc(v, FALSE)
      \o IF v.last = n.last THEN <<>>
         ELSE SameLineComments(v.last) \o EmitTokens(NextReal(v.last + 1), n.last, Leading)

NodeBody(n) ==
  LET kind == toks[ContentStart(n)]
  IN  CASE kind \in {"include", "cpp_include"} -> EmitTokens(n.first, n.last, Plain)
        [] kind \in {"namespace", "typedef"} -> HeaderWithAnnotations(n)
        [] kind = "const" -> ConstantDoc(n)
        [] kind = "service" -> ServiceDoc(n)
        [] OTHER -> BodyDoc(n, IF kind = "enum" THEN "enum value" ELSE "field")

NodeDoc(n) == OwnLineComments(n.first) \o NodeBody(n) \o SameLineComments(n.last)

DocumentDoc ==
  Concat(FlattenSeq([k \in DOMAIN doc |->
           (IF k = 1 THEN <<>> ELSE <<Line>> \o BlankLines(doc[k])) \o NodeDoc(doc[k])])
         \o OwnLineComments(Len(toks)) \o <<Line>>)

-----------------------------------------------------------------------------
(***************************************************************************)
(* Printing, as in Printer but in one step: r is what is written, whether  *)
(* the last line ended a comment, how each group was printed, and the      *)
(* groups that break in any case.                                          *)
(***************************************************************************)
Newline == [kind |-> "newline", id |-> 0]
RECURSIVE Trimmed(_)
Trimmed(o) == IF o # <<>> /\ Last(o) = Gap THEN Trimmed(Front(o)) ELSE o

NewLine(r, line) ==
  LET written == Trimmed(r.out)
      ended == written # <<>> /\ Last(written) = Newline
  IN  IF ~line.hard /\ ended /\ (line.afterComment => r.ended)
      THEN [r EXCEPT !.out = written]
      ELSE [r EXCEPT !.out = Append(written, Newline),
                     !.ended = line.comment \/ (line.hard /\ @)]

RECURSIVE Render(_, _, _), RenderAll(_, _, _)
RenderAll(r, ds, mode) ==
  IF ds = <<>> THEN r ELSE RenderAll(Render(r, Head(ds), mode), Tail(ds), mode)
Render(r, d, mode) ==
  LET breaks == d.tag \in r.brk \/ (mode = "break" /\ OpenedBy(d.tag) \in options.wide)
      chosen == IF breaks THEN "break" ELSE "flat"
      asked == IF d.tag = None THEN mode ELSE r.modes[d.tag]
  IN  CASE d.op = "text" -> [r EXCEPT !.out = Append(@, d.tag), !.ended = FALSE]
        [] d.op = "concat" -> RenderAll(r, d.parts, mode)
        [] d.op = "indent" -> Render(r, d.of, mode)
        [] d.op = "group" -> Render([r EXCEPT !.modes = (d.tag :> chosen) @@ @], d.of, chosen)
        [] d.op = "ifBreak" -> Render(r, IF asked = "break" THEN d.broken ELSE d.flat, mode)
        [] d.op = "line" ->
             IF mode = "break" \/ d.hard THEN NewLine(r, d)
             ELSE IF d.soft THEN r ELSE [r EXCEPT !.out = Append(@, Gap)]
        [] OTHER -> r

Printed(d) ==
  Render([out |-> <<>>, ended |-> FALSE, modes |-> <<>>, brk |-> PropagateBreaks(d)],
         d, "break").out

-----------------------------------------------------------------------------
(***************************************************************************)
(* What the lexer makes of the output: a line comment takes the rest of    *)
(* its line, and words without a space between them are one.               *)
(***************************************************************************)
WordKind == IsKeyword \cup {"identifier", "int"}
Merges(prev, kind) == {prev, kind} \subseteq WordKind /\ (prev = "int" => kind = "int")

Relexed(o) ==
  LET Begin == [ts |-> <<>>, line |-> 1, breaks |-> 0, glued |-> FALSE]
      InComment(l) == l.ts # <<>> /\ Last(l.ts).kind = "line comment" /\ l.breaks = 0
      Token(l, t) == [kind |-> t.kind, id |-> t.id, line |-> l.line,
                      blank |-> IF l.breaks > 0 THEN l.breaks - 1 ELSE 0]
      Read(l, t) ==
        CASE t = Newline -> [l EXCEPT !.line = @ + 1, !.breaks = @ + 1, !.glued = FALSE]
          [] t = Gap -> [l EXCEPT !.glued = FALSE]
          [] t \notin {Newline, Gap} /\ InComment(l) -> l
          [] t \notin {Newline, Gap} /\ ~InComment(l) ->
               IF l.glued /\ Merges(Last(l.ts).kind, t.kind) THEN l
               ELSE [l EXCEPT !.ts = Append(@, Token(l, t)), !.breaks = 0, !.glued = TRUE]
      end == FoldLeft(Read, Begin, o)
  IN  Append(end.ts, Token(end, [kind |-> "eof", id |-> 0]))

-----------------------------------------------------------------------------
Start == [pos |-> 1, errs |-> {}, nodes |-> {}, ok |-> TRUE]
KindsIn(ts) == [i \in DOMAIN ts |-> ts[i].kind]

\* The tree, by the identities of the tokens.
Tree == {[kind |-> Spelling(n.kind),
          ids |-> {file[i].id : i \in {j \in Covers(n) : toks[j] \notin Separator}}]
         : n \in p.nodes}

LayoutInit ==
  /\ \E input \in Inputs : source = input.file /\ options = input.options
  /\ file = source /\ toks = KindsIn(file)
  /\ p = Start /\ doc = <<>>
  /\ tree = {} /\ output = <<>> /\ passes = 0

Parse == passes < Passes /\ Next /\ UNCHANGED <<file, options, source, tree, output, passes>>

\* A file with errors is left as it is.
Format ==
  /\ AtEnd /\ Errors = {} /\ passes < Passes
  /\ output' = Printed(DocumentDoc)
  /\ file' = Relexed(output')
  /\ toks' = KindsIn(file')
  /\ p' = Start /\ doc' = <<>>
  /\ tree' = Tree
  /\ passes' = passes + 1
  /\ UNCHANGED <<options, source>>

LayoutNext == Parse \/ Format
LayoutSpec == LayoutInit /\ [][LayoutNext]_layoutVars

-----------------------------------------------------------------------------
Respelled(ts, without) ==
  LET kept == SelectSeq(ts, LAMBDA t : t.kind \notin without)
  IN  [i \in DOMAIN kept |-> [kind |-> Spelling(kept[i].kind), id |-> kept[i].id]]

\* Every word and every comment of the file is in what is written, once and
\* in order, and a lexer finds it there again ("every comment survives
\* formatting"); and where separators are preserved, every separator is where
\* it was among the words: only a comment may change sides with it.
NothingLost ==
  passes > 0 =>
    /\ Respelled(file, Separator) = Respelled(source, Separator)
    /\ options.sep = "preserve" => Respelled(file, IsComment) = Respelled(source, IsComment)

\* What was formatted is parsed again without an error, into the same tree:
\* no separator that was dropped and no line that was joined makes a token
\* part of another phrase.
OutputParses == passes > 0 /\ AtEnd => Errors = {} /\ Tree = tree

\* A file that was formatted is not changed by formatting it again.
FormattingSettles == [][passes > 0 /\ passes' > passes => output' = output]_layoutVars
=============================================================================
