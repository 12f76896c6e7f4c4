------------------------------- MODULE Parser -------------------------------
(***************************************************************************)
(* syntax.ParseTokens: the recursive descent parser.  A token is its kind. *)
(* The state s of the parser is a record: the next token it has not        *)
(* consumed (pos), the errors so far (errs), the nodes of the tree (nodes, *)
(* each the tokens from first to last), and whether the production that    *)
(* ran last gave a node (ok).  A production maps a state to a state and    *)
(* does nothing to one in which the production before it failed, so that a *)
(* sequence of them reads, from the inside out, like the grammar.  One     *)
(* step of the machine is one turn of the loop over the definitions.       *)
(***************************************************************************)
EXTENDS Integers, Sequences, FiniteSetsExt, Grammar

VARIABLES
  toks,   \* the tokens, ended by the only "eof"
  p,      \* the state of the parser
  doc     \* the definitions of the document, in order

vars == <<toks, p, doc>>

Separator == {",", ";"}
Container == {"map", "list", "set"}
Base == {"i32", "byte", "slist"}     \* one of the others, and the deprecated
Definition == {"namespace", "const", "typedef", "enum", "struct", "union",
               "exception", "service"}
Header == Definition \cup {"include", "cpp_include"}
IsKeyword == Header \cup Container \cup Base \cup
  {"cpp_type", "oneway", "async", "throws", "extends", "required", "optional",
   "void", "true"}

-----------------------------------------------------------------------------
(***************************************************************************)
(* The helpers on tokens.  Comments are tokens that no production sees.    *)
(***************************************************************************)
IsComment == {"line comment", "block comment", "doc comment"}
Real == {i \in DOMAIN toks : toks[i] \notin IsComment}
NextReal(i) == Min({j \in Real : j >= i})
At(s, kinds) == toks[NextReal(s.pos)] \in kinds
PeekAfter(s) == toks[NextReal(NextReal(s.pos) + 1)]
Advance(s) == [s EXCEPT !.pos = NextReal(s.pos) + 1]

ErrorAt(s, i) == [s EXCEPT !.errs = @ \cup {[at |-> i, severity |-> "error"]}]
Error(s) == ErrorAt(s, NextReal(s.pos))
Warn(s) == [s EXCEPT !.errs = @ \cup {[at |-> s.pos - 1, severity |-> "warning"]}]
Fail(s) == [s EXCEPT !.ok = FALSE]
Resume(s) == [s EXCEPT !.ok = TRUE]

\* expect, where a miss ends the production, and where it is only reported.
Take(s, kinds) ==
  IF ~s.ok THEN s ELSE IF At(s, kinds) THEN Advance(s) ELSE Fail(Error(s))
Close(s, kind) ==
  IF ~s.ok THEN s ELSE IF At(s, {kind}) THEN Advance(s) ELSE Error(s)
Accept(s, kinds) == IF s.ok /\ At(s, kinds) THEN Advance(s) ELSE s

\* The position is left behind the last token skipped, comments not included.
SynchronizeTo(s, kinds) ==
  LET stop == Min({i \in Real : i >= s.pos /\ toks[i] \in kinds \cup {"eof"}})
      skipped == {i \in Real : s.pos <= i /\ i < stop}
  IN  IF skipped = {} THEN s ELSE [s EXCEPT !.pos = Max(skipped) + 1]

EntryEnd == {",", ";", "}", ")"}

\* Variant: the separator a malformed entry ends with is left in place only
\* to be skipped together with the entry behind it.
RecoverOneMore(s, term) ==
  LET r == SynchronizeTo(Resume(s), Separator \cup {term})
  IN  IF At(r, {term, "eof"}) THEN r ELSE SynchronizeTo(Advance(r), Separator \cup {term})

RecoverEntry(s, term) ==
  LET r == SynchronizeTo(Resume(s), Separator \cup {term})
  IN  IF At(r, {term, "eof"}) THEN r ELSE Advance(r)

\* Variant: a node leaves out the separator it ends with.
NodeBeforeSeparator(kind, from, s) ==
  [kind |-> kind, first |-> NextReal(from.pos),
   last |-> IF toks[s.pos - 1] \in Separator THEN s.pos - 2 ELSE s.pos - 1]

\* A production that began in state from and is now in state s ends: with a
\* node, or, when it failed, without one and without those below it.
Node(kind, from, s) ==
  [kind |-> kind, first |-> NextReal(from.pos), last |-> s.pos - 1]
Done(kind, from, s) ==
  IF s.ok THEN [s EXCEPT !.nodes = @ \cup {Node(kind, from, s)}]
          ELSE [s EXCEPT !.nodes = from.nodes]

Name(s) == Done("name", s, Take(s, {"identifier"}))

-----------------------------------------------------------------------------
(***************************************************************************)
(* Constant values, annotations and types.                                 *)
(***************************************************************************)
RECURSIVE ConstValue(_), Items(_), Entries(_)

Items(s) ==
  IF At(s, {"]", "eof"}) THEN s
  ELSE LET item == ConstValue(s)
       IN  Items(IF item.ok THEN Accept(item, Separator) ELSE RecoverEntry(item, "]"))

Entries(s) ==
  IF At(s, {"}", "eof"}) THEN s
  ELSE LET entry == ConstValue(Take(ConstValue(s), {":"}))
       IN  Entries(IF entry.ok THEN Accept(entry, Separator)
                   ELSE RecoverEntry([entry EXCEPT !.nodes = s.nodes], "}"))

ConstValue(s) ==
  IF ~s.ok THEN s
  ELSE IF At(s, {"int", "true", "double", "string", "identifier"})
       THEN Done("value", s, Advance(s))
  ELSE IF At(s, {"["}) THEN Done("value", s, Close(Items(Advance(s)), "]"))
  ELSE IF At(s, {"{"}) THEN Done("value", s, Close(Entries(Advance(s)), "}"))
  ELSE Fail(Error(s))

RECURSIVE AnnotationItems(_)
AnnotationItems(s) ==
  LET name == Name(s)
      equal == Advance(name)
      value == IF ~At(name, {"="}) THEN name
               ELSE IF At(equal, {"string"}) THEN Advance(equal)
               ELSE SynchronizeTo(Error(equal), Separator \cup {")"})
  IN  IF At(s, {")", "eof"}) THEN s
      ELSE AnnotationItems(IF ~name.ok THEN RecoverEntry(name, ")")
                           ELSE Done("annotation", s, Accept(value, Separator)))

Annotations(s) ==
  IF ~s.ok \/ ~At(s, {"("}) THEN s
  ELSE Done("annotations", s, Close(AnnotationItems(Advance(s)), ")"))

\* The annotations before a definition, a function or a field.  One without
\* a name ends the list, and its "@" is part of no node.
RECURSIVE Structured(_)
Structured(s) ==
  LET name == Name(Advance(s))
      scalar == ConstValue(Advance(name))
      closed == Close(Resume(scalar), ")")
      value == IF At(name, {"{", "["}) THEN ConstValue(name)
               ELSE IF ~At(name, {"("}) THEN Error(name)
               ELSE IF scalar.ok /\ At(Advance(name), {"{", "["})
                    THEN ErrorAt(closed, NextReal(Advance(name).pos))
               ELSE closed
  IN  IF ~At(s, {"@"}) THEN s
      ELSE IF ~name.ok THEN Resume(name)
      ELSE Structured(Done("structured", s, value))

\* The state whose next token is the first of what the annotations belong to.
Annotated(s, t) ==
  IF \E n \in t.nodes \ s.nodes : n.kind = "structured" THEN s ELSE t

Deprecated(s) == IF toks[s.pos - 1] \in {"byte", "slist"} THEN Warn(s) ELSE s

RECURSIVE FieldType(_)
Element(s, stops) ==
  LET type == FieldType(s)
  IN  IF type.ok THEN type ELSE SynchronizeTo(Resume(type), stops)

ContainerType(s) ==
  LET head == Advance(s)
      cpp == IF ~At(head, {"cpp_type"}) THEN head ELSE Close(Advance(head), "string")
      open == Take(cpp, {"<"})
      key == Element(open, {",", ">"})
      elements == IF ~At(s, {"map"}) THEN Element(open, {">"})
                  ELSE IF At(key, {","}) THEN Element(Advance(key), {">"})
                  ELSE SynchronizeTo(Error(key), {">"})
      closed == IF open.ok THEN Take(elements, {">"}) ELSE open
  IN  IF closed.ok THEN Done("type", s, Annotations(closed))
      ELSE Done("type", s, SynchronizeTo(closed, EntryEnd))

FieldType(s) ==
  IF ~s.ok THEN s
  ELSE IF At(s, Container) THEN ContainerType(s)
  ELSE IF At(s, {"identifier"}) THEN Done("type", s, Name(s))
  ELSE IF At(s, Base) THEN Done("type", s, Annotations(Deprecated(Advance(s))))
  ELSE Fail(Error(s))

-----------------------------------------------------------------------------
(***************************************************************************)
(* Fields and functions.                                                   *)
(***************************************************************************)
FieldId(s) ==
  IF At(s, {"int"}) /\ PeekAfter(s) = ":" THEN Advance(Advance(s)) ELSE s
Default(s) == IF s.ok /\ At(s, {"="}) THEN ConstValue(Advance(s)) ELSE s

\* Variant: a keyword is no name.
IdentifierOnly(s) == Name(s)

\* Field names may be keywords: the compiler accepts them there.
FieldName(s) == Done("name", s, Take(s, {"identifier"} \cup IsKeyword))

FieldBody(s) ==
  Default(FieldName(Accept(
    FieldType(Accept(FieldId(s), {"required", "optional"})), {"&"})))

\* What a field without its body left in state s has added is given up.
EndField(s, from, body) ==
  IF body.ok THEN Done("field", from, Accept(Annotations(body), Separator))
  ELSE SynchronizeTo([body EXCEPT !.nodes = s.nodes], EntryEnd)
Field(s) ==
  LET notes == Structured(s) IN EndField(s, Annotated(s, notes), FieldBody(notes))

NextField(f, term) == IF f.ok THEN f ELSE RecoverEntry(f, term)

RECURSIVE Fields(_, _)
Fields(s, term) ==
  IF At(s, {term, "eof"}) THEN s ELSE Fields(NextField(Field(s), term), term)

FieldList(s, term) == IF s.ok THEN Close(Fields(s, term), term) ELSE s

Oneway(s) ==
  IF At(s, {"async"}) THEN Warn(Advance(s)) ELSE Accept(s, {"oneway"})
ReturnType(s) == IF At(s, {"void"}) THEN Advance(s) ELSE FieldType(s)

\* The parenthesis that opens the list is the first token of the clause.
ThrowsClause(s) ==
  IF ~s.ok \/ ~At(s, {"throws"}) THEN s
  ELSE LET open == Take(Advance(s), {"("})
       IN  IF ~open.ok THEN SynchronizeTo(open, {})
           ELSE Done("throws", [s EXCEPT !.pos = open.pos - 1], FieldList(open, ")"))

\* What follows the name of a function.
Signature(name) ==
  LET open == Take(name, {"("})
  IN  IF ~name.ok THEN SynchronizeTo(name, {"("})
      ELSE IF ~open.ok THEN SynchronizeTo(open, {})
      ELSE ThrowsClause(FieldList(open, ")"))

EndFunction(s, from, signature) ==
  IF signature.ok
  THEN Done("function", from, Accept(Annotations(signature), Separator))
  ELSE [signature EXCEPT !.nodes = s.nodes]
Function(s) ==
  LET notes == Structured(s)
  IN  EndFunction(s, Annotated(s, notes), Signature(Name(ReturnType(Oneway(notes)))))

\* What follows a bad function: its parameter list is skipped.
NextFunction(f) ==
  IF f.ok THEN f ELSE Accept(Resume(SynchronizeTo(f, {")", "}"})), {")"})

RECURSIVE Functions(_)
Functions(s) ==
  IF At(s, {"}", "eof"}) THEN s ELSE Functions(NextFunction(Function(s)))

EnumValue(s) ==
  LET name == Name(s)
      value == IF name.ok /\ At(name, {"="}) THEN Close(Advance(name), "int") ELSE name
  IN  Done("enum value", s, Accept(Annotations(value), Separator))

NextValue(v) == IF v.ok THEN v ELSE SynchronizeTo(Resume(v), {"}"})

RECURSIVE EnumValues(_)
EnumValues(s) ==
  IF At(s, {"}", "eof"}) THEN s ELSE EnumValues(NextValue(EnumValue(s)))

-----------------------------------------------------------------------------
(***************************************************************************)
(* The definitions.  from is the state in front of the annotations that    *)
(* the definition has, or s.  One that fails gives up the rest of the      *)
(* document.                                                               *)
(***************************************************************************)
Define(from, s) ==
  Done(toks[NextReal(from.pos)], from, IF s.ok THEN s ELSE SynchronizeTo(s, {}))

ParseInclude(from, s) ==
  LET path == Take(Advance(s), {"string"})
  IN  Done(toks[NextReal(from.pos)], from,
           IF path.ok \/ At(path, {"eof"}) THEN path ELSE Advance(path))

ParseNamespace(from, s) ==
  Define(from, Annotations(Name(Take(Advance(s), {"identifier", "*"}))))

ParseConst(from, s) ==
  Define(from,
    Accept(ConstValue(Take(Name(FieldType(Advance(s))), {"="})), Separator))

ParseTypedef(from, s) ==
  Define(from, Accept(Annotations(Name(FieldType(Advance(s)))), Separator))

\* A body that is missing is reported, and the node stays.
WithBody(from, name, body) ==
  Define(from, IF name.ok THEN Annotations(IF At(name, {"{"}) THEN body ELSE Error(name))
               ELSE name)

ParseEnum(from, s) ==
  LET name == Name(Advance(s))
  IN  WithBody(from, name, Close(EnumValues(Advance(name)), "}"))

ParseStruct(from, s) ==
  LET name == Name(Advance(s)) IN WithBody(from, name, FieldList(Advance(name), "}"))

\* A missing base is forgiven when a body follows somewhere.
Extends(s) ==
  LET base == Name(Advance(s))
      found == SynchronizeTo(base, {"{"})
  IN  IF ~s.ok \/ ~At(s, {"extends"}) THEN s
      ELSE IF base.ok THEN base
      ELSE IF At(found, {"{"}) THEN Resume(found) ELSE found

ParseService(from, s) ==
  LET name == Extends(Name(Advance(s)))
  IN  WithBody(from, name, Close(Functions(Advance(name)), "}"))

-----------------------------------------------------------------------------
(***************************************************************************)
(* The document: one definition a step, with the annotations before it.    *)
(* Includes take none.                                                     *)
(***************************************************************************)
AppendNode(from, s) ==
  /\ doc' = IF s.ok THEN Append(doc, Node(toks[NextReal(from.pos)], from, s)) ELSE doc
  /\ p' = Resume(s)
  /\ UNCHANGED toks

\* The node is found again by its first token: see attachStructured.
Notes == Structured(p)
From == Annotated(p, Notes)
DefinitionOf(kinds, s) == At(Notes, kinds) /\ AppendNode(From, s)

Include == At(p, {"include", "cpp_include"}) /\ AppendNode(p, ParseInclude(p, p))
Namespace == DefinitionOf({"namespace"}, ParseNamespace(From, Notes))
Const == DefinitionOf({"const"}, ParseConst(From, Notes))
Typedef == DefinitionOf({"typedef"}, ParseTypedef(From, Notes))
Enum == DefinitionOf({"enum"}, ParseEnum(From, Notes))
Struct == DefinitionOf({"struct", "union", "exception"}, ParseStruct(From, Notes))
Service == DefinitionOf({"service"}, ParseService(From, Notes))

\* Variant: the token that is in the way is reported and left there.
ReportOnly == Error([Notes EXCEPT !.nodes = p.nodes])

\* Anything else is skipped up to the next token that can begin something.
SkipToHeader == SynchronizeTo(Error([Notes EXCEPT !.nodes = p.nodes]), Header)

Unexpected ==
  /\ ~At(p, {"eof", "include", "cpp_include"})
  /\ ~At(Notes, Definition)
  /\ p' = SkipToHeader
  /\ UNCHANGED <<toks, doc>>

Init ==
  /\ toks = <<"eof">>
  /\ p = [pos |-> 1, errs |-> {}, nodes |-> {}, ok |-> TRUE]
  /\ doc = <<>>

Next ==
  Include \/ Namespace \/ Const \/ Typedef \/ Enum \/ Struct \/ Service \/ Unexpected

Spec == Init /\ [][Next]_vars

-----------------------------------------------------------------------------
AtEnd == At(p, {"eof"})
Errors == {e.at : e \in {x \in p.errs : x.severity = "error"}}

\* The real tokens by rank, for the grammar knows no comments.
Index == SelectSeq([i \in DOMAIN toks |-> i], LAMBDA i : i \in Real)
Kinds == [k \in DOMAIN Index |-> toks[Index[k]]]
Rank(i) == CHOOSE k \in DOMAIN Index : Index[k] = i
Covers(n) == {i \in Real : n.first <= i /\ i <= n.last}

\* ParseTokens reports an error exactly when the document is not one of the
\* grammar's: nothing valid is refused, nothing invalid passes (Parse, and
\* through it the formatter, goes by the errors alone).
ErrorFreeIsGrammatical == AtEnd => (Errors = {} <=> Grammatical(Kinds))

\* A malformed field costs that field alone: in a struct without brackets
\* of any other kind, every field that ends in a separator of its own and
\* follows the brace or a separator is in the tree (recoverEntry).
Brackets == {"{", "}", "(", ")", "[", "]", "<", ">"}
FieldsKept ==
  \A k \in DOMAIN doc :
    LET ranks == {Rank(i) : i \in Covers(doc[k])}
        brackets == {m \in ranks : Kinds[m] \in Brackets}
        open == Min({m \in ranks : Kinds[m] = "{"})
        starts == {m + 1 : m \in {x \in ranks : x = open \/ (x > open /\ Kinds[x] \in Separators)}}
    IN  doc[k].kind \in {"struct", "union", "exception"}
          /\ {m \in brackets : Kinds[m] = "{"} # {} /\ Cardinality(brackets) <= 2
        => \A m \in starts : \A j \in FieldPhrases(Kinds, {m}) :
             j - 1 \in ranks /\ Kinds[j - 1] \in Separators
               => \E n \in p.nodes : n.kind = "field" /\ n.first = Index[m] /\ n.last = Index[j - 1]

\* "Skip the bad function's parameter list, if any, so later functions still
\* parse" (parseService): a function that follows the parameter list of a
\* bad one is in the tree.
LaterFunctionsKept ==
  AtEnd =>
    \A k \in DOMAIN doc :
      LET ranks == {Rank(i) : i \in Covers(doc[k])}
          ends == {m \in ranks : Kinds[m] = ")"}
      IN  doc[k].kind = "service"
          => \A m \in ends : \A j \in FunctionPhrases(Kinds, Opt(Kinds, {m + 1}, Separators)) :
               j - 1 \in ranks /\ Kinds[j - 1] = ")"
                 => \E n \in p.nodes : n.kind = "function" /\ Index[j - 1] \in Covers(n)

\* Every turn of the loop over the definitions consumes a token, whatever it
\* is and however the turn ends, so that every document is read to its end:
\* no recovery leaves the parser where it was.
Progress == [][p'.pos > p.pos]_p

=============================================================================
