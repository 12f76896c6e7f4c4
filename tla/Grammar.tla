------------------------------ MODULE Grammar -------------------------------
(***************************************************************************)
(* The grammar of the language, apart from any way to parse it.  r is a    *)
(* sequence of kinds of tokens without comments, and a set S stands for    *)
(* the places at which a phrase may begin: an operator gives the places at *)
(* which such a phrase may end, so that alternatives are unions, and a     *)
(* sequence of phrases is read from the inside out.                        *)
(***************************************************************************)
EXTENDS Integers, Sequences

Tok(r, S, kinds) == {i + 1 : i \in {j \in S \cap DOMAIN r : r[j] \in kinds}}
Opt(r, S, kinds) == S \cup Tok(r, S, kinds)

Bases == {"i32", "byte", "slist"}
Words == Bases \cup {"map", "list", "set", "namespace", "const", "typedef", "enum",
  "struct", "union", "exception", "service", "include", "cpp_include", "cpp_type",
  "oneway", "async", "throws", "extends", "required", "optional", "void", "true"}
Separators == {",", ";"}
Scalars == {"int", "true", "double", "string", "identifier"}

RECURSIVE Values(_, _), ValueList(_, _), ValueMap(_, _)
Values(r, S) ==
  IF S = {} THEN {}
  ELSE Tok(r, S, Scalars)
       \cup Tok(r, ValueList(r, Tok(r, S, {"["})), {"]"})
       \cup Tok(r, ValueMap(r, Tok(r, S, {"{"})), {"}"})
ValueList(r, S) ==
  IF S = {} THEN {}
  ELSE S \cup ValueList(r, Opt(r, Values(r, S), Separators))
ValueMap(r, S) ==
  IF S = {} THEN {}
  ELSE S \cup ValueMap(r,
                Opt(r, Values(r, Tok(r, Values(r, S), {":"})), Separators))

RECURSIVE NoteItems(_, _), Markers(_, _)
NoteItems(r, S) ==
  LET name == Tok(r, S, {"identifier"})
  IN  IF S = {} THEN {}
      ELSE S \cup NoteItems(r,
             Opt(r, name \cup Tok(r, Tok(r, name, {"="}), {"string"}), Separators))
Suffix(r, S) == S \cup Tok(r, NoteItems(r, Tok(r, S, {"("})), {")"})
Markers(r, S) ==
  LET name == Tok(r, Tok(r, S, {"@"}), {"identifier"})
      bracket == {i \in name \cap DOMAIN r : r[i] \in {"{", "["}}
  IN  IF S = {} THEN {}
      ELSE S \cup Markers(r,
             Values(r, bracket) \cup Tok(r, Tok(r, Tok(r, name, {"("}), Scalars), {")"}))

RECURSIVE Types(_, _)
Types(r, S) ==
  LET Opened(kinds) ==
        LET head == Tok(r, S, kinds)
        IN  Tok(r, head \cup Tok(r, Tok(r, head, {"cpp_type"}), {"string"}), {"<"})
      key == Types(r, Opened({"map"}))
      elements == Types(r, Opened({"list", "set"})) \cup Types(r, Tok(r, key, {","}))
  IN  IF S = {} THEN {}
      ELSE Tok(r, S, {"identifier"})
           \cup Suffix(r, Tok(r, S, Bases) \cup Tok(r, elements, {">"}))

FieldPhrases(r, S) ==
  LET id == S \cup Tok(r, Tok(r, S, {"int"}), {":"})
      type == Types(r, Opt(r, id, {"required", "optional"}))
      name == Tok(r, Opt(r, type, {"&"}), {"identifier"} \cup Words)
  IN  Opt(r, Suffix(r, name \cup Values(r, Tok(r, name, {"="}))), Separators)

RECURSIVE FieldLists(_, _), FunctionLists(_, _), EnumLists(_, _)
FieldLists(r, S) ==
  IF S = {} THEN {} ELSE S \cup FieldLists(r, FieldPhrases(r, Markers(r, S)))
Parameters(r, S) == Tok(r, FieldLists(r, Tok(r, S, {"("})), {")"})
FunctionPhrases(r, S) ==
  LET head == Opt(r, S, {"oneway", "async"})
      name == Tok(r, Tok(r, head, {"void"}) \cup Types(r, head), {"identifier"})
      args == Parameters(r, name)
  IN  Opt(r, Suffix(r, args \cup Parameters(r, Tok(r, args, {"throws"}))), Separators)
FunctionLists(r, S) ==
  IF S = {} THEN {} ELSE S \cup FunctionLists(r, FunctionPhrases(r, Markers(r, S)))
EnumLists(r, S) ==
  LET name == Tok(r, S, {"identifier"})
  IN  IF S = {} THEN {}
      ELSE S \cup EnumLists(r,
             Opt(r, Suffix(r, name \cup Tok(r, Tok(r, name, {"="}), {"int"})), Separators))

Named(r, S, kinds) == Tok(r, Tok(r, S, kinds), {"identifier"})
Braces(r, S, Body(_, _)) == Suffix(r, Tok(r, Body(r, Tok(r, S, {"{"})), {"}"}))

Definitions(r, S) ==
  LET name == Named(r, S, {"service"})
      constant == Tok(r, Types(r, Tok(r, S, {"const"})), {"identifier"})
      alias == Tok(r, Types(r, Tok(r, S, {"typedef"})), {"identifier"})
  IN  UNION {
        Suffix(r, Named(r, Tok(r, S, {"namespace"}), {"identifier", "*"})),
        Opt(r, Values(r, Tok(r, constant, {"="})), Separators),
        Opt(r, Suffix(r, alias), Separators),
        Braces(r, Named(r, S, {"enum"}), EnumLists),
        Braces(r, Named(r, S, {"struct", "union", "exception"}), FieldLists),
        Braces(r, name \cup Named(r, name, {"extends"}), FunctionLists) }

TopLevel(r, S) ==
  Tok(r, Tok(r, S, {"include", "cpp_include"}), {"string"})
  \cup Definitions(r, Markers(r, S))

RECURSIVE Documents(_, _)
Documents(r, S) ==
  IF S = {} THEN {} ELSE S \cup Documents(r, TopLevel(r, S))

\* r is a document, up to its "eof".
Grammatical(r) == Len(r) \in Documents(r, {1})
=============================================================================
