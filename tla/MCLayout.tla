------------------------------ MODULE MCLayout ------------------------------
(***************************************************************************)
(* Files that use every construct between them, and each of them with a    *)
(* comment, or a blank line, at one place.                                 *)
(***************************************************************************)
EXTENDS Layout

X == "identifier"

\* A token behind line breaks.
Behind(kind, breaks) == [kind |-> kind, breaks |-> breaks]
OnLines(d, n) == [i \in DOMAIN d |-> Behind(d[i], IF i = 1 THEN 0 ELSE n)]

\* The tokens as the lexer gives them.
RECURSIVE LineUpTo(_, _)
LineUpTo(ts, i) == ts[i].breaks + IF i = 1 THEN 1 ELSE LineUpTo(ts, i - 1)
AsLexed(ts) ==
  [i \in DOMAIN ts |->
     [kind |-> ts[i].kind,
      id |-> IF ts[i].kind \in IsComment \cup IsKeyword \cup {X, "int", "string"} THEN i ELSE 0,
      line |-> LineUpTo(ts, i),
      blank |-> IF ts[i].breaks > 0 THEN ts[i].breaks - 1 ELSE 0]]

\* A comment at a place: the breaks before it and behind it.
Trivia ==
  {<<Behind("line comment", x[1]), x[2]>> : x \in {<<0, 1>>, <<0, 2>>, <<1, 1>>, <<1, 2>>, <<2, 1>>}}
  \cup {<<Behind("block comment", x[1]), x[2]>>
         : x \in {<<0, 0>>, <<0, 1>>, <<1, 0>>, <<1, 1>>, <<1, 2>>, <<2, 1>>}}
With(ts, i, c) ==
  SubSeq(ts, 1, i - 1) \o <<c[1], Behind(ts[i].kind, c[2])>> \o SubSeq(ts, i + 1, Len(ts))
Blanked(ts, i) == [ts EXCEPT ![i].breaks = 2]

Templates == {
  <<"include", "string", "namespace", X, X, "(", X, "=", "string", ",", X, ")">>,
  <<"const", "list", "<", "i32", ">", X, "=", "[", "int", ",", "[", "int", "]", ",", "]", ";">>,
  <<"const", X, X, "=", "{", "int", ":", "string", "string", ":", "int", "}", "typedef", "i32", X, ",">>,
  <<"enum", X, "{", X, "=", "int", ",", X, "(", X, ")", ";", "}", "(", X, ")">>,
  <<"struct", X, "{", "int", ":", "required", "i32", X, ",", X, "&", X, "=", "int", "}">>,
  <<"union", X, "{", "i32", X, "(", X, ")", ",", "}">>,
  <<"@", X, "{", "int", ":", "int", "}", "@", X, "(", "int", ")", "exception", X, "{", "}">>,
  <<"exception", X, "{", "@", X, "(", "int", ")", X, X, "}">>,
  <<"service", X, "extends", X, "{", "void", X, "(", "int", ":", X, X, ",", X, X, ")", ";", "}", "(", X, ")">>,
  <<"service", X, "{", "oneway", "void", X, "(", ")", "async", X, X, "(", ")", "(", X, ")", ",", "}">>,
  <<"service", X, "{", "i32", X, "(", X, X, ")", "throws", "(", X, X, ",", ")", "}">>,
  <<X, "struct", X, "{", "}">> }

Placed(d, n) ==
  LET ts == Append(OnLines(d, n), Behind("eof", n))
  IN  {ts} \cup {Blanked(ts, i) : i \in DOMAIN ts}
      \cup {With(ts, i, c) : i \in DOMAIN ts, c \in Trivia}

\* Everything fits, or nothing does; the other modes where they matter.
Wide == {{}, {"function", "(", "{", "[", "@"}}
OptionsFor(seps) ==
  [sep : seps, brk : {FALSE}, wide : Wide]
  \cup [sep : seps \cap {"preserve"}, brk : {TRUE}, wide : {{}, {"function", "{"}}]
Modes == {"preserve", ",", Nothing}

Files(templates) == UNION {Placed(d, n) : d \in templates, n \in {0, 1}}
InputsOf(ts, seps) == [file : {AsLexed(ts)}, options : OptionsFor(seps)]

\* A comment next to "throws", which no document of the formatter prints, and
\* one behind a parameter, in front of its separator: see the inputs below.
InThrows(ts) == \E i \in 2..Len(ts) :
  \/ ts[i].kind = "throws" /\ ts[i - 1].kind \in IsComment
  \/ ts[i - 1].kind = "throws" /\ ts[i].kind \in IsComment
InParameter(ts) ==
  /\ ts[1].kind = "service"
  /\ \E i \in 2..Len(ts) : ts[i].kind = "," /\ ts[i - 1].kind \in IsComment

MCInputs == UNION {
  InputsOf(ts, IF InParameter(ts) THEN Modes \ {Nothing} ELSE Modes)
  : ts \in {x \in Files(Templates) : ~InThrows(x)}}
MCPasses == 2

\* Files that are not formatted as they should be: a comment in front of a
\* separator that is dropped; a brace within a body; a type with annotations
\* in front of a function's name.
MCParameter == UNION {InputsOf(ts, Modes) : ts \in {x \in Files(Templates) : InParameter(x)}}
MCBraces == UNION {InputsOf(ts, Modes)
  : ts \in Files({<<"struct", X, "{", X, X, "=", "{", "}", ",", X, X, "}">>})}
MCReturn == UNION {InputsOf(ts, Modes)
  : ts \in Files({<<"service", X, "{", "i32", "(", X, ")", X, "(", X, X, ")", "}">>})}
=============================================================================
