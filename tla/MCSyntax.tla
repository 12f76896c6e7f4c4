------------------------------ MODULE MCSyntax ------------------------------
(***************************************************************************)
(* Documents that use every production between them, and each of them with *)
(* one token lost, put in or replaced.                                     *)
(***************************************************************************)
EXTENDS Syntax, SequencesExt

Name1 == "identifier"

Valid == {
  <<"include", "string", "#", "namespace", "*", Name1, "(", Name1, ")">>,
  <<"cpp_include", "string", "const", "i32", Name1, "=", "int", ";">>,
  <<"const", "map", "<", "byte", ",", Name1, ">", Name1, "=",
    "{", "int", ":", "string", ",", "int", ":", "[", "true", "]", "}">>,
  <<"typedef", "list", "cpp_type", "string", "<", "i32", ">", Name1, ",", "enum", Name1, "{", "}">>,
  <<"enum", Name1, "{", Name1, "=", "int", ",", "#", Name1, "(", ")", "}", "struct", Name1, "{", "}">>,
  <<"struct", Name1, "{", "int", ":", "required", "i32", Name1, ",", Name1, "&", "struct", ";", "slist", Name1, ",", "}">>,
  <<"union", Name1, "{", Name1, Name1, "=", "[", "int", ",", "int", "]", "i32", Name1, "}", "(", Name1, "=", "string", ",", ")">>,
  <<"@", Name1, "{", "}", "@", Name1, "(", "int", ")", "exception", Name1, "{", "@", Name1, "[", "]", Name1, Name1, "}">>,
  <<"service", Name1, "extends", Name1, "{", "void", Name1, "(", ")", ",", "async", Name1, Name1, "(", ")", "}">>,
  <<"service", Name1, "{", "oneway", "void", Name1, "(", Name1, Name1, ")", "throws", "(", Name1, Name1, ")", ";",
    "i32", Name1, "(", ")", "}">> }

Noise == {"identifier", "int", "string", "i32", "map", "{", "}", "(", ")", "[", "<", ">",
  ",", ":", "=", "@", "#", "struct", "service", "const", "include", "void", "throws"}

\* A token as characters: a comment takes the rest of its line.
Spelled(k) ==
  CASE k = "identifier" -> <<"a">>
    [] k = "int" -> <<"1">>
    [] k = "double" -> <<"1", ".", "1">>
    [] k = "string" -> <<"quote", "a", "quote">>
    [] k = "#" -> <<"#", "LF">>
    [] OTHER -> <<k>>
Source1(d) == FoldLeft(LAMBDA text, k : text \o Spelled(k) \o <<"space">>, <<>>, d)

Lost(d) == {SubSeq(d, 1, i - 1) \o SubSeq(d, i + 1, Len(d)) : i \in DOMAIN d}
Replaced(d) == {[d EXCEPT ![i] = k] : i \in DOMAIN d, k \in Noise}
Put(d) == {SubSeq(d, 1, i - 1) \o <<k>> \o SubSeq(d, i, Len(d)) : i \in 1..Len(d) + 1, k \in Noise}
Documents1 == {Source1(e) : e \in UNION {{d} \cup Lost(d) \cup Replaced(d) \cup Put(d) : d \in Valid}}

\* Short texts, in which characters meet in every order.
Texts ==
  BoundedSeq({"a", "1", "struct", "{", "quote", "\\", "/", "*", "#", ".", "LF", "CR", "space", "lead"}, 3)
  \cup BoundedSeq({"0", "1", "x", "e", "+", "."}, 5)
  \cup {<<"/", "*">> \o t : t \in BoundedSeq({"*", "/", "a", "CR", "LF", "lead", "trail"}, 4)}
  \cup {<<"quote">> \o t : t \in BoundedSeq({"quote", "\\", "a", "CR", "LF", "lead", "trail"}, 4)}

MCSource == Documents1 \cup Texts

\* A function without a name, and one after it.
MCBadFunction == {
  Source1(<<"service", Name1, "{", "void", "(", ")">> \o sep
          \o <<"void", Name1, "(", ")", "}">>) : sep \in {<<>>, <<",">>, <<";">>} }
=============================================================================
