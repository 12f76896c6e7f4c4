------------------------------ MODULE MCRename ------------------------------
(* Instances of Rename for TLC: m.thrift, m.v.thrift and t.thrift.         *)
EXTENDS Rename

MCIncludeName == [f \in {"m", "mv", "t"} |->
                    CASE f = "m" -> <<"m">> [] f = "mv" -> <<"m", "v">> [] f = "t" -> <<"t">>]
MCBasicType == {<<"i32">>}

Type(name) == Reference("field", name)
Value(name) == Reference("value", name)
Struct(name, refs) == Node("struct", name, <<>>, refs)
Enum(name, members) == Node("enum", name, members, <<>>)
Typedef(name, target) == Node("typedef", name, <<>>, <<Type(target)>>)
Const(name, refs) == Node("const", name, <<>>, refs)
Exception(name) == Node("exception", name, <<>>, <<Type(<<"i32">>)>>)
Service(name, refs) == Node("service", name, <<>>, refs)

\* m.thrift has a type A, an enum and values of it, or typedefs in a row.
InM ==
  { <<Struct("A", <<Type(<<"i32">>)>>), Enum("E", <<"R", "G">>), Const("K", <<Type(<<"E">>), Value(<<"E", "R">>)>>)>>,
    <<Typedef("A", <<"B">>), Typedef("B", <<"m", "v", "A">>), Enum("E", <<"R">>)>>,
    <<Enum("A", <<"R">>), Typedef("B", <<"t", "B">>), Service("S", <<Reference("signature", <<"A">>)>>)>> }

\* m.v.thrift has another A, and an exception that it throws.
InMV ==
  { <<Struct("A", <<Type(<<"i32">>), Value(<<"R">>)>>), Exception("X"),
      Service("S", <<Reference("extends", <<"m", "S">>), Reference("signature", <<"A">>), Reference("signature", <<"X">>)>>)>>,
    <<Typedef("A", <<"E">>), Enum("E", <<"R", "B">>), Const("K", <<Type(<<"A">>), Value(<<"E", "B">>)>>)>>,
    <<>> }

\* t.thrift refers to them, by their names alone or with a qualifier.
InT ==
  { <<Struct("U", <<Type(<<"A">>), Type(<<"m", "A">>), Type(<<"m", "v", "A">>),
                    Value(<<"E", "R">>), Value(<<"m", "E", "R">>), Value(<<"K">>)>>)>>,
    <<Struct("A", <<Reference("annotation", <<"m", "v", "A">>), Type(<<"A">>), Type(<<"m", "B">>)>>),
      Const("K", <<Type(<<"m", "v", "E">>), Value(<<"m", "v", "E", "R">>)>>)>>,
    <<Typedef("B", <<"m", "B">>), Struct("U", <<Type(<<"B">>), Value(<<"R">>), Value(<<"A", "R">>)>>),
      Service("V", <<Reference("extends", <<"m", "v", "S">>), Reference("signature", <<"X">>)>>)>> }

File(includes, nodes) == [includes |-> includes, nodes |-> nodes]

\* Includes in either order, repeated, in a cycle, or of a file that is not
\* there.
MCProjects ==
  { [f \in {"m", "mv", "t"} |->
       CASE f = "m" -> File(i, a) [] f = "mv" -> File(j, b) [] f = "t" -> File(k, c)] :
      i \in {<<>>, <<"mv">>, <<"t", "mv">>}, a \in InM,
      j \in {<<>>, <<"m">>, <<"mv">>}, b \in InMV,
      k \in {<<"m">>, <<"m", "mv">>, <<"mv", "m", "mv">>}, c \in InT }
  \cup { [f \in {"m", "t"} |-> CASE f = "m" -> File(<<"mv">>, a) [] f = "t" -> File(<<"m", "mv">>, c)] :
           a \in InM, c \in InT }

\* Under which a rename keeps what names mean (RenameProofs).
ASSUME MeaningIsClear ==
  /\ \A p \in MCProjects : NamesApart(p) /\ EnumsApart(p) /\ ExceptionsThrown(p)
  /\ \A new \in NewNames : Fresh(new)

\* A service that another extends.
MCServices ==
  { [f \in {"mv", "t"} |->
       CASE f = "mv" -> File(<<>>, b) [] f = "t" -> File(<<"mv">>, c)] : b \in InMV, c \in InT }

\* Two enums of one file with a member of the same name.
MCTwins ==
  { [f \in {"m"} |-> File(<<>>, <<Enum("E", <<"R">>), Enum("F", <<"R">>),
                                  Struct("U", <<Value(<<"E", "R">>), Value(<<"F", "R">>)>>)>>)] }

\* An enum that is named as its file.
MCNamesake ==
  { [f \in {"m", "t"} |->
       IF f = "m" THEN File(<<>>, <<Enum("m", <<"R">>)>>)
       ELSE File(<<"m">>, <<Struct("U", <<Value(<<"m", "m", "R">>)>>)>>)] }

\* A constant with the name of an enum that its file includes.
MCConstant ==
  { [f \in {"m", "t"} |->
       IF f = "m" THEN File(<<>>, <<Enum("E", <<"R">>)>>)
       ELSE File(<<"m">>, <<Const("E", <<>>), Const("K", <<Value(<<"E">>)>>)>>)] }
=============================================================================
