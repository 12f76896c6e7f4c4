------------------------------ MODULE MCFixAll ------------------------------
(* Instances of FixAll for TLC.  Files are numbers, in the order of URIs.  *)
EXTENDS FixAll

CONSTANTS T, U    \* two names

OneEach(statements) == [i \in DOMAIN statements |-> <<statements[i]>>]
Content(files, defs) == OneEach([i \in DOMAIN files |-> Include(files[i])] \o defs)

Type(n, uses) == Def("type", n, uses)
Other(n) == Def("const", n, {})
Bare(n) == Use(n, AnyFile)

MCTargets == <<1, 2, 3>>

\* The first file includes others, once or twice, and uses what they define,
\* by its name alone or with the file's.
First ==
  { Content(files, defs) :
      files \in {<<>>, <<2>>, <<3>>, <<2, 3>>, <<3, 2>>, <<2, 2>>, <<3, 2, 3>>},
      defs \in { <<>>, <<Type("A", {Bare(T)})>>, <<Type("A", {Use(T, 3)})>>,
                 <<Type("A", {Bare(T)}), Type("B", {Bare(T), Bare(U)})>>,
                 <<Other(U), Type("A", {Bare(U)})>> } }

\* The second may reach the third, or define the same name.
Second ==
  { Content(files, defs) :
      files \in {<<>>, <<3>>, <<1>>, <<3, 1>>},
      defs \in {<<>>, <<Type(T, {})>>, <<Type(U, {Bare(T)})>>, <<Type("C", {Use("A", 1)})>>} }

\* The third is broken: it is read, and not fixed.
Third == {Content(<<>>, <<Type(T, {})>>), Content(<<1>>, <<Type("D", {Bare(T)})>>),
          Content(<<2>>, <<Type(T, {}), Type(U, {})>>)}

MCInitial ==
  {[f \in File |-> CASE f = 1 -> a [] f = 2 -> b [] f = 3 -> c] :
     a \in First, b \in Second, c \in Third}

\* A name that is used as a type and defined elsewhere, but not as a type.
Misnamed ==
  {[f \in File |-> CASE f = 1 -> a [] f = 2 -> Content(<<>>, <<Other(T)>>)
                     [] f = 3 -> Content(<<>>, <<Type(U, {})>>)] :
     a \in {Content(<<3>>, <<Type("A", {Bare(T), Bare(U)})>>), Content(<<>>, <<Type("A", {Bare(U)})>>)}}

\* Statements that share a line with an include.
SharedLines ==
  {[f \in File |-> CASE f = 1 -> a [] f = 2 -> Content(<<>>, <<Type(T, {})>>)
                     [] f = 3 -> Content(<<>>, <<Type(U, {})>>)] :
     a \in { <<<<Include(2), Include(3)>>, <<Type("A", {Bare(T)})>>>>,
             <<<<Include(2), Type("A", {Bare(T), Bare(U)})>>>>,
             <<<<Include(2), Type("A", {Bare(U)})>>>> }}
=============================================================================
