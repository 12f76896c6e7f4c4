------------------------------- MODULE Names -------------------------------
(***************************************************************************)
(* The symbol index: what a name means, and who refers to a definition.    *)
(* sema.Index answers both over the parsed files of one view.              *)
(*                                                                         *)
(* A project gives every file that can be read its includes, in order, and *)
(* its nodes: definitions, each with the references it holds in document   *)
(* order.  A reference is its slot in the grammar and its text, a sequence *)
(* of the segments between the dots.  An include is the file its path      *)
(* resolves to (View has the resolver), whose base name is the sequence    *)
(* IncludeName[f]: a file may have dots in its name.  All files that       *)
(* can be read have been parsed, so the include graph is complete.         *)
(***************************************************************************)
EXTENDS Integers, FiniteSets, Sequences, SequencesExt

CONSTANTS
  IncludeName,      \* the base name of every file, without its extension
  BasicType,        \* the names of the built-in types
  MaxTypedefDepth   \* maxTypedefDepth, at which a typedef chain is given up

ASSUME NamesAssumption ==
  /\ \A f \in DOMAIN IncludeName : IncludeName[f] \in Seq(STRING) \ {<<>>}
  /\ MaxTypedefDepth \in Nat \ {0}

Nothing == [kind |-> "none"]

Reference(kind, name) == [kind |-> kind, name |-> name]
Node(kind, name, members, refs) ==
  [kind |-> kind, name |-> name, members |-> members, refs |-> refs]

TypeKinds == {"struct", "union", "exception", "enum", "typedef"}
TypeSlots == {"field", "signature", "annotation"}

\* Where an identifier stands: the name of a node, a member of an enum, or
\* the i-th reference of a node.
Place(f, n, slot, i) == [file |-> f, node |-> n, slot |-> slot, at |-> i]

Definition(p, f, n) ==
  [kind |-> p[f].nodes[n].kind, name |-> p[f].nodes[n].name, place |-> Place(f, n, "name", 0)]
Member(p, f, n, i) ==
  [kind |-> "member", name |-> p[f].nodes[n].members[i], place |-> Place(f, n, "member", i)]

BareName(name) == name[Len(name)]
HasPrefix(name, prefix) ==
  Len(prefix) < Len(name) /\ SubSeq(name, 1, Len(prefix)) = prefix
After(name, k) == SubSeq(name, k + 1, Len(name))

-----------------------------------------------------------------------------
(***************************************************************************)
(* From a name to its definition.                                          *)
(***************************************************************************)
Qualifiers(p, f, name) ==
  {IncludeName[g] : g \in {g \in ToSet(p[f].includes) : HasPrefix(name, IncludeName[g])}}

\* ParseIdent: the longest include name that qualifies the name, if any.
ParseIdent(p, f, name) ==
  IF Qualifiers(p, f, name) = {} THEN <<>>
  ELSE CHOOSE q \in Qualifiers(p, f, name) :
         \A r \in Qualifiers(p, f, name) : Len(r) <= Len(q)

Identifier(p, f, name) == After(name, Len(ParseIdent(p, f, name)))

\* GetIncludePath and ResolveInclude: the first include of that name.
IncludedAs(p, f, q) ==
  p[f].includes[Min({k \in DOMAIN p[f].includes : IncludeName[p[f].includes[k]] = q})]

\* visit, include by include, where call is what it does n levels down.
Files == DOMAIN IncludeName
Visited(p, call, g, seen) ==
  LET after[i \in 0 .. Len(p[g].includes)] ==
        LET h == p[g].includes[i]
        IN  IF i = 0 THEN seen
            ELSE IF Contains(after[i - 1], h) THEN after[i - 1]
            ELSE call[h][Append(after[i - 1], h)]
  IN  after[Len(p[g].includes)]

\* The files seen, in the order they are found.  A call is n deep at most,
\* and no deeper than there are files.
Visit(p, f, order) ==
  LET visit[n \in 0 .. Cardinality(Files)] ==
        [g \in Files |-> [seen \in Seq(Files) |->
           IF n = 0 \/ g \notin DOMAIN p THEN seen ELSE Visited(p, visit[n - 1], g, seen)]]
  IN  visit[Cardinality(Files)][f][order]

\* definitionFiles: the files to search for a name, in order.
DefinitionFiles(p, f, name) ==
  IF ParseIdent(p, f, name) # <<>> THEN <<IncludedAs(p, f, ParseIdent(p, f, name))>>
  ELSE Visit(p, f, <<f>>)

\* The maps of a file's index, in which the last of a name wins.
Definitions(p, g, id) ==
  LET named == {n \in DOMAIN p[g].nodes : <<p[g].nodes[n].name>> = id}
  IN  IF named = {} THEN Nothing ELSE Definition(p, g, Max(named))
EnumValues(p, g, id) ==
  LET within(n) == {i \in DOMAIN p[g].nodes[n].members : <<p[g].nodes[n].members[i]>> = id}
      enums == {n \in DOMAIN p[g].nodes : within(n) # {}}
  IN  IF enums = {} THEN Nothing ELSE Member(p, g, Max(enums), Max(within(Max(enums))))

OfKind(d, kinds) == IF d.kind \in kinds THEN d ELSE Nothing
OrElse(d, other) == IF d # Nothing THEN d ELSE other
FirstFound(files, find) ==
  LET found == {k \in DOMAIN files : files[k] \in DOMAIN find /\ find[files[k]] # Nothing}
  IN  IF found = {} THEN Nothing ELSE find[files[Min(found)]]

ResolveType(p, f, name) ==
  LET find == [g \in DOMAIN p |-> OfKind(Definitions(p, g, Identifier(p, f, name)), TypeKinds)]
  IN  IF name = <<>> \/ name \in BasicType THEN Nothing
      ELSE FirstFound(DefinitionFiles(p, f, name), find)

ResolveValue(p, f, text) ==
  LET id == <<BareName(Identifier(p, f, text))>>
      find == [g \in DOMAIN p |->
                 OrElse(EnumValues(p, g, id), OfKind(Definitions(p, g, id), {"const"}))]
  IN  FirstFound(DefinitionFiles(p, f, text), find)

ResolveService(p, f, name) ==
  LET find == [g \in DOMAIN p |-> OfKind(Definitions(p, g, Identifier(p, f, name)), {"service"})]
  IN  FirstFound(DefinitionFiles(p, f, name), find)

ResolveReference(p, f, ref) ==
  CASE ref.kind \in TypeSlots  -> ResolveType(p, f, ref.name)
    [] ref.kind = "value"      -> ResolveValue(p, f, ref.name)
    [] ref.kind = "extends"    -> ResolveService(p, f, ref.name)

-----------------------------------------------------------------------------
(***************************************************************************)
(* Typedef chains.  The target of a typedef is its only type reference, and*)
(* <<>> stands for a type that is not an identifier.                       *)
(***************************************************************************)
TargetOf(p, d) ==
  LET refs == p[d.place.file].nodes[d.place.node].refs
      types == {i \in DOMAIN refs : refs[i].kind = "field"}
      type == refs[Min(types)].name
  IN  IF types = {} \/ type \in BasicType THEN <<>> ELSE type

\* A variant that looks up every typedef of the chain in the first file.
FollowInScope(p, at) ==
  LET d == ResolveType(p, at.file, at.type)
  IN  IF at.done \/ at.type = <<>> THEN [at EXCEPT !.done = TRUE]
      ELSE IF d.kind = "none" THEN [at EXCEPT !.done = TRUE, !.known = FALSE]
      ELSE IF d.kind # "typedef" THEN [at EXCEPT !.done = TRUE]
      ELSE [at EXCEPT !.type = TargetOf(p, d)]

\* One turn of the loop of UnderlyingType.
Follow(p, at) ==
  LET d == ResolveType(p, at.file, at.type)
  IN  IF at.done \/ at.type = <<>> THEN [at EXCEPT !.done = TRUE]
      ELSE IF d.kind = "none" THEN [at EXCEPT !.done = TRUE, !.known = FALSE]
      ELSE IF d.kind # "typedef" THEN [at EXCEPT !.done = TRUE]
      ELSE [at EXCEPT !.type = TargetOf(p, d), !.file = d.place.file]

UnderlyingType(p, f, name) ==
  LET at[n \in 0 .. MaxTypedefDepth] ==
        IF n = 0 THEN [file |-> f, type |-> IF name \in BasicType THEN <<>> ELSE name,
                       known |-> TRUE, done |-> FALSE]
        ELSE Follow(p, at[n - 1])
  IN  at[MaxTypedefDepth]

-----------------------------------------------------------------------------
(***************************************************************************)
(* The include graph, and who refers to a definition.                      *)
(***************************************************************************)
Includers(p, f) == {g \in DOMAIN p : Contains(p[g].includes, f)}

\* View.Dependents, by breadth: who includes the file, over any includes.
Dependents(p, f) ==
  LET within[n \in 0 .. Cardinality(DOMAIN p)] ==
        IF n = 0 THEN Includers(p, f)
        ELSE within[n - 1] \cup UNION {Includers(p, g) : g \in within[n - 1]}
  IN  within[Cardinality(DOMAIN p)]

\* A variant that searches the file and those that include it themselves.
SearchIncluders(p, f) == <<f>> \o SetToSeq(Includers(p, f) \ {f})

\* A variant that forgets that a file on a cycle depends on itself.
SearchDependents(p, f) == <<f>> \o SetToSeq(Dependents(p, f))

SearchFiles(p, f) == <<f>> \o SetToSeq(Dependents(p, f) \ {f})

RefKindsFor(kind) ==
  CASE kind = "exception"                  -> {"signature", "annotation"}
    [] kind \in {"member", "const"}        -> {"value"}
    [] kind = "service"                    -> {"extends"}
    [] kind \in TypeKinds \ {"exception"}  -> TypeSlots

SameDefinition(d, def) ==
  d # Nothing /\ d.place.file = def.place.file /\ d.name = def.name

\* A hit is a range of the segments of the identifier at a place.
Hit(place, from, to, text) == [place |-> place, from |-> from, to |-> to, text |-> text]

EnumSegment(name, enum) == SelectInSeq(name, LAMBDA s : s = enum)

\* A variant that does not ask which enum it is that qualifies a value.
QualifierByName(p, f, ref, def) == EnumSegment(ref.name, def.name) # 0

QualifiesBy(p, f, ref, def) ==
  LET i == EnumSegment(ref.name, def.name)
  IN  i # 0 /\ SameDefinition(ResolveType(p, f, SubSeq(ref.name, 1, i)), def)

\* What ReferencesTo finds in one reference: nothing, or one hit.
HitsOf(p, place, ref, def, kinds) ==
  LET i == EnumSegment(ref.name, def.name)
  IN  IF ref.kind \notin kinds THEN <<>>
      ELSE IF ref.kind = "value" /\ def.kind = "enum"
           THEN IF QualifiesBy(p, place.file, ref, def)
                THEN <<Hit(place, i, i, <<def.name>>)>> ELSE <<>>
      ELSE IF BareName(ref.name) = def.name
              /\ SameDefinition(ResolveReference(p, place.file, ref), def)
           THEN <<Hit(place, 1, Len(ref.name), ref.name)>>
      ELSE <<>>

References(p, f) ==
  FlattenSeq([n \in DOMAIN p[f].nodes |->
    [i \in DOMAIN p[f].nodes[n].refs |->
       [place |-> Place(f, n, "ref", i), ref |-> p[f].nodes[n].refs[i]]]])

HitsIn(p, refs, def, kinds) ==
  FlattenSeq([k \in DOMAIN refs |-> HitsOf(p, refs[k].place, refs[k].ref, def, kinds)])

ReferencesTo(p, def, kinds) ==
  LET files == SearchFiles(p, def.place.file)
  IN  FlattenSeq([k \in DOMAIN files |->
        IF files[k] \in DOMAIN p THEN HitsIn(p, References(p, files[k]), def, kinds) ELSE <<>>])

-----------------------------------------------------------------------------
(***************************************************************************)
(* CycleCheck: getIncludes collects the includes of every file it reaches, *)
(* and an include is reported if the file it leads to depends on the file  *)
(* that holds it.                                                          *)
(***************************************************************************)
Noted(p, call, g, noted) ==
  LET after[i \in 0 .. Len(p[g].includes)] ==
        LET h == p[g].includes[i]
            more == [after[i - 1] EXCEPT ![g] = Append(@, h)]
        IN  IF i = 0 THEN noted
            ELSE IF more[h] # <<>> THEN more
            ELSE call[h][more]
  IN  after[Len(p[g].includes)]

GetIncludes(p, f, closure) ==
  LET collect[n \in 0 .. Cardinality(Files) + 1] ==
        [g \in Files |-> [noted \in [Files -> Seq(Files)] |->
           IF n = 0 \/ g \notin DOMAIN p THEN noted ELSE Noted(p, collect[n - 1], g, noted)]]
  IN  collect[Cardinality(Files) + 1][f][closure]

\* Every analysed file in turn, into the same notes.
Closure(p, analysed) ==
  LET after[i \in 0 .. Len(analysed)] ==
        IF i = 0 THEN [f \in Files |-> <<>>]
        ELSE GetIncludes(p, analysed[i], after[i - 1])
  IN  after[Len(analysed)]

\* A variant that reports only includes of files that include one another.
CyclesOfTwo(p, analysed) ==
  LET closure == Closure(p, analysed)
  IN  UNION {{<<f, g>> : g \in ToSet(closure[f]) \cap Includers(p, f)} : f \in Files}

CycleCheck(p, analysed) ==
  LET closure == Closure(p, analysed)
  IN  UNION {{<<f, g>> : g \in ToSet(closure[f]) \cap Dependents(p, f)} : f \in Files}
=============================================================================
