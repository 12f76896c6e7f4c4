------------------------------- MODULE Rename -------------------------------
(***************************************************************************)
(* textDocument/references and textDocument/rename over a project: the     *)
(* server finds what the identifier under the cursor refers to and who     *)
(* else refers to it, and answers with locations or with edits; the client *)
(* makes the edits.  The server keeps nothing between two requests.        *)
(*                                                                         *)
(* Left out are the names of fields, functions and arguments, which the    *)
(* code renames without looking for references, and the positions in the   *)
(* text, which the mapper computes: a hit is a range of the segments of an *)
(* identifier.                                                             *)
(***************************************************************************)
EXTENDS Names

CONSTANTS
  Projects,    \* the projects to start from
  NewNames,    \* what an identifier may be renamed to
  RenameAt,    \* the kinds of target at which the user asks for a rename
  MaxRenames   \* bound: the renames made

\* Documents as the parser makes them, of some of the files.
SlotKinds == TypeSlots \cup {"value", "extends"}
ASSUME ProjectsAssumption ==
  /\ IsFiniteSet(Files)
  /\ \A p \in Projects : DOMAIN p \subseteq Files /\ \A f \in DOMAIN p :
       p[f] \in [includes : Seq(Files),
                nodes : Seq([kind : STRING, name : STRING, members : Seq(STRING),
                             refs : Seq([kind : SlotKinds, name : Seq(STRING) \ {<<>>}])])]

VARIABLES
  project,   \* what the files hold
  answer,    \* the answer to the last request
  renames    \* the renames made

vars == <<project, answer, renames>>

Silent == [to |-> "nothing"]

-----------------------------------------------------------------------------
(***************************************************************************)
(* The target under the cursor.                                            *)
(***************************************************************************)
Places(p) ==
  UNION {UNION {{Place(f, n, "name", 0)}
                \cup {Place(f, n, "member", i) : i \in DOMAIN p[f].nodes[n].members}
                \cup {Place(f, n, "ref", i) : i \in DOMAIN p[f].nodes[n].refs} :
                n \in DOMAIN p[f].nodes} : f \in DOMAIN p}

NodeAt(p, place) == p[place.file].nodes[place.node]
RefAt(p, place) == NodeAt(p, place).refs[place.at]
TextAt(p, place) ==
  CASE place.slot = "name"   -> <<NodeAt(p, place).name>>
    [] place.slot = "member" -> <<NodeAt(p, place).members[place.at]>>
    [] place.slot = "ref"    -> RefAt(p, place).name

\* resolveTarget and classify.
Target(p, place) ==
  IF place.slot = "ref"
  THEN CASE RefAt(p, place).kind \in TypeSlots -> "type"
         [] RefAt(p, place).kind = "value"     -> "value"
         [] RefAt(p, place).kind = "extends"   -> "service"
  ELSE IF place.slot = "name" /\ NodeAt(p, place).kind = "service" THEN "service"
  ELSE "definition"

\* PrepareRename refuses the built-in types and accepts the other targets.
MayRename(p, place) == ~(Target(p, place) = "type" /\ TextAt(p, place) \in BasicType)

-----------------------------------------------------------------------------
(***************************************************************************)
(* The searches, by target.                                                *)
(***************************************************************************)
\* searchTypeNameRefs and searchConstValueRefs: the definition, if there is
\* one, and the references to it.
SearchFromReference(p, def) ==
  IF def = Nothing THEN <<>>
  ELSE <<Hit(def.place, 1, 1, <<def.name>>)>> \o ReferencesTo(p, def, RefKindsFor(def.kind))

\* searchServiceRefs: the references alone, of the service that the name is
\* in that file.
SearchService(p, f, name) ==
  LET def == IF f \in DOMAIN p THEN ResolveService(p, f, name) ELSE Nothing
  IN  IF def = Nothing THEN <<>> ELSE ReferencesTo(p, def, RefKindsFor("service"))

\* searchDefRefs: an enum also qualifies the values that are its members.
SearchDefinition(p, place) ==
  LET def == IF place.slot = "member" THEN Member(p, place.file, place.node, place.at)
             ELSE Definition(p, place.file, place.node)
  IN  ReferencesTo(p, def,
        RefKindsFor(def.kind) \cup IF def.kind = "enum" THEN {"value"} ELSE {})

\* searchReferences
Search(p, place) ==
  CASE Target(p, place) \in {"type", "value"} ->
         SearchFromReference(p,
           IF Target(p, place) = "value" THEN ResolveValue(p, place.file, TextAt(p, place))
           ELSE IF MayRename(p, place) THEN ResolveType(p, place.file, TextAt(p, place))
           ELSE Nothing)
    [] Target(p, place) = "service" -> SearchService(p, place.file, TextAt(p, place))
    [] Target(p, place) = "definition" -> SearchDefinition(p, place)

\* The case of a service in Rename: its name is looked up with the name of
\* the file before it, or in the file that its qualifier includes.
ServiceFile(p, place) ==
  LET name == TextAt(p, place)
      q == ParseIdent(p, place.file, name)
  IN  IF Len(name) > 1 /\ q # <<>> THEN IncludedAs(p, place.file, q) ELSE place.file
ServiceName(p, place) ==
  IF Len(TextAt(p, place)) > 1 THEN TextAt(p, place)
  ELSE IncludeName[place.file] \o TextAt(p, place)

\* The hits to rewrite, that under the cursor last, each with the file that
\* its edit is sent for.
WithCursor(p, place, found, in) ==
  Append([k \in DOMAIN found |-> [hit |-> found[k], file |-> found[k].place.file]],
         [hit |-> Hit(place, 1, Len(TextAt(p, place)), <<>>), file |-> in])

Hits(p, place) ==
  IF Target(p, place) = "service"
  THEN WithCursor(p, place, SearchService(p, ServiceFile(p, place), ServiceName(p, place)),
                  ServiceFile(p, place))
  ELSE WithCursor(p, place, Search(p, place), place.file)

\* convertHitsToWorkspaceEdit: the qualifier is kept.
NewText(hit, new) ==
  IF Len(hit.text) > 1 THEN SubSeq(hit.text, 1, Len(hit.text) - 1) \o <<new>> ELSE <<new>>

Edits(hits, new) ==
  [k \in DOMAIN hits |->
     [file |-> hits[k].file, place |-> hits[k].hit.place, from |-> hits[k].hit.from,
      to |-> hits[k].hit.to, text |-> NewText(hits[k].hit, new)]]

-----------------------------------------------------------------------------
(***************************************************************************)
(* The client makes the edits of an answer, if they fit its files.         *)
(***************************************************************************)
Overlaps(d, e) == d.place = e.place /\ d.from <= e.to /\ e.from <= d.to

Fits(edits) ==
  /\ \A k \in DOMAIN edits : edits[k].file = edits[k].place.file
  /\ \A j, k \in DOMAIN edits : j # k => ~Overlaps(edits[j], edits[k])

Edited(text, e) == SubSeq(text, 1, e.from - 1) \o e.text \o After(text, e.to)
Rewritten(p, edits, place) ==
  LET text[k \in 0 .. Len(edits)] ==
        IF k = 0 THEN TextAt(p, place)
        ELSE IF edits[k].place = place THEN Edited(text[k - 1], edits[k])
        ELSE text[k - 1]
  IN  text[Len(edits)]

Made(p, edits) ==
  LET node(f, n) ==
        LET old == p[f].nodes[n]
        IN  Node(old.kind, Rewritten(p, edits, Place(f, n, "name", 0))[1],
                 [i \in DOMAIN old.members |-> Rewritten(p, edits, Place(f, n, "member", i))[1]],
                 [i \in DOMAIN old.refs |->
                    [old.refs[i] EXCEPT !.name = Rewritten(p, edits, Place(f, n, "ref", i))]])
  IN  [f \in DOMAIN p |-> [p[f] EXCEPT !.nodes = [n \in DOMAIN @ |-> node(f, n)]]]

-----------------------------------------------------------------------------
Init == project \in Projects /\ answer = Silent /\ renames = 0

\* A name is free if no identifier of the project has it for a segment.
Free(p, new) == \A place \in Places(p) : ~Contains(TextAt(p, place), new)

AskReferences(place) ==
  /\ answer = Silent
  /\ answer' = [to |-> "references", at |-> place, hits |-> Search(project, place)]
  /\ UNCHANGED <<project, renames>>

AskRename(place, new) ==
  /\ answer = Silent /\ renames < MaxRenames
  /\ Target(project, place) \in RenameAt /\ MayRename(project, place)
  /\ Free(project, new)
  /\ answer' = [to |-> "rename", at |-> place, edits |-> Edits(Hits(project, place), new)]
  /\ UNCHANGED <<project, renames>>

\* The edits are made, and those that do not fit are refused as a whole.
Apply ==
  /\ answer.to = "rename" /\ Fits(answer.edits)
  /\ project' = Made(project, answer.edits)
  /\ renames' = renames + 1 /\ answer' = Silent

Next ==
  \/ \E place \in Places(project) :
       AskReferences(place) \/ \E new \in NewNames : AskRename(place, new)
  \/ Apply

Spec == Init /\ [][Next]_vars

-----------------------------------------------------------------------------
(***************************************************************************)
(* What is right, stated without the searches.                             *)
(***************************************************************************)
RefPlaces(p) == {place \in Places(p) : place.slot = "ref"}
MeantBy(p, place) == ResolveReference(p, place.file, RefAt(p, place))

\* The names in a file are all different: sameDefinition takes two definitions
\* of one name in one file for the same.
NamesApart(p) ==
  \A d, e \in Places(p) :
    d.slot # "ref" /\ e.slot # "ref" /\ d.file = e.file /\ d # e => TextAt(p, d) # TextAt(p, e)

\* No enum has the name of a part of a file's name, or the name that a value
\* ends in: enumSegment finds the first segment that is the name of the enum.
EnumsApart(p) ==
  \A f \in DOMAIN p : \A enum \in {n \in DOMAIN p[f].nodes : p[f].nodes[n].kind = "enum"} :
    LET name == p[f].nodes[enum].name
    IN  /\ \A g \in Files : ~Contains(IncludeName[g], name)
        /\ \A place \in RefPlaces(p) :
             RefAt(p, place).kind = "value" => BareName(RefAt(p, place).name) # name

\* Exceptions are thrown, and no field has one for its type.
ExceptionsThrown(p) ==
  \A place \in RefPlaces(p) : MeantBy(p, place).kind = "exception" => RefAt(p, place).kind # "field"

\* A name that is no part of a file's name nor of a built-in type.
Fresh(new) ==
  /\ \A g \in Files : ~Contains(IncludeName[g], new)
  /\ \A type \in BasicType : ~Contains(type, new)

\* Where the definition stands that a reference resolves to.
PlaceOf(d) == IF d = Nothing THEN Silent ELSE d.place
MeantPlace(p, place) == PlaceOf(MeantBy(p, place))

\* A value that is qualified with the enum that it is a member of.
InItsEnum(p, place) ==
  LET name == TextAt(p, place)
      value == MeantBy(p, place)
      enum == ResolveType(p, place.file, SubSeq(name, 1, Len(name) - 1))
  IN  /\ RefAt(p, place).kind = "value" /\ Len(name) > 1
      /\ value.kind = "member" /\ enum.kind = "enum"
      /\ value.place.file = enum.place.file /\ value.place.node = enum.place.node

\* However files include each other, whatever names they share and however
\* many renames came before: after a rename every reference of the project
\* resolves to the place it resolved to before, or to none if it did not,
\* and values qualified with their enum still are.
RenameKeepsMeaning ==
  [][Apply => \A place \in RefPlaces(project) :
                /\ MeantPlace(project', place) = MeantPlace(project, place)
                /\ InItsEnum(project, place) => InItsEnum(project', place)]_vars

\* The edits of a rename lie in the files they were computed on and do not
\* overlap, as mapper/apply.go asks of edits: a client refuses others.
EditsFit == answer.to = "rename" => Fits(answer.edits)

\* A rename at a service leaves no reference with the old name (rename.go:44:
\* "renames the definition under the cursor and all its references").
ReferencesFollow ==
  answer.to = "rename" =>
    \A place \in RefPlaces(project) :
      MeantPlace(project, place) = answer.at =>
        \E k \in DOMAIN answer.edits : answer.edits[k].place = place

\* References answers with those references that resolve to what the one
\* under the cursor resolves to, from wherever it is asked, each once and
\* whole, and besides them with the definition and the qualifiers of values
\* of an enum at most.
ReferencesExact ==
  answer.to = "references" =>
    LET p == project
        at == answer.at
        def == IF at.slot = "ref" THEN MeantPlace(p, at) ELSE at
        kinds == RefKindsFor(IF def.slot = "member" THEN "member" ELSE NodeAt(p, def).kind)
        hits == {answer.hits[k] : k \in DOMAIN answer.hits}
        whole == {h \in hits : /\ h.place.slot = "ref" /\ RefAt(p, h.place).kind \in kinds
                               /\ h.to = Len(RefAt(p, h.place).name)}
    IN  /\ Cardinality(hits) = Len(answer.hits)
        /\ \A h \in hits \ whole :
             \/ h.place = def
             \/ /\ def.slot = "name" /\ NodeAt(p, def).kind = "enum"
                /\ RefAt(p, h.place).kind = "value"
        /\ def # Silent =>
             {h.place : h \in whole} =
               {place \in RefPlaces(p) : /\ MeantPlace(p, place) = def
                                         /\ RefAt(p, place).kind \in kinds}

\* A typedef stands for its target wherever it is used: the underlying type
\* is the one its target has in the file of the typedef, over any number of
\* files, and is no typedef, unless the chain was given up at the bound.
TypedefsStandForTargets ==
  answer = Silent => \A place \in {q \in RefPlaces(project) : RefAt(project, q).kind \in TypeSlots} :
    LET p == project
        def == MeantBy(p, place)
        end == UnderlyingType(p, place.file, TextAt(p, place))
    IN  end.done =>
          /\ def.kind = "typedef" => end = UnderlyingType(p, def.place.file, TargetOf(p, def))
          /\ end.known /\ end.type # <<>> =>
               ResolveType(p, end.file, end.type).kind \notin {"none", "typedef"}

\* The includes that CycleCheck reports are those that lead back to the file
\* they stand in, of all files that the analysed ones reach, in whatever
\* order these come and however often they reach each other.
CyclesReported ==
  answer = Silent => \A n \in 0 .. Cardinality(DOMAIN project) :
                     \A analysed \in [1 .. n -> DOMAIN project] :
    LET Edge(g, h) == g \in DOMAIN project /\ Contains(project[g].includes, h)
        Path(g, h) == \E k \in 1 .. Cardinality(DOMAIN IncludeName) :
                        \E s \in [0 .. k -> DOMAIN IncludeName] :
                          s[0] = g /\ s[k] = h /\ \A i \in 1 .. k : Edge(s[i - 1], s[i])
    IN  CycleCheck(project, analysed) =
          {e \in (DOMAIN IncludeName) \X (DOMAIN IncludeName) :
             /\ Edge(e[1], e[2]) /\ Path(e[2], e[1])
             /\ \E i \in 1 .. n : e[1] = analysed[i] \/ Path(analysed[i], e[1])}
=============================================================================
