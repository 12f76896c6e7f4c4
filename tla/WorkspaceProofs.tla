--------------------------- MODULE WorkspaceProofs ---------------------------
(***************************************************************************)
(* Theorems about Workspace, for any folders, roots, files, loaders and    *)
(* bounds.                                                                 *)
(***************************************************************************)
EXTENDS Workspace, FiniteSetTheorems, TLAPS

-----------------------------------------------------------------------------
(***************************************************************************)
(* The model.  Its parts are chosen as the first or the deepest of a set,  *)
(* so what they are rests on the sets having such elements.                *)
(***************************************************************************)
FolderStates == [Folder -> FolderState \cup {Inactive}]

LEMMA LeastOf ==
  ASSUME NEW S, S \subseteq Nat, S # {}
  PROVE  \E i \in S : \A j \in S : i <= j
<1>1. PICK i \in S : \A j \in S : ~ (<<j, i>> \in OpToRel(<, Nat))
  BY WFMin, NatLessThanWellFounded
<1>2. ASSUME NEW j \in S PROVE i <= j
  <2>1. ~ (j < i)
    BY <1>1 DEF OpToRel
  <2>2. QED
    BY <2>1
<1>3. QED
  BY <1>2

LEMMA FirstIsElement ==
  ASSUME NEW S, S \subseteq Nat \X Nat, S # {}
  PROVE  First(S) \in S
<1> DEFINE I == {a[1] : a \in S}
<1>1. PICK i \in I : \A j \in I : i <= j
  <2>1. I \subseteq Nat /\ I # {}
    OBVIOUS
  <2>2. QED
    BY <2>1, LeastOf
<1> DEFINE J == {a[2] : a \in {b \in S : b[1] = i}}
<1>2. PICK j \in J : \A k \in J : j <= k
  <2>1. J \subseteq Nat /\ J # {}
    OBVIOUS
  <2>2. QED
    BY <2>1, LeastOf
<1>3. PICK a \in S : a[1] = i /\ a[2] = j
  BY <1>2
<1>4. ASSUME NEW b \in S PROVE a[1] < b[1] \/ (a[1] = b[1] /\ a[2] <= b[2])
  <2>1. b[1] \in I /\ i <= b[1] /\ b[1] \in Nat /\ i \in Nat
    BY <1>1
  <2>2. CASE b[1] = i
    BY <2>2, <1>2, <1>3
  <2>3. CASE b[1] # i
    BY <2>3, <2>1, <1>3
  <2>4. QED
    BY <2>2, <2>3
<1>5. QED
  BY <1>4 DEF First

\* By the number of elements: a smallest set without a deepest root is empty.
LEMMA FiniteHasDeepest ==
  ASSUME NEW R, R \subseteq Root, IsFiniteSet(R), R # {}
  PROVE  \E r \in R : \A s \in R : Depth[s] <= Depth[r]
<1> DEFINE Bad(n) == \E S \in SUBSET R : /\ Cardinality(S) = n /\ S # {}
                                         /\ ~\E r \in S : \A s \in S : Depth[s] <= Depth[r]
           N == {n \in Nat : Bad(n)}
<1>1. ASSUME N # {} PROVE FALSE
  <2>1. PICK n \in N : \A m \in N : n <= m
    BY <1>1, LeastOf
  <2>2. PICK S \in SUBSET R : /\ Cardinality(S) = n /\ S # {}
                              /\ ~\E r \in S : \A s \in S : Depth[s] <= Depth[r]
    BY <2>1
  <2>3. PICK x \in S : TRUE
    BY <2>2
  <2>4. IsFiniteSet(S)
    BY FS_Subset
  <2>5. IsFiniteSet(S \ {x}) /\ Cardinality(S \ {x}) = n - 1
    BY <2>2, <2>3, <2>4, FS_RemoveElement
  <2>6. Cardinality(S \ {x}) \in Nat
    BY <2>5, FS_CardinalityType
  <2>7. \A s \in S : Depth[s] \in Nat
    BY ConstantsAssumption
  <2>8. CASE S \ {x} = {}
    BY <2>8, <2>2, <2>3, <2>7
  <2>9. CASE S \ {x} # {}
    <3>1. n - 1 \notin N
      BY <2>1, <2>5, <2>6
    <3>2. ~ Bad(n - 1)
      BY <3>1, <2>5, <2>6
    <3>3. PICK r \in S \ {x} : \A s \in S \ {x} : Depth[s] <= Depth[r]
      BY <3>2, <2>5, <2>9
    <3>4. CASE Depth[x] <= Depth[r]
      BY <3>3, <3>4, <2>2
    <3>5. CASE ~ (Depth[x] <= Depth[r])
      BY <3>3, <3>5, <2>2, <2>3, <2>7
    <3>6. QED
      BY <3>4, <3>5
  <2>10. QED
    BY <2>8, <2>9
<1>2. Cardinality(R) \in Nat /\ Cardinality(R) \notin N
  BY <1>1, FS_CardinalityType
<1>3. QED
  BY <1>2

LEMMA DeepestIsElement ==
  ASSUME NEW f \in File, NEW R, R \subseteq {r \in Root : f \in Within[r]}, R # {}
  PROVE  Deepest(R) \in R
<1>1. IsFiniteSet(R)
  BY NestingAssumption, FS_Subset
<1>2. PICK r \in R : \A s \in R : Depth[s] <= Depth[r]
  BY <1>1, FiniteHasDeepest
<1>3. QED
  BY <1>2 DEF Deepest

LEMMA SnapshotTyped ==
  ASSUME NEW fs \in FolderStates, NEW d \in Folder
  PROVE  SnapshotOf(fs, d) \in Snapshot
  BY DEF SnapshotOf, FolderStates, FolderState, Snapshot, Empty

LEMMA PlacesTyped ==
  ASSUME NEW fs \in FolderStates
  PROVE  /\ Places(fs) \subseteq Nat \X Nat
         /\ \A a \in Places(fs) : ProjectAt(fs, a) \in Project
<1>1. ASSUME NEW a \in Places(fs) PROVE a \in Nat \X Nat /\ ProjectAt(fs, a) \in Project
  <2>1. PICK i \in DOMAIN FolderOrder :
          \E j \in DOMAIN SnapshotOf(fs, FolderOrder[i]).projects : a = <<i, j>>
    BY DEF Places
  <2>2. i \in Nat /\ FolderOrder[i] \in Folder
    BY ConstantsAssumption
  <2>3. SnapshotOf(fs, FolderOrder[i]).projects \in Seq(Project)
    BY <2>2, SnapshotTyped DEF Snapshot
  <2>4. QED
    BY <2>1, <2>2, <2>3 DEF ProjectAt
<1>2. QED
  BY <1>1

LEMMA RootsTyped ==
  ASSUME NEW fs \in FolderStates
  PROVE  /\ RootsOf(fs) \subseteq Root
         /\ \A r \in RootsOf(fs) : ProjectOf(fs, r) \in Project
<1>1. RootsOf(fs) \subseteq Root
  BY PlacesTyped, ConstantsAssumption DEF RootsOf
<1>2. ASSUME NEW r \in RootsOf(fs) PROVE ProjectOf(fs, r) \in Project
  <2> DEFINE S == {a \in Places(fs) : ProjectAt(fs, a).root = r}
  <2>1. S \subseteq Nat \X Nat /\ S # {}
    BY PlacesTyped DEF RootsOf
  <2>2. First(S) \in S
    BY <2>1, FirstIsElement
  <2>3. QED
    BY <2>2, PlacesTyped DEF ProjectOf
<1>3. QED
  BY <1>1, <1>2

LEMMA TargetsTyped ==
  ASSUME NEW fs \in FolderStates
  PROVE  /\ TargetsOf(fs) \subseteq File
         /\ \A t \in TargetsOf(fs) : ProjectWith(fs, t).root \in RootsOf(fs)
<1>1. AcceptedAt(fs) \subseteq Places(fs)
  BY DEF AcceptedAt
<1>2. TargetsOf(fs) \subseteq File
  BY <1>1, PlacesTyped, ConstantsAssumption DEF TargetsOf
<1>3. ASSUME NEW t \in TargetsOf(fs) PROVE ProjectWith(fs, t).root \in RootsOf(fs)
  <2> DEFINE S == {a \in AcceptedAt(fs) : t \in ProjectAt(fs, a).targets}
  <2>1. S \subseteq Nat \X Nat /\ S # {}
    BY <1>1, PlacesTyped DEF TargetsOf
  <2>2. First(S) \in S
    BY <2>1, FirstIsElement
  <2>3. QED
    BY <2>2, <1>1 DEF ProjectWith, RootsOf
<1>4. QED
  BY <1>2, <1>3

\* Every owner is a root of the model.
LEMMA OwnerIsRoot ==
  ASSUME NEW fs \in FolderStates, NEW docs, NEW f \in File
  PROVE  OwnerOf(ModelOf(fs), docs, f) \in RootsOf(fs) \cup {NoRoot}
<1> DEFINE m == ModelOf(fs)
           Containing(g) == {r \in RootsOf(fs) : g \in Within[r]}
<1>1. DOMAIN m.roots = RootsOf(fs) /\ DOMAIN m.targets = TargetsOf(fs)
  BY DEF ModelOf
<1>2. ASSUME NEW g \in File, Containing(g) # {} PROVE Deepest(Containing(g)) \in RootsOf(fs)
  <2>1. Containing(g) \subseteq {r \in Root : g \in Within[r]}
    BY RootsTyped
  <2>2. QED
    BY <1>2, <2>1, DeepestIsElement
<1>3. ASSUME NEW g \in TargetsOf(fs) PROVE m.targets[g] \in RootsOf(fs)
  <2>1. m.targets[g] = TargetRoot(ProjectWith(fs, g), Containing(g))
    BY DEF ModelOf
  <2>2. g \in File
    BY TargetsTyped
  <2>3. CASE Containing(g) = {}
    BY <2>1, <2>3, TargetsTyped DEF TargetRoot
  <2>4. CASE Containing(g) # {}
    BY <2>1, <2>2, <2>4, <1>2 DEF TargetRoot
  <2>5. QED
    BY <2>3, <2>4
<1>4. RootFor(m, f) \in RootsOf(fs) \cup {NoRoot}
  BY <1>1, <1>2, <1>3 DEF RootFor
<1>5. QED
  BY <1>1, <1>3, <1>4 DEF OwnerOf

LEMMA IssuesTyped ==
  ASSUME NEW fs \in FolderStates
  PROVE  ModelOf(fs).issues \subseteq Config
<1>1. \A d \in Folder : SnapshotOf(fs, d).issues \subseteq Config
  BY SnapshotTyped DEF Snapshot
<1>2. \A a \in Places(fs) : ProjectAt(fs, a).config \in Config
  BY PlacesTyped, ConstantsAssumption
<1>3. QED
  BY <1>1, <1>2 DEF ModelOf

\* The model looks at the snapshots alone.
LEMMA SameModel ==
  ASSUME NEW fs \in FolderStates, NEW gs \in FolderStates,
         \A d \in Folder : SnapshotOf(fs, d) = SnapshotOf(gs, d)
  PROVE  ModelOf(fs) = ModelOf(gs)
<1>1. \A i \in DOMAIN FolderOrder : FolderOrder[i] \in Folder
  BY ConstantsAssumption
<1>2. Places(fs) = Places(gs)
  BY <1>1 DEF Places
<1>3. \A a \in Places(fs) : ProjectAt(fs, a) = ProjectAt(gs, a)
  BY <1>1 DEF Places, ProjectAt
<1>4. RootsOf(fs) = RootsOf(gs)
  BY <1>2, <1>3 DEF RootsOf
<1>5. ASSUME NEW r \in RootsOf(fs) PROVE ProjectOf(fs, r) = ProjectOf(gs, r)
  <2> DEFINE S == {a \in Places(fs) : ProjectAt(fs, a).root = r}
             T == {a \in Places(gs) : ProjectAt(gs, a).root = r}
  <2>1. S = T
    BY <1>2, <1>3
  <2>2. S \subseteq Nat \X Nat /\ S # {}
    BY PlacesTyped DEF RootsOf
  <2>3. First(S) \in S
    BY <2>2, FirstIsElement
  <2>4. QED
    BY <2>1, <2>3, <1>3 DEF ProjectOf
<1>6. AcceptedAt(fs) = AcceptedAt(gs) /\ AcceptedAt(fs) \subseteq Places(fs)
  <2>1. \A a \in Places(fs) : ProjectAt(fs, a).root \in RootsOf(fs)
    BY DEF RootsOf
  <2>2. QED
    BY <1>2, <1>3, <1>5, <2>1 DEF AcceptedAt
<1>7. TargetsOf(fs) = TargetsOf(gs)
  BY <1>3, <1>6 DEF TargetsOf
<1>8. ASSUME NEW t \in TargetsOf(fs) PROVE ProjectWith(fs, t) = ProjectWith(gs, t)
  <2> DEFINE S == {a \in AcceptedAt(fs) : t \in ProjectAt(fs, a).targets}
             T == {a \in AcceptedAt(gs) : t \in ProjectAt(gs, a).targets}
  <2>1. S = T
    BY <1>3, <1>6
  <2>2. S \subseteq Nat \X Nat /\ S # {}
    BY PlacesTyped, <1>6 DEF TargetsOf
  <2>3. First(S) \in S
    BY <2>2, FirstIsElement
  <2>4. QED
    BY <2>1, <2>3, <1>3, <1>6 DEF ProjectWith
<1>9. ModelOf(fs).roots = ModelOf(gs).roots
  BY <1>4, <1>5 DEF ModelOf
<1>10. ModelOf(fs).targets = ModelOf(gs).targets
  BY <1>4, <1>7, <1>8 DEF ModelOf
<1>11. ModelOf(fs).issues = ModelOf(gs).issues
  BY <1>2, <1>3, <1>6 DEF ModelOf
<1>12. QED
  BY <1>9, <1>10, <1>11 DEF ModelOf

-----------------------------------------------------------------------------
(***************************************************************************)
(* The invariant.  What is due at a view is known to it, so that what it   *)
(* publishes is tracked; and the load that a didOpen waits for is the only *)
(* one of its kind, so that its commit goes on with the right file.        *)
(***************************************************************************)
DueKnown == \A r \in Root : views[r] # NoView => views[r].due \subseteq views[r].known

Syncing ==
  /\ opening.step # "idle" => opening.file \in File
  /\ \A l \in DOMAIN loads : loads[l].sync =>
       opening.step = "loading" /\ \A k \in DOMAIN loads : loads[k].sync => k = l

Typed == TypeOK /\ DueKnown /\ Syncing

IInv == Typed /\ SnapshotsFollowed /\ OwnedTracked /\ ShownTracked

LEMMA UpdatedView ==
  ASSUME NEW v \in View, NEW F, F \subseteq File, v.due \subseteq v.known
  PROVE  /\ Updated(v, F) \in View
         /\ Updated(v, F).paths = v.paths
         /\ Updated(v, F).due \subseteq Updated(v, F).known
         /\ v.known \cup F \subseteq Updated(v, F).known
<1>1. CASE F = {}
  BY <1>1 DEF Updated
<1>2. CASE F # {}
  <2> DEFINE known == v.known \cup F
             due == F \cup Reaching(F, known)
  <2>1. Updated(v, F) = [v EXCEPT !.known = known, !.due = due]
    BY <1>2 DEF Updated
  <2>2. known \in SUBSET File /\ due \in SUBSET File /\ due \subseteq known
    BY DEF View, Reaching
  <2> HIDE DEF known, due
  <2>3. Updated(v, F) = [paths |-> v.paths, known |-> known, due |-> due]
    BY <2>1 DEF View
  <2>4. v.paths \in {p.paths : p \in Project}
    BY DEF View
  <2>5. QED
    BY <2>2, <2>3, <2>4 DEF View, known
<1>3. QED
  BY <1>1, <1>2

LEMMA EvictedView ==
  ASSUME NEW v \in View, NEW F
  PROVE  /\ Evicted(v, F) \in View
         /\ Evicted(v, F).paths = v.paths
         /\ Evicted(v, F).due \subseteq Evicted(v, F).known
         /\ Evicted(v, F).known = v.known \ F
<1> DEFINE known == v.known \ F
           due == {}
<1>1. Evicted(v, F) = [v EXCEPT !.known = known, !.due = due]
  BY DEF Evicted
<1>2. known \in SUBSET File /\ due \in SUBSET File /\ due \subseteq known
  BY DEF View
<1> HIDE DEF known, due
<1>3. Evicted(v, F) = [paths |-> v.paths, known |-> known, due |-> due]
  BY <1>1 DEF View
<1>4. v.paths \in {p.paths : p \in Project}
  BY DEF View
<1>5. QED
  BY <1>2, <1>3, <1>4 DEF View, known

\* In a followed state there is a view exactly for the roots of the model.
LEMMA ViewsOfModel ==
  ASSUME Typed, SnapshotsFollowed
  PROVE  /\ model = ModelOf(folders) /\ folders \in FolderStates
         /\ DOMAIN model.roots = RootsOf(folders) /\ RootsOf(folders) \subseteq Root
         /\ \A r \in Root : r \in Live(views) <=> r \in RootsOf(folders)
         /\ \A r \in Live(views) : r \in Root /\ views[r] \in View /\ views[r].due \subseteq views[r].known
         /\ \A r \in RootsOf(folders) : views[r].paths = model.roots[r].paths
<1>1. model = ModelOf(folders) /\ folders \in FolderStates
  BY DEF SnapshotsFollowed, Typed, TypeOK, FolderStates
<1>2. DOMAIN model.roots = RootsOf(folders)
  BY <1>1 DEF ModelOf
<1>3. RootsOf(folders) \subseteq Root
  BY <1>1, RootsTyped
<1>4. ASSUME NEW r \in Root PROVE r \in Live(views) <=> r \in RootsOf(folders)
  BY <1>1, <1>2, Zenon DEF SnapshotsFollowed, Live
<1>5. \A r \in Live(views) : r \in Root /\ views[r] \in View /\ views[r].due \subseteq views[r].known
  BY DEF Typed, TypeOK, DueKnown, Live
<1>6. ASSUME NEW r \in RootsOf(folders) PROVE views[r].paths = model.roots[r].paths
  <2>1. r \in Root /\ r \in DOMAIN ModelOf(folders).roots
    BY <1>1, <1>2, <1>3
  <2>2. views[r].paths = ModelOf(folders).roots[r].paths
    BY <2>1 DEF SnapshotsFollowed
  <2>3. QED
    BY <1>1, <2>2
<1>7. QED
  BY <1>1, <1>2, <1>3, <1>4, <1>5, <1>6

\* What reconciling leaves of a view, and what of it is not cleared.
LEMMA RemainingView ==
  ASSUME Typed, SnapshotsFollowed, NEW fs \in FolderStates, NEW r \in RootsOf(fs)
  PROVE  /\ Remaining(r, ModelOf(fs)) \in View
         /\ Remaining(r, ModelOf(fs)).paths = ModelOf(fs).roots[r].paths
         /\ Remaining(r, ModelOf(fs)).due \subseteq Remaining(r, ModelOf(fs)).known
         /\ r \in Live(views) => views[r].known \ Gone(ModelOf(fs)) \subseteq Remaining(r, ModelOf(fs)).known
<1> DEFINE next == ModelOf(fs)
<1>1. r \in Root /\ next.roots[r] \in Project /\ DOMAIN next.roots = RootsOf(fs)
  BY RootsTyped DEF ModelOf
<1> HIDE DEF next
<1>2. CASE r \in Live(views) /\ Kept(r, next)
  <2>1. views[r] \in View /\ views[r].due \subseteq views[r].known
    BY <1>2, ViewsOfModel
  <2>2. views[r].paths = next.roots[r].paths
    BY <1>2, <1>1, ViewsOfModel DEF Kept
  <2>3. Lost(r, next) \subseteq Gone(next)
    BY <1>2 DEF Gone
  <2>4. CASE Lost(r, next) = {}
    BY <1>2, <2>1, <2>2, <2>4 DEF Remaining, next
  <2>5. CASE Lost(r, next) # {}
    <3>1. Remaining(r, next) = Evicted(views[r], Lost(r, next))
      BY <1>2, <2>5 DEF Remaining
    <3>2. QED
      BY <3>1, <2>1, <2>2, <2>3, EvictedView DEF next
  <2>6. QED
    BY <2>4, <2>5
<1>3. CASE ~ (r \in Live(views) /\ Kept(r, next))
  <2>1. Remaining(r, next) = [paths |-> next.roots[r].paths, known |-> {}, due |-> {}]
    BY <1>3 DEF Remaining
  <2>2. r \in Live(views) => views[r].known \subseteq Gone(next)
    BY <1>3 DEF Gone
  <2>3. next.roots[r].paths \in {p.paths : p \in Project}
    BY <1>1
  <2>4. QED
    BY <2>1, <2>2, <2>3 DEF View, next
<1>4. QED
  BY <1>2, <1>3

\* Reconciling re-establishes everything about views, whatever the folders are
\* then: what each of the properties says of the next state.
LEMMA ReconcileFollows ==
  ASSUME Typed, SnapshotsFollowed, ShownTracked, NEW fs \in FolderStates, Reconcile(fs)
  PROVE  /\ model' = ModelOf(fs) /\ issuesShown' = model'.issues /\ issuesShown' \subseteq Config
         /\ views' \in [Root -> View \cup {NoView}]
         /\ shown' \in [File -> Root \cup {NoRoot}]
         /\ DueKnown' /\ ShownTracked'
         /\ \A r \in Root : IF r \in DOMAIN model'.roots
                            THEN views'[r] # NoView /\ views'[r].paths = model'.roots[r].paths
                            ELSE views'[r] = NoView
         /\ \A f \in File : LET r == OwnerOf(model', documents, f)
                            IN  r # NoRoot => f \in views'[r].known
<1> DEFINE next == ModelOf(fs)
           owned(r) == OwnedFiles(next, documents, r)
           at(r) == Updated(Remaining(r, next), owned(r))
<1>1. /\ model' = next
      /\ views' = [r \in Root |-> IF r \notin DOMAIN next.roots THEN NoView ELSE at(r)]
      /\ shown' = [f \in File |-> IF f \in Gone(next) THEN NoRoot ELSE shown[f]]
      /\ issuesShown' = IssuesPublished(model.issues, next.issues)
  BY DEF Reconcile
<1>2. DOMAIN next.roots = RootsOf(fs) /\ RootsOf(fs) \subseteq Root
  BY RootsTyped DEF ModelOf
<1>3. \A r \in RootsOf(fs) : owned(r) \subseteq File
  BY DEF OwnedFiles
<1>4. ASSUME NEW r \in RootsOf(fs)
      PROVE  /\ at(r) \in View /\ at(r).paths = next.roots[r].paths
             /\ at(r).due \subseteq at(r).known
             /\ owned(r) \subseteq at(r).known
             /\ r \in Live(views) => views[r].known \ Gone(next) \subseteq at(r).known
  <2>1. Remaining(r, next) \in View /\ Remaining(r, next).due \subseteq Remaining(r, next).known
    BY RemainingView
  <2>2. /\ at(r) \in View /\ at(r).paths = Remaining(r, next).paths
        /\ at(r).due \subseteq at(r).known
        /\ Remaining(r, next).known \cup owned(r) \subseteq at(r).known
    BY <2>1, <1>3, UpdatedView
  <2>3. QED
    BY <2>2, RemainingView
<1>5. NoView \notin View /\ NoRoot \notin Root
  BY ConstantsAssumption
<1>6. \A f \in File : OwnerOf(next, documents, f) \in RootsOf(fs) \cup {NoRoot}
  BY OwnerIsRoot
<1>7. next.issues \subseteq Config
  BY IssuesTyped
<1> HIDE DEF next, at
<1>8. /\ \A r \in RootsOf(fs) : views'[r] = at(r)
      /\ \A r \in Root \ RootsOf(fs) : views'[r] = NoView
  BY <1>1, <1>2
<1>9. views' \in [Root -> View \cup {NoView}]
  BY <1>1, <1>2, <1>4
<1>10. DueKnown'
  BY <1>4, <1>5, <1>8 DEF DueKnown
<1>11. issuesShown' = next.issues
  <2>1. issuesShown = model.issues
    BY ViewsOfModel DEF SnapshotsFollowed
  <2>2. QED
    BY <1>1, <1>7, <2>1 DEF IssuesPublished
<1>12. shown' \in [File -> Root \cup {NoRoot}]
  BY <1>1 DEF Typed, TypeOK
<1>13. ASSUME NEW r \in Root
       PROVE  IF r \in DOMAIN next.roots
              THEN views'[r] # NoView /\ views'[r].paths = next.roots[r].paths
              ELSE views'[r] = NoView
  BY <1>2, <1>4, <1>5, <1>8
<1>14. ASSUME NEW f \in File, OwnerOf(next, documents, f) # NoRoot
       PROVE  f \in views'[OwnerOf(next, documents, f)].known
  <2> DEFINE r == OwnerOf(next, documents, f)
  <2>1. r \in RootsOf(fs) /\ f \in owned(r)
    BY <1>6, <1>14 DEF OwnedFiles
  <2>2. QED
    BY <2>1, <1>4, <1>8
<1>15. ASSUME NEW f \in File, shown'[f] # NoRoot
       PROVE  views'[shown'[f]] # NoView /\ f \in views'[shown'[f]].known
  <2> DEFINE r == shown[f]
  <2>1. shown'[f] = r /\ f \notin Gone(next) /\ r # NoRoot
    BY <1>1, <1>15
  <2>2. r \in Root /\ views[r] # NoView /\ f \in views[r].known
    BY <2>1 DEF ShownTracked, Typed, TypeOK
  <2>3. r \in Live(views)
    BY <2>2 DEF Live
  <2>4. Kept(r, next)
    BY <2>1, <2>2, <2>3 DEF Gone
  <2>5. r \in RootsOf(fs)
    BY <2>4, <1>2 DEF Kept
  <2>6. f \in at(r).known
    BY <2>1, <2>2, <2>3, <2>5, <1>4
  <2>7. QED
    BY <2>1, <2>5, <2>6, <1>4, <1>5, <1>8
<1>16. ShownTracked'
  BY <1>15 DEF ShownTracked
<1>17. model' = ModelOf(fs) /\ issuesShown' = model'.issues /\ issuesShown' \subseteq Config
  BY <1>1, <1>7, <1>11 DEF next
<1>18. \A r \in Root : IF r \in DOMAIN model'.roots
                     THEN views'[r] # NoView /\ views'[r].paths = model'.roots[r].paths
                     ELSE views'[r] = NoView
  BY <1>1, <1>13
<1>19. \A f \in File : LET r == OwnerOf(model', documents, f)
                     IN  r # NoRoot => f \in views'[r].known
  BY <1>1, <1>14
<1>20. QED
  BY <1>9, <1>10, <1>12, <1>16, <1>17, <1>18, <1>19

-----------------------------------------------------------------------------
(***************************************************************************)
(* What the rest of the properties follows from.  A step either reconciles *)
(* the folders it leaves, or leaves the snapshots alone; then only a view  *)
(* or the documents change.                                                *)
(***************************************************************************)
RoutingTyped ==
  /\ views \in [Root -> View \cup {NoView}]
  /\ shown \in [File -> Root \cup {NoRoot}]
  /\ issuesShown \subseteq Config

Followed == RoutingTyped /\ DueKnown /\ SnapshotsFollowed /\ OwnedTracked /\ ShownTracked

LEMMA Reconciled ==
  ASSUME IInv, NEW fs \in FolderStates, Reconcile(fs), folders' \in FolderStates,
         \A d \in Folder : SnapshotOf(folders', d) = SnapshotOf(fs, d),
         documents' = documents
  PROVE  Followed'
<1> DEFINE next == ModelOf(fs)
<1>1. /\ model' = next /\ issuesShown' = model'.issues /\ issuesShown' \subseteq Config
      /\ views' \in [Root -> View \cup {NoView}]
      /\ shown' \in [File -> Root \cup {NoRoot}]
      /\ DueKnown' /\ ShownTracked'
      /\ \A r \in Root : IF r \in DOMAIN model'.roots
                         THEN views'[r] # NoView /\ views'[r].paths = model'.roots[r].paths
                         ELSE views'[r] = NoView
      /\ \A f \in File : LET r == OwnerOf(model', documents, f)
                         IN  r # NoRoot => f \in views'[r].known
  BY ReconcileFollows DEF IInv
<1>2. ModelOf(folders') = next
  BY SameModel
<1> HIDE DEF next
<1>3. ModelOf(folders)' = model'
  BY <1>1, <1>2
<1>4. SnapshotsFollowed'
  BY <1>1, <1>3 DEF SnapshotsFollowed
<1>5. OwnedTracked'
  BY <1>1 DEF OwnedTracked
<1>6. RoutingTyped'
  BY <1>1 DEF RoutingTyped
<1>7. QED
  BY <1>1, <1>4, <1>5, <1>6 DEF Followed

LEMMA Unrouted ==
  ASSUME IInv, folders' \in FolderStates,
         \A d \in Folder : SnapshotOf(folders', d) = SnapshotOf(folders, d),
         UNCHANGED routing, documents' = documents
  PROVE  Followed'
<1>1. folders \in FolderStates
  BY DEF IInv, Typed, TypeOK, FolderStates
<1>2. ModelOf(folders') = ModelOf(folders)
  BY <1>1, SameModel
<1>3. SnapshotsFollowed'
  BY <1>2 DEF SnapshotsFollowed, IInv, routing
<1>4. OwnedTracked' /\ ShownTracked' /\ DueKnown'
  BY DEF OwnedTracked, ShownTracked, DueKnown, IInv, Typed, routing
<1>5. RoutingTyped'
  BY DEF RoutingTyped, IInv, Typed, TypeOK, routing
<1>6. QED
  BY <1>3, <1>4, <1>5 DEF Followed

\* A folder whose loads are let go, or begin.
LEMMA LoadingState ==
  ASSUME NEW s \in FolderState, NEW b \in BOOLEAN
  PROVE  /\ [s EXCEPT !.loading = b] \in FolderState
         /\ [s EXCEPT !.loading = b].snapshot = s.snapshot
         /\ [s EXCEPT !.loading = b].id = s.id
         /\ [s EXCEPT !.loading = b].origin = s.origin
  BY DEF FolderState

LEMMA NewState ==
  ASSUME NEW id \in Nat \ {0}
  PROVE  /\ NewFolder(id) \in FolderState
         /\ NewFolder(id).snapshot = Empty
         /\ NewFolder(id).origin = 0
<1>1. Empty \in Snapshot
  BY DEF Empty, Snapshot
<1>2. QED
  BY <1>1 DEF NewFolder, FolderState

LEMMA LoadLockedLoads ==
  ASSUME NEW fs \in FolderStates, NEW D, loads \in Seq(LoadState), LoadLocked(fs, D)
  PROVE  /\ folders' \in FolderStates
         /\ \A d \in Folder : SnapshotOf(folders', d) = SnapshotOf(fs, d)
         /\ \A d \in Folder : fs[d] = Inactive => folders'[d] = Inactive
         /\ \A d \in Folder : fs[d] # Inactive =>
              folders'[d].origin = fs[d].origin /\ folders'[d].id = fs[d].id
         /\ loads' \in Seq(LoadState)
         /\ \A l \in DOMAIN loads' : loads'[l].sync => l \in DOMAIN loads /\ loads[l].sync
         /\ \A l \in DOMAIN loads : loads'[l] = loads[l]
<1> DEFINE batch == {d \in D : fs[d] # Inactive /\ ~fs[d].loading}
           load == [ids     |-> [d \in Folder |-> IF d \in batch THEN fs[d].id ELSE 0],
                    results |-> [d \in Folder |-> Pending],
                    sync    |-> FALSE]
<1>0. \A d \in Folder : fs[d] # Inactive => fs[d] \in FolderState
  BY DEF FolderStates
<1>1. CASE ~loader \/ batch = {}
  <2>1. folders' = fs /\ loads' = loads
    BY <1>1 DEF LoadLocked
  <2>2. QED
    BY <2>1
<1>2. CASE ~ (~loader \/ batch = {})
  <2>1. /\ folders' = [d \in Folder |-> IF d \in batch THEN [fs[d] EXCEPT !.loading = TRUE] ELSE fs[d]]
        /\ loads' = Append(loads, load)
    BY <1>2, Zenon DEF LoadLocked
  <2>2. load \in LoadState
    <3>1. \A d \in Folder : (IF d \in batch THEN fs[d].id ELSE 0) \in Nat
      BY <1>0 DEF FolderState
    <3>2. QED
      BY <3>1 DEF LoadState
  <2>3. ASSUME NEW d \in Folder
        PROVE  /\ folders'[d] \in FolderState \cup {Inactive}
               /\ SnapshotOf(folders', d) = SnapshotOf(fs, d)
               /\ fs[d] = Inactive => folders'[d] = Inactive
               /\ fs[d] # Inactive => folders'[d].origin = fs[d].origin /\ folders'[d].id = fs[d].id
    <3>1. CASE d \in batch
      <4>1. fs[d] \in FolderState /\ fs[d] # Inactive
        BY <1>0, <3>1
      <4>2. folders'[d] = [fs[d] EXCEPT !.loading = TRUE]
        BY <2>1, <3>1
      <4>3. folders'[d] \in FolderState /\ folders'[d].snapshot = fs[d].snapshot
            /\ folders'[d].origin = fs[d].origin /\ folders'[d].id = fs[d].id
        BY <4>1, <4>2, LoadingState
      <4>4. folders'[d] # Inactive
        BY <4>3, ConstantsAssumption
      <4>5. QED
        BY <4>1, <4>3, <4>4 DEF SnapshotOf
    <3>2. CASE d \notin batch
      <4>1. folders'[d] = fs[d]
        BY <2>1, <3>2
      <4>2. QED
        BY <4>1 DEF SnapshotOf, FolderStates
    <3>3. QED
      BY <3>1, <3>2
  <2>4. folders' \in FolderStates
    BY <2>1, <2>3 DEF FolderStates
  <2>5. /\ loads' \in Seq(LoadState) /\ DOMAIN loads' = 1..Len(loads) + 1
        /\ \A l \in DOMAIN loads : loads'[l] = loads[l]
        /\ loads'[Len(loads) + 1] = load
    BY <2>1, <2>2
  <2>6. ASSUME NEW l \in DOMAIN loads', loads'[l].sync PROVE l \in DOMAIN loads /\ loads[l].sync
    <3>1. load.sync = FALSE
      OBVIOUS
    <3> HIDE DEF load
    <3>2. l # Len(loads) + 1
      BY <2>5, <2>6, <3>1
    <3>3. QED
      BY <2>5, <2>6, <3>2
  <2>7. QED
    BY <2>3, <2>4, <2>5, <2>6
<1>3. QED
  BY <1>1, <1>2

-----------------------------------------------------------------------------
(***************************************************************************)
(* Steps that leave the folders alone.                                     *)
(***************************************************************************)
LEMMA ViewsKept ==
  ASSUME IInv, UNCHANGED <<folders, model, issuesShown>>,
         \A r \in Root : /\ views'[r] = NoView <=> views[r] = NoView
                         /\ views[r] # NoView => views'[r].paths = views[r].paths
  PROVE  SnapshotsFollowed'
<1> DEFINE m == ModelOf(folders)
<1>1. ModelOf(folders)' = m
  OBVIOUS
<1>2. model' = m /\ issuesShown' = m.issues
  BY DEF IInv, SnapshotsFollowed
<1>3. \A r \in Root : IF r \in DOMAIN m.roots
                      THEN views[r] # NoView /\ views[r].paths = m.roots[r].paths
                      ELSE views[r] = NoView
  BY DEF IInv, SnapshotsFollowed
<1> HIDE DEF m
<1>4. \A r \in Root : IF r \in DOMAIN m.roots
                      THEN views'[r] # NoView /\ views'[r].paths = m.roots[r].paths
                      ELSE views'[r] = NoView
  BY <1>3
<1>5. QED
  BY <1>1, <1>2, <1>4 DEF SnapshotsFollowed

\* A view that takes the place of another of its root.
LEMMA ViewReplaced ==
  ASSUME IInv, UNCHANGED <<folders, model, issuesShown>>,
         NEW r \in Live(views), NEW v \in View, v.due \subseteq v.known, v.paths = views[r].paths,
         views' = [views EXCEPT ![r] = v]
  PROVE  SnapshotsFollowed' /\ DueKnown' /\ views' \in [Root -> View \cup {NoView}]
<1>1. r \in Root /\ views[r] # NoView /\ views \in [Root -> View \cup {NoView}]
  BY DEF Live, IInv, Typed, TypeOK
<1>2. v # NoView
  BY ConstantsAssumption
<1>3. SnapshotsFollowed'
  BY <1>1, <1>2, ViewsKept
<1>4. DueKnown'
  BY <1>1, <1>2 DEF DueKnown, IInv, Typed
<1>5. QED
  BY <1>1, <1>3, <1>4

LEMMA ApplyFollows ==
  ASSUME IInv, NEW f \in File, NEW docs, NEW closes \in BOOLEAN, folders' = folders,
         Apply(f, docs, closes), docs \ {f} = documents \ {f}
  PROVE  Followed'
<1> DEFINE before == OwnerOf(model, documents, f)
           owner == OwnerOf(model, docs, f)
           evicts == owner = NoRoot /\ closes /\ before # NoRoot /\ before \in Live(views)
<1>1. /\ documents' = docs
      /\ views' = CASE owner \in Live(views) -> [views EXCEPT ![owner] = Updated(@, {f})]
                    [] evicts -> [views EXCEPT ![before] = Evicted(@, {f})]
                    [] OTHER -> views
      /\ shown' = IF evicts THEN [shown EXCEPT ![f] = NoRoot] ELSE shown
      /\ UNCHANGED <<model, issuesShown>>
  BY DEF Apply
<1>2. model = ModelOf(folders) /\ folders \in FolderStates
  BY ViewsOfModel DEF IInv
<1>3. owner \in RootsOf(folders) \cup {NoRoot}
  BY <1>2, OwnerIsRoot
<1>4. NoRoot \notin Root /\ NoView \notin View
  BY ConstantsAssumption
<1>5. owner # NoRoot => owner \in Live(views)
  <2>1. RootsOf(folders) \subseteq Root /\ \A r \in Root : r \in Live(views) <=> r \in RootsOf(folders)
    BY ViewsOfModel DEF IInv
  <2>2. QED
    BY <1>3, <2>1
<1>6. NoRoot \notin Live(views)
  BY <1>4 DEF Live
<1>7. \A g \in File \ {f} : OwnerOf(model, docs, g) = OwnerOf(model, documents, g)
  <2>1. \A g \in File \ {f} : g \in docs <=> g \in documents
    OBVIOUS
  <2>2. QED
    BY <2>1 DEF OwnerOf
<1>8. \A g \in File : OwnerOf(model, documents, g) # NoRoot =>
         g \in views[OwnerOf(model, documents, g)].known
  BY DEF IInv, OwnedTracked
<1>9. /\ shown \in [File -> Root \cup {NoRoot}] /\ issuesShown \subseteq Config
      /\ views \in [Root -> View \cup {NoView}]
  BY DEF IInv, Typed, TypeOK
<1>10. \A g \in File : shown[g] # NoRoot =>
         shown[g] \in Root /\ views[shown[g]] # NoView /\ g \in views[shown[g]].known
  BY <1>9 DEF IInv, ShownTracked
<1>11. \A r \in Live(views) : r \in Root /\ views[r] \in View /\ views[r].due \subseteq views[r].known
  BY ViewsOfModel DEF IInv
<1>12. ASSUME NEW g \in File PROVE OwnerOf(model, docs, g)' = OwnerOf(model, docs, g)
  BY <1>1 DEF OwnerOf, RootFor
<1> HIDE DEF owner, before, evicts
<1>13. CASE owner \in Live(views)
  <2> DEFINE v == Updated(views[owner], {f})
  <2>1. /\ v \in View /\ v.paths = views[owner].paths /\ v.due \subseteq v.known
        /\ views[owner].known \cup {f} \subseteq v.known
    BY <1>13, <1>11, UpdatedView
  <2>2. views' = [views EXCEPT ![owner] = v] /\ shown' = shown
    BY <1>1, <1>6, <1>13 DEF evicts
  <2> HIDE DEF v
  <2>3. SnapshotsFollowed' /\ DueKnown' /\ views' \in [Root -> View \cup {NoView}]
    BY <1>1, <1>13, <2>1, <2>2, ViewReplaced
  <2>4. \A r \in Root : views[r] # NoView => views[r].known \subseteq views'[r].known /\ views'[r] # NoView
    BY <1>4, <1>9, <2>1, <2>2
  <2>5. f \in views'[owner].known
    BY <1>9, <1>11, <1>13, <2>1, <2>2
  <2>6. ASSUME NEW g \in File, OwnerOf(model, docs, g) # NoRoot
        PROVE  g \in views'[OwnerOf(model, docs, g)].known
    <3>1. CASE g = f
      BY <3>1, <2>5 DEF owner
    <3>2. CASE g # f
      <4> DEFINE r == OwnerOf(model, documents, g)
      <4>1. OwnerOf(model, docs, g) = r /\ r # NoRoot
        BY <1>7, <2>6, <3>2
      <4>2. r \in Root /\ views[r] # NoView
        <5>1. r \in RootsOf(folders)
          BY <1>2, <4>1, OwnerIsRoot
        <5>2. QED
          BY <5>1, ViewsOfModel DEF IInv, Live
      <4>3. QED
        BY <1>8, <2>4, <4>1, <4>2
    <3>3. QED
      BY <3>1, <3>2
  <2>7. OwnedTracked'
    BY <1>1, <2>6 DEF OwnedTracked
  <2>8. ShownTracked'
    BY <1>10, <2>2, <2>4 DEF ShownTracked
  <2>9. RoutingTyped'
    BY <1>1, <1>9, <2>2, <2>3 DEF RoutingTyped
  <2>10. QED
    BY <2>3, <2>7, <2>8, <2>9 DEF Followed
<1>14. CASE owner = NoRoot
  <2>1. owner \notin Live(views)
    BY <1>6, <1>14
  <2>2. ASSUME NEW g \in File, OwnerOf(model, docs, g) # NoRoot
        PROVE  /\ g # f
               /\ OwnerOf(model, docs, g) = OwnerOf(model, documents, g)
               /\ OwnerOf(model, docs, g) \in Live(views)
               /\ g \in views[OwnerOf(model, docs, g)].known
    <3>1. g # f
      BY <1>14, <2>2 DEF owner
    <3>2. OwnerOf(model, docs, g) = OwnerOf(model, documents, g)
      BY <1>7, <3>1
    <3>3. OwnerOf(model, documents, g) \in RootsOf(folders)
      BY <1>2, <2>2, <3>2, OwnerIsRoot
    <3>4. QED
      BY <1>8, <2>2, <3>1, <3>2, <3>3, ViewsOfModel DEF IInv
  <2>3. CASE ~evicts
    <3>1. views' = views /\ shown' = shown
      BY <1>1, <2>1, <2>3
    <3>2. SnapshotsFollowed'
      BY <1>1, <3>1, ViewsKept
    <3>3. DueKnown' /\ ShownTracked' /\ RoutingTyped'
      BY <1>1, <1>9, <3>1 DEF DueKnown, ShownTracked, RoutingTyped, IInv, Typed
    <3>4. OwnedTracked'
      BY <1>1, <2>2, <3>1 DEF OwnedTracked
    <3>5. QED
      BY <3>2, <3>3, <3>4 DEF Followed
  <2>4. CASE evicts
    <3> DEFINE v == Evicted(views[before], {f})
    <3>1. before \in Live(views)
      BY <2>4 DEF evicts
    <3>2. /\ v \in View /\ v.paths = views[before].paths /\ v.due \subseteq v.known
          /\ v.known = views[before].known \ {f}
      BY <3>1, <1>11, EvictedView
    <3>3. views' = [views EXCEPT ![before] = v] /\ shown' = [shown EXCEPT ![f] = NoRoot]
      BY <1>1, <2>1, <2>4
    <3> HIDE DEF v
    <3>4. SnapshotsFollowed' /\ DueKnown' /\ views' \in [Root -> View \cup {NoView}]
      BY <1>1, <3>1, <3>2, <3>3, ViewReplaced
    <3>5. \A r \in Root : views[r] # NoView =>
            views[r].known \ {f} \subseteq views'[r].known /\ views'[r] # NoView
      BY <1>4, <1>9, <3>2, <3>3
    <3>6. OwnedTracked'
      <4>1. \A r \in Live(views) : r \in Root /\ views[r] # NoView
        BY DEF Live
      <4>2. QED
        BY <1>1, <2>2, <3>5, <4>1 DEF OwnedTracked
    <3>7. ShownTracked'
      <4>1. ASSUME NEW g \in File, shown'[g] # NoRoot
            PROVE  views'[shown'[g]] # NoView /\ g \in views'[shown'[g]].known
        <5>1. g # f /\ shown'[g] = shown[g]
          BY <1>9, <3>3, <4>1
        <5>2. QED
          BY <1>10, <3>5, <4>1, <5>1
      <4>2. QED
        BY <4>1 DEF ShownTracked
    <3>8. RoutingTyped'
      BY <1>1, <1>9, <3>3, <3>4 DEF RoutingTyped
    <3>9. QED
      BY <3>4, <3>6, <3>7, <3>8 DEF Followed
  <2>5. QED
    BY <2>3, <2>4
<1>15. QED
  BY <1>5, <1>13, <1>14

LEMMA ParseIncludeFollows ==
  ASSUME IInv, NEW r \in Root, NEW f \in File, ParseInclude(r, f)
  PROVE  Followed'
<1> DEFINE known == views[r].known \cup {f}
           v == [views[r] EXCEPT !.known = known]
<1>1. /\ r \in Live(views) /\ views' = [views EXCEPT ![r] = v]
      /\ UNCHANGED <<folders, model, issuesShown, documents, shown>>
  BY DEF ParseInclude, loading
<1>2. views[r] \in View /\ views[r].due \subseteq views[r].known
  BY <1>1, ViewsOfModel DEF IInv
<1>3. v \in View /\ v.paths = views[r].paths /\ v.due \subseteq v.known /\ v.known = known
  BY <1>2 DEF View
<1> HIDE DEF v
<1>4. SnapshotsFollowed' /\ DueKnown' /\ views' \in [Root -> View \cup {NoView}]
  BY <1>1, <1>3, ViewReplaced
<1>5. \A s \in Root : views[s] # NoView => views[s].known \subseteq views'[s].known /\ views'[s] # NoView
  <2>1. NoView \notin View /\ views \in [Root -> View \cup {NoView}]
    BY ConstantsAssumption DEF IInv, Typed, TypeOK
  <2>2. QED
    BY <1>1, <1>3, <2>1
<1>6. OwnedTracked'
  <2>1. ASSUME NEW g \in File, OwnerOf(model, documents, g) # NoRoot
        PROVE  g \in views'[OwnerOf(model, documents, g)].known
    <3>1. model = ModelOf(folders) /\ folders \in FolderStates
      BY ViewsOfModel DEF IInv
    <3>2. OwnerOf(model, documents, g) \in RootsOf(folders)
      BY <2>1, <3>1, OwnerIsRoot
    <3>3. OwnerOf(model, documents, g) \in Root /\ views[OwnerOf(model, documents, g)] # NoView
      BY <3>2, ViewsOfModel DEF IInv, Live
    <3>4. QED
      BY <1>5, <2>1, <3>3 DEF IInv, OwnedTracked
  <2>2. QED
    BY <1>1, <2>1 DEF OwnedTracked
<1>7. ShownTracked'
  <2>1. shown \in [File -> Root \cup {NoRoot}]
    BY DEF IInv, Typed, TypeOK
  <2>2. QED
    BY <1>1, <1>5, <2>1 DEF ShownTracked, IInv
<1>8. RoutingTyped'
  BY <1>1, <1>4 DEF RoutingTyped, IInv, Typed, TypeOK
<1>9. QED
  BY <1>4, <1>6, <1>7, <1>8 DEF Followed

LEMMA PublishFollows ==
  ASSUME IInv, NEW r \in Root, NEW f \in File, Publish(r, f)
  PROVE  Followed'
<1> DEFINE due == views[r].due \ {f}
           v == [views[r] EXCEPT !.due = due]
<1>1. /\ r \in Live(views) /\ views' = [views EXCEPT ![r] = v]
      /\ f \in views[r].due /\ shown' = [shown EXCEPT ![f] = r]
      /\ UNCHANGED <<folders, model, issuesShown, documents>>
  BY DEF Publish, loading
<1>2. views[r] \in View /\ views[r].due \subseteq views[r].known
  BY <1>1, ViewsOfModel DEF IInv
<1>3. v \in View /\ v.paths = views[r].paths /\ v.due \subseteq v.known /\ v.known = views[r].known
  BY <1>2 DEF View
<1> HIDE DEF v
<1>4. SnapshotsFollowed' /\ DueKnown' /\ views' \in [Root -> View \cup {NoView}]
  BY <1>1, <1>3, ViewReplaced
<1>5. \A s \in Root : views[s] # NoView => views'[s].known = views[s].known /\ views'[s] # NoView
  <2>1. NoView \notin View /\ views \in [Root -> View \cup {NoView}]
    BY ConstantsAssumption DEF IInv, Typed, TypeOK
  <2>2. QED
    BY <1>1, <1>3, <2>1
<1>6. OwnedTracked'
  <2>1. ASSUME NEW g \in File, OwnerOf(model, documents, g) # NoRoot
        PROVE  g \in views'[OwnerOf(model, documents, g)].known
    <3>1. model = ModelOf(folders) /\ folders \in FolderStates
      BY ViewsOfModel DEF IInv
    <3>2. OwnerOf(model, documents, g) \in RootsOf(folders)
      BY <2>1, <3>1, OwnerIsRoot
    <3>3. OwnerOf(model, documents, g) \in Root /\ views[OwnerOf(model, documents, g)] # NoView
      BY <3>2, ViewsOfModel DEF IInv, Live
    <3>4. QED
      BY <1>5, <2>1, <3>3 DEF IInv, OwnedTracked
  <2>2. QED
    BY <1>1, <2>1 DEF OwnedTracked
<1>7. shown \in [File -> Root \cup {NoRoot}]
  BY DEF IInv, Typed, TypeOK
<1>8. ShownTracked'
  <2>1. ASSUME NEW g \in File, shown'[g] # NoRoot
        PROVE  views'[shown'[g]] # NoView /\ g \in views'[shown'[g]].known
    <3>1. CASE g = f
      BY <1>1, <1>2, <1>5, <1>7, <3>1 DEF Live
    <3>2. CASE g # f
      <4>1. shown'[g] = shown[g]
        BY <1>1, <1>7, <3>2
      <4>2. shown[g] \in Root /\ views[shown[g]] # NoView /\ g \in views[shown[g]].known
        BY <1>7, <2>1, <4>1 DEF IInv, ShownTracked
      <4>3. QED
        BY <1>5, <4>1, <4>2
    <3>3. QED
      BY <3>1, <3>2
  <2>2. QED
    BY <2>1 DEF ShownTracked
<1>9. RoutingTyped'
  BY <1>1, <1>4, <1>7 DEF RoutingTyped, IInv, Typed, TypeOK
<1>10. QED
  BY <1>4, <1>6, <1>8, <1>9 DEF Followed

-----------------------------------------------------------------------------
(***************************************************************************)
(* Steps of the folders and their loads.                                   *)
(***************************************************************************)

\* The parts of the state that loads and requests change.
RequestTyped ==
  /\ mode \in Modes /\ loader \in BOOLEAN /\ started \in BOOLEAN
  /\ folders \in FolderStates
  /\ lastId \in Nat \ {0}
  /\ loads \in Seq(LoadState)
  /\ documents \subseteq File
  /\ opening \in [step : {"idle", "contained", "load", "loading", "apply"}, file : File \cup {NoFile}]
  /\ events \in Nat

LEMMA Parts ==
  /\ IInv => RequestTyped /\ Syncing /\ Followed
  /\ RequestTyped' /\ Syncing' /\ Followed' => IInv'
  BY DEF IInv, Typed, TypeOK, RequestTyped, Followed, RoutingTyped, FolderStates

LEMMA SyncingKept ==
  ASSUME Syncing, opening' = opening,
         \A l \in DOMAIN loads' : loads'[l].sync => l \in DOMAIN loads /\ loads[l].sync
  PROVE  Syncing'
  BY DEF Syncing

LEMMA StartKeeps ==
  ASSUME IInv, Start
  PROVE  IInv'
<1>1. RequestTyped /\ Syncing
  BY Parts
<1>2. /\ LoadLocked(folders, Active) /\ started' = TRUE
      /\ UNCHANGED <<mode, loader, lastId, routing, documents, opening, events>>
  BY DEF Start
<1>3. /\ folders' \in FolderStates
      /\ \A d \in Folder : SnapshotOf(folders', d) = SnapshotOf(folders, d)
      /\ loads' \in Seq(LoadState)
      /\ \A l \in DOMAIN loads' : loads'[l].sync => l \in DOMAIN loads /\ loads[l].sync
  BY <1>1, <1>2, LoadLockedLoads DEF RequestTyped
<1>4. Followed'
  BY <1>2, <1>3, Unrouted
<1>5. Syncing'
  BY <1>1, <1>2, <1>3, SyncingKept
<1>6. RequestTyped'
  BY <1>1, <1>2, <1>3 DEF RequestTyped
<1>7. QED
  BY <1>4, <1>5, <1>6, Parts

\* By the number of elements: a shortest beginning of FolderOrder that
\* names infinitely many folders is not there.
LEMMA FolderFinite == IsFiniteSet(Folder)
<1> DEFINE Beginning(n) == {FolderOrder[i] : i \in 1..n}
           N == {n \in Nat : ~IsFiniteSet(Beginning(n))}
<1>1. ASSUME N # {} PROVE FALSE
  <2>1. PICK n \in N : \A m \in N : n <= m
    BY <1>1, LeastOf
  <2>2. CASE n = 0
    <3>1. Beginning(0) = {}
      OBVIOUS
    <3>2. QED
      BY <2>1, <2>2, <3>1, FS_EmptySet
  <2>3. CASE n # 0
    <3>1. n - 1 \in Nat /\ n - 1 \notin N
      BY <2>1, <2>3
    <3>2. IsFiniteSet(Beginning(n - 1))
      BY <3>1
    <3>3. Beginning(n) = Beginning(n - 1) \cup {FolderOrder[n]}
      <4>1. 1..n = 1..(n - 1) \cup {n}
        BY <2>1, <2>3
      <4>2. QED
        BY <4>1
    <3>4. IsFiniteSet(Beginning(n))
      BY <3>2, <3>3, FS_AddElement
    <3>5. QED
      BY <2>1, <3>4
  <2>4. QED
    BY <2>2, <2>3
<1>2. Len(FolderOrder) \in Nat /\ DOMAIN FolderOrder = 1..Len(FolderOrder)
  BY ConstantsAssumption
<1>3. IsFiniteSet(Beginning(Len(FolderOrder)))
  BY <1>1, <1>2
<1>4. Folder \subseteq Beginning(Len(FolderOrder))
  BY <1>2, ConstantsAssumption
<1> HIDE DEF Beginning
<1>5. QED
  BY <1>3, <1>4, FS_Subset

\* What ChangeFolders makes of the folders before it loads any: those that are
\* left, the new ones among the added, and both together.
Left(removed) == [d \in Folder |-> IF d \in removed THEN Inactive ELSE folders[d]]
New(added, removed) == {d \in added : Left(removed)[d] = Inactive}
Number(added, removed, d) ==
  lastId + Cardinality({e \in New(added, removed) :
    \E i, j \in DOMAIN FolderOrder : FolderOrder[i] = e /\ FolderOrder[j] = d /\ i <= j})
Changed(added, removed) ==
  [d \in Folder |-> IF d \in New(added, removed) THEN NewFolder(Number(added, removed, d))
                    ELSE Left(removed)[d]]

LEMMA FoldersChanged ==
  ASSUME IInv, NEW added \in SUBSET Folder, NEW removed
  PROVE  /\ Left(removed) \in FolderStates /\ Changed(added, removed) \in FolderStates
         /\ Cardinality(New(added, removed)) \in Nat
         /\ \A d \in Folder : /\ SnapshotOf(Changed(added, removed), d) = SnapshotOf(Left(removed), d)
                              /\ \/ Changed(added, removed)[d] \in {folders[d], Inactive}
                                 \/ Changed(added, removed)[d].origin = 0
<1> DEFINE left == Left(removed)
           new == New(added, removed)
           id(d) == Number(added, removed, d)
           next == Changed(added, removed)
<1>1. folders \in FolderStates /\ lastId \in Nat \ {0}
  BY DEF IInv, Typed, TypeOK, FolderStates
<1>2. left \in FolderStates
  BY <1>1 DEF Left, FolderStates
<1>3. ASSUME NEW S \in SUBSET new PROVE Cardinality(S) \in Nat
  <2>1. S \subseteq Folder
    BY DEF New
  <2>2. IsFiniteSet(S)
    BY <2>1, FolderFinite, FS_Subset
  <2>3. QED
    BY <2>2, FS_CardinalityType
<1>4. ASSUME NEW d \in Folder PROVE id(d) \in Nat \ {0}
  <2> DEFINE upto == {e \in new :
        \E i, j \in DOMAIN FolderOrder : FolderOrder[i] = e /\ FolderOrder[j] = d /\ i <= j}
  <2>1. Cardinality(upto) \in Nat
    BY <1>3
  <2>2. id(d) = lastId + Cardinality(upto)
    BY DEF Number
  <2> HIDE DEF upto
  <2>3. QED
    BY <1>1, <2>1, <2>2
<1>5. ASSUME NEW d \in Folder
      PROVE  /\ next[d] \in FolderState \cup {Inactive}
             /\ SnapshotOf(next, d) = SnapshotOf(left, d)
             /\ next[d] \in {folders[d], Inactive} \/ next[d].origin = 0
  <2>1. CASE d \in new
    <3>1. NewFolder(id(d)) \in FolderState /\ NewFolder(id(d)).snapshot = Empty
          /\ NewFolder(id(d)).origin = 0
      BY <1>4, NewState
    <3>2. next[d] = NewFolder(id(d)) /\ left[d] = Inactive
      BY <2>1 DEF Changed, New
    <3> HIDE DEF next, left, id
    <3>3. QED
      BY <3>1, <3>2, ConstantsAssumption DEF SnapshotOf
  <2>2. CASE d \notin new
    <3>1. next[d] = left[d] /\ left[d] \in {folders[d], Inactive}
      BY <2>2 DEF Changed, Left
    <3> HIDE DEF next, left
    <3>2. QED
      BY <1>2, <3>1 DEF SnapshotOf, FolderStates
  <2>3. QED
    BY <2>1, <2>2
<1>6. next \in FolderStates
  <2>1. \A d \in Folder : next[d] \in FolderState \cup {Inactive}
    BY <1>5
  <2>2. QED
    BY <2>1 DEF Changed, FolderStates
<1>7. Cardinality(new) \in Nat
  BY <1>3
<1>8. QED
  BY <1>2, <1>5, <1>6, <1>7

LEMMA ChangeFoldersKeeps ==
  ASSUME IInv, NEW added \in SUBSET Folder, NEW removed, ChangeFolders(added, removed)
  PROVE  IInv'
<1> DEFINE left == Left(removed)
           new == New(added, removed)
           next == Changed(added, removed)
<1>1. RequestTyped /\ Syncing
  BY Parts
<1>2. /\ lastId' = lastId + Cardinality(new)
      /\ ForgetRemoved(left, removed)
      /\ LoadLocked(next, new)
      /\ UNCHANGED <<mode, loader, started, documents, opening, events>>
  BY DEF ChangeFolders, Left, New, Number, Changed
<1>3. /\ left \in FolderStates /\ next \in FolderStates /\ Cardinality(new) \in Nat
      /\ \A d \in Folder : SnapshotOf(next, d) = SnapshotOf(left, d)
  BY FoldersChanged
<1>4. \A d \in Folder : Active \cap removed = {} => left[d] = folders[d]
  BY DEF Active, Left
<1> HIDE DEF left, new, next
<1>5. /\ folders' \in FolderStates
      /\ \A d \in Folder : SnapshotOf(folders', d) = SnapshotOf(next, d)
      /\ loads' \in Seq(LoadState)
      /\ \A l \in DOMAIN loads' : loads'[l].sync => l \in DOMAIN loads /\ loads[l].sync
  BY <1>1, <1>2, <1>3, LoadLockedLoads DEF RequestTyped
<1>6. \A d \in Folder : SnapshotOf(folders', d) = SnapshotOf(left, d)
  BY <1>3, <1>5
<1>7. Followed'
  <2>1. CASE Active \cap removed # {}
    <3>1. Reconcile(left)
      BY <1>2, <2>1 DEF ForgetRemoved
    <3>2. QED
      BY <1>2, <1>3, <1>5, <1>6, <3>1, Reconciled
  <2>2. CASE Active \cap removed = {}
    <3>1. UNCHANGED routing
      BY <1>2, <2>2 DEF ForgetRemoved
    <3>2. \A d \in Folder : SnapshotOf(folders', d) = SnapshotOf(folders, d)
      BY <1>4, <1>6, <2>2 DEF SnapshotOf
    <3>3. QED
      BY <1>2, <1>5, <3>1, <3>2, Unrouted
  <2>3. QED
    BY <2>1, <2>2
<1>8. Syncing'
  BY <1>1, <1>2, <1>5, SyncingKept
<1>9. RequestTyped'
  <2>1. lastId' \in Nat \ {0}
    BY <1>1, <1>2, <1>3 DEF RequestTyped
  <2>2. QED
    BY <1>1, <1>2, <1>5, <2>1 DEF RequestTyped
<1>10. QED
  BY <1>7, <1>8, <1>9, Parts

LEMMA ShutdownKeeps ==
  ASSUME IInv, Shutdown
  PROVE  IInv'
<1>1. RequestTyped /\ Syncing
  BY Parts
<1>2. /\ loader' = FALSE
      /\ folders' = [d \in Folder |->
           IF d \in Active THEN [folders[d] EXCEPT !.loading = FALSE] ELSE Inactive]
      /\ UNCHANGED <<mode, started, lastId, loads, routing, documents, opening, events>>
  BY DEF Shutdown
<1>3. ASSUME NEW d \in Folder
      PROVE  /\ folders'[d] \in FolderState \cup {Inactive}
             /\ SnapshotOf(folders', d) = SnapshotOf(folders, d)
  <2>1. CASE folders[d] # Inactive
    <3>1. folders[d] \in FolderState
      BY <1>1, <2>1 DEF RequestTyped, FolderStates
    <3>2. folders'[d] = [folders[d] EXCEPT !.loading = FALSE]
      BY <1>2, <2>1 DEF Active
    <3>3. folders'[d] \in FolderState /\ folders'[d].snapshot = folders[d].snapshot
      BY <3>1, <3>2, LoadingState
    <3>4. QED
      BY <2>1, <3>3, ConstantsAssumption DEF SnapshotOf
  <2>2. CASE folders[d] = Inactive
    BY <1>2, <2>2 DEF Active, SnapshotOf
  <2>3. QED
    BY <2>1, <2>2
<1>4. folders' \in FolderStates
  BY <1>2, <1>3 DEF FolderStates
<1>5. Followed'
  BY <1>2, <1>3, <1>4, Unrouted
<1>6. Syncing' /\ RequestTyped'
  BY <1>1, <1>2, <1>4, SyncingKept DEF RequestTyped
<1>7. QED
  BY <1>5, <1>6, Parts

LEMMA LoadKeeps ==
  ASSUME IInv, NEW l \in DOMAIN loads, NEW d \in Folder, Load(l, d)
  PROVE  IInv'
<1>1. RequestTyped /\ Syncing
  BY Parts
<1>2. /\ Returns(l, d)
      /\ UNCHANGED <<mode, loader, started, folders, lastId, routing, documents, opening, events>>
  BY DEF Load
<1>3. PICK result \in mode.snapshots[d] \cup {Failed} :
        loads' = [loads EXCEPT ![l].results[d] = result]
  BY <1>2 DEF Returns
<1>4. result \in Snapshot \cup {Failed}
  BY <1>1, ConstantsAssumption DEF RequestTyped
<1> DEFINE results == [loads[l].results EXCEPT ![d] = result]
           load == [loads[l] EXCEPT !.results = results]
<1>5. loads' = [loads EXCEPT ![l] = load]
  BY <1>3
<1>6. loads[l] \in LoadState
  BY <1>1 DEF RequestTyped
<1>7. results \in [Folder -> Snapshot \cup {Failed, Pending}]
  BY <1>4, <1>6 DEF LoadState
<1> HIDE DEF results
<1>8. load \in LoadState /\ load.sync = loads[l].sync
  BY <1>6, <1>7 DEF LoadState
<1> HIDE DEF load
<1>9. loads' \in Seq(LoadState) /\ DOMAIN loads' = DOMAIN loads
  BY <1>1, <1>5, <1>8 DEF RequestTyped
<1>10. \A k \in DOMAIN loads' : loads'[k].sync => k \in DOMAIN loads /\ loads[k].sync
  BY <1>1, <1>5, <1>8, <1>9 DEF RequestTyped
<1>11. Followed'
  BY <1>1, <1>2, Unrouted DEF RequestTyped
<1>12. Syncing'
  BY <1>1, <1>2, <1>10, SyncingKept
<1>13. RequestTyped'
  BY <1>1, <1>2, <1>9 DEF RequestTyped
<1>14. QED
  BY <1>11, <1>12, <1>13, Parts

LEMMA CommitKeeps ==
  ASSUME IInv, NEW l \in DOMAIN loads, Commit(l)
  PROVE  IInv'
<1> DEFINE accepted == IF Commits THEN Accepted(l) ELSE {}
           result(d) == loads[l].results[d]
           state(d) == [folders[d] EXCEPT
                          !.loading = FALSE,
                          !.settled = TRUE,
                          !.origin = IF result(d) = Failed THEN @ ELSE loads[l].ids[d],
                          !.snapshot = IF result(d) = Failed THEN @ ELSE result(d)]
           next == [d \in Folder |-> IF d \notin accepted THEN folders[d] ELSE state(d)]
<1>1. RequestTyped /\ Syncing
  BY Parts
<1>2. /\ Ends(l)
      /\ folders' = next
      /\ IF accepted = {} THEN UNCHANGED routing ELSE Reconcile(next)
      /\ opening' = IF loads[l].sync THEN [opening EXCEPT !.step = "apply"] ELSE opening
      /\ UNCHANGED <<mode, loader, started, lastId, documents, events>>
  BY DEF Commit
<1>3. loads[l] \in LoadState
  BY <1>1 DEF RequestTyped
<1>4. ASSUME NEW d \in accepted PROVE d \in Folder /\ state(d) \in FolderState
  <2>1. d \in Folder /\ folders[d] \in FolderState /\ loads[l].ids[d] = folders[d].id
    BY <1>1 DEF Accepted, Active, RequestTyped, FolderStates
  <2>2. loads[l].ids[d] \in Nat \ {0}
    BY <2>1 DEF FolderState
  <2>3. result(d) \in Snapshot \cup {Failed}
    BY <1>2, <1>3, <2>1, <2>2 DEF Ends, Loaded, LoadState
  <2>4. QED
    BY <2>1, <2>2, <2>3 DEF FolderState
<1>5. next \in FolderStates
  BY <1>1, <1>4 DEF FolderStates, RequestTyped
<1> HIDE DEF next
<1>6. Followed'
  <2>1. CASE accepted # {}
    BY <1>2, <1>5, <2>1, Reconciled
  <2>2. CASE accepted = {}
    <3>1. next = folders
      BY <1>1, <2>2 DEF next, RequestTyped, FolderStates
    <3>2. QED
      BY <1>2, <1>5, <2>2, <3>1, Unrouted
  <2>3. QED
    BY <2>1, <2>2
<1>7. Committed \in LoadState /\ ~Committed.sync
  BY DEF Committed, LoadState
<1>8. /\ loads' \in Seq(LoadState) /\ DOMAIN loads' = DOMAIN loads
      /\ loads'[l] = Committed /\ \A k \in DOMAIN loads \ {l} : loads'[k] = loads[k]
  BY <1>1, <1>2, <1>7 DEF Ends, RequestTyped
<1>9. Syncing'
  <2>1. CASE loads[l].sync
    <3>1. opening.step = "loading" /\ \A k \in DOMAIN loads : loads[k].sync => k = l
      BY <1>1, <2>1 DEF Syncing
    <3>2. \A k \in DOMAIN loads' : ~loads'[k].sync
      BY <1>7, <1>8, <3>1
    <3>3. opening'.file = opening.file /\ opening.file \in File
      BY <1>1, <1>2, <2>1, <3>1 DEF Syncing, RequestTyped
    <3>4. QED
      BY <3>2, <3>3 DEF Syncing
  <2>2. CASE ~loads[l].sync
    BY <1>1, <1>2, <1>7, <1>8, <2>2, SyncingKept
  <2>3. QED
    BY <2>1, <2>2
<1>10. RequestTyped'
  BY <1>1, <1>2, <1>5, <1>8 DEF RequestTyped
<1>11. QED
  BY <1>6, <1>9, <1>10, Parts

-----------------------------------------------------------------------------
(***************************************************************************)
(* Steps of the documents.                                                 *)
(***************************************************************************)

\* A request that only goes on from one step to another.
LEMMA OpeningMoves ==
  ASSUME IInv, UNCHANGED <<mode, loader, started, loading, routing, documents>>,
         opening' \in [step : {"idle", "contained", "load", "apply"}, file : File],
         opening.step # "loading", events' \in Nat
  PROVE  IInv'
<1>1. RequestTyped /\ Syncing
  BY Parts
<1>2. Followed'
  BY <1>1, Unrouted DEF RequestTyped, loading
<1>3. Syncing' /\ RequestTyped'
  BY <1>1 DEF Syncing, RequestTyped, loading
<1>4. QED
  BY <1>2, <1>3, Parts

LEMMA OpenKeeps ==
  ASSUME IInv, NEW f \in File, Open(f)
  PROVE  IInv'
<1>1. /\ opening.step = "idle" /\ events' \in Nat
      /\ UNCHANGED <<mode, loader, started, loading, routing, documents>>
  BY DEF Open, Request, NotOpening, IInv, Typed, TypeOK
<1>2. opening' \in [step : {"contained", "apply"}, file : File]
  BY DEF Open
<1>3. QED
  BY <1>1, <1>2, OpeningMoves

LEMMA ContainedKeeps ==
  ASSUME IInv, Contained
  PROVE  IInv'
<1>1. /\ opening.step = "contained"
      /\ UNCHANGED <<mode, loader, started, loading, routing, documents, events>>
  BY DEF Contained
<1>2. events' \in Nat /\ opening.file \in File
  BY <1>1 DEF IInv, Typed, TypeOK, Syncing
<1>3. opening' \in [step : {"load", "apply"}, file : File]
  BY <1>2 DEF Contained, IInv, Typed, TypeOK
<1>4. QED
  BY <1>1, <1>2, <1>3, OpeningMoves

LEMMA LoadSyncKeeps ==
  ASSUME IInv, LoadSync
  PROVE  IInv'
<1> DEFINE d == DirOf[opening.file]
           state == IF folders[d] = Inactive THEN NewFolder(lastId + 1) ELSE folders[d]
           load == [ids     |-> [e \in Folder |-> IF e = d THEN state.id ELSE 0],
                    results |-> [e \in Folder |-> Pending],
                    sync    |-> TRUE]
<1>1. RequestTyped /\ Syncing
  BY Parts
<1>2. /\ opening.step = "load"
      /\ folders' = [folders EXCEPT ![d] = state]
      /\ lastId' = IF folders[d] = Inactive THEN lastId + 1 ELSE lastId
      /\ UNCHANGED <<mode, loader, started, routing, documents, events>>
  BY DEF LoadSync
<1>3. \/ loads' = Append(loads, load) /\ opening' = [opening EXCEPT !.step = "loading"]
      \/ loads' = loads /\ opening' = [opening EXCEPT !.step = "apply"]
  BY DEF LoadSync
<1>4. opening.file \in File /\ d \in Folder /\ \A k \in DOMAIN loads : ~loads[k].sync
  BY <1>1, <1>2, ConstantsAssumption DEF Syncing
<1>5. lastId \in Nat \ {0} /\ lastId' \in Nat \ {0} /\ lastId + 1 \in Nat \ {0}
  BY <1>1, <1>2 DEF RequestTyped
<1> HIDE DEF d
<1>6. /\ state \in FolderState
      /\ folders[d] = Inactive => state.snapshot = Empty
      /\ folders[d] # Inactive => state = folders[d]
  <2>1. CASE folders[d] = Inactive
    BY <1>5, <2>1, NewState
  <2>2. CASE folders[d] # Inactive
    BY <1>1, <1>4, <2>2 DEF RequestTyped, FolderStates
  <2>3. QED
    BY <2>1, <2>2
<1> HIDE DEF state
<1>7. folders' \in FolderStates
  BY <1>1, <1>2, <1>6 DEF RequestTyped, FolderStates
<1>8. ASSUME NEW e \in Folder PROVE SnapshotOf(folders', e) = SnapshotOf(folders, e)
  <2>1. CASE e = d
    <3>1. folders'[e] = state /\ state # Inactive
      BY <1>1, <1>2, <1>6, <2>1, ConstantsAssumption DEF RequestTyped, FolderStates
    <3>2. QED
      BY <1>6, <2>1, <3>1 DEF SnapshotOf
  <2>2. CASE e # d
    BY <1>1, <1>2, <2>2 DEF SnapshotOf, RequestTyped, FolderStates
  <2>3. QED
    BY <2>1, <2>2
<1>9. Followed'
  BY <1>2, <1>7, <1>8, Unrouted
<1>10. load \in LoadState
  BY <1>6 DEF LoadState, FolderState
<1> HIDE DEF load
<1>11. CASE loads' = Append(loads, load) /\ opening' = [opening EXCEPT !.step = "loading"]
  <2>1. /\ loads' \in Seq(LoadState) /\ DOMAIN loads' = 1..Len(loads) + 1
        /\ \A k \in DOMAIN loads : loads'[k] = loads[k]
        /\ DOMAIN loads = 1..Len(loads) /\ Len(loads) \in Nat
    BY <1>1, <1>10, <1>11 DEF RequestTyped
  <2>2. \A k \in DOMAIN loads' : loads'[k].sync => k = Len(loads) + 1
    BY <1>4, <2>1
  <2>3. opening'.step = "loading" /\ opening'.file = opening.file
    BY <1>1, <1>11 DEF RequestTyped
  <2>4. Syncing'
    BY <1>4, <2>2, <2>3 DEF Syncing
  <2>5. RequestTyped'
    BY <1>1, <1>2, <1>5, <1>7, <1>11, <2>1 DEF RequestTyped
  <2>6. QED
    BY <1>9, <2>4, <2>5, Parts
<1>12. CASE loads' = loads /\ opening' = [opening EXCEPT !.step = "apply"]
  <2>1. opening'.step = "apply" /\ opening'.file = opening.file
    BY <1>1, <1>12 DEF RequestTyped
  <2>2. Syncing'
    BY <1>4, <1>12, <2>1 DEF Syncing
  <2>3. RequestTyped'
    BY <1>1, <1>2, <1>5, <1>7, <1>12 DEF RequestTyped
  <2>4. QED
    BY <1>9, <2>2, <2>3, Parts
<1>13. QED
  BY <1>3, <1>11, <1>12

\* A change of a document that is applied.
LEMMA ApplyKeeps ==
  ASSUME IInv, NEW f \in File, NEW docs, NEW closes \in BOOLEAN, Apply(f, docs, closes),
         docs \subseteq File, docs \ {f} = documents \ {f},
         UNCHANGED <<mode, loader, started, loading>>,
         opening' \in {opening, NotOpening}, opening.step # "loading", events' \in Nat
  PROVE  IInv'
<1>1. RequestTyped /\ Syncing
  BY Parts
<1>2. folders' = folders /\ documents' = docs
  BY DEF loading, Apply
<1>3. Followed'
  BY <1>2, ApplyFollows
<1>4. Syncing' /\ RequestTyped'
  BY <1>1, <1>2 DEF Syncing, RequestTyped, loading, NotOpening
<1>5. QED
  BY <1>3, <1>4, Parts

LEMMA OpenedKeeps ==
  ASSUME IInv, Opened
  PROVE  IInv'
<1> DEFINE f == opening.file
           docs == documents \cup {f}
<1>1. /\ opening.step = "apply" /\ Apply(f, docs, FALSE) /\ opening' = NotOpening
      /\ UNCHANGED <<mode, loader, started, loading, events>>
  BY DEF Opened
<1>2. f \in File /\ documents \subseteq File /\ events' \in Nat
  BY <1>1 DEF IInv, Typed, TypeOK, Syncing
<1> HIDE DEF f
<1>3. docs \subseteq File /\ docs \ {f} = documents \ {f}
  BY <1>2
<1> HIDE DEF docs
<1>4. QED
  BY <1>1, <1>2, <1>3, ApplyKeeps

LEMMA TouchKeeps ==
  ASSUME IInv, NEW f \in File, Touch(f)
  PROVE  IInv'
<1>1. /\ Request(f) /\ Apply(f, documents, FALSE)
      /\ UNCHANGED <<mode, loader, started, loading, opening>>
  BY DEF Touch
<1>2. opening.step = "idle" /\ documents \subseteq File /\ events' \in Nat
  BY <1>1 DEF Request, NotOpening, IInv, Typed, TypeOK
<1>3. QED
  BY <1>1, <1>2, ApplyKeeps

LEMMA CloseKeeps ==
  ASSUME IInv, NEW f \in File, Close(f)
  PROVE  IInv'
<1> DEFINE docs == documents \ {f}
<1>1. /\ Request(f) /\ Apply(f, docs, TRUE)
      /\ UNCHANGED <<mode, loader, started, loading, opening>>
  BY DEF Close
<1>2. opening.step = "idle" /\ documents \subseteq File /\ events' \in Nat
  BY <1>1 DEF Request, NotOpening, IInv, Typed, TypeOK
<1>3. docs \subseteq File /\ docs \ {f} = documents \ {f}
  BY <1>2
<1> HIDE DEF docs
<1>4. QED
  BY <1>1, <1>2, <1>3, ApplyKeeps

\* The steps of the views change nothing that loads and requests do.
LEMMA ViewStepKeeps ==
  ASSUME IInv, Followed', UNCHANGED <<mode, loader, started, loading, documents, opening, events>>
  PROVE  IInv'
<1>1. Syncing' /\ RequestTyped'
  BY Parts DEF Syncing, RequestTyped, loading
<1>2. QED
  BY <1>1, Parts

-----------------------------------------------------------------------------
(***************************************************************************)
(* The invariant is inductive.                                             *)
(***************************************************************************)
LEMMA InitFollows ==
  ASSUME Init
  PROVE  IInv
<1>1. /\ mode \in Modes /\ loader = TRUE /\ started = FALSE /\ lastId = 1 /\ loads = <<>>
      /\ model = EmptyModel /\ views = [r \in Root |-> NoView] /\ documents = {}
      /\ shown = [f \in File |-> NoRoot] /\ issuesShown = {} /\ opening = NotOpening /\ events = 0
  BY DEF Init
<1>2. PICK active \in Initial :
        folders = [d \in Folder |-> IF d \in active THEN NewFolder(1) ELSE Inactive]
  BY DEF Init
<1>3. NewFolder(1) \in FolderState /\ NewFolder(1).snapshot = Empty
  BY NewState
<1>4. folders \in FolderStates
  BY <1>2, <1>3 DEF FolderStates
<1>5. \A d \in Folder : SnapshotOf(folders, d) = Empty
  BY <1>2, <1>3 DEF SnapshotOf
<1>6. Empty.projects = <<>> /\ Empty.issues = {}
  BY DEF Empty
<1>7. Places(folders) = {}
  <2>1. \A i \in DOMAIN FolderOrder : DOMAIN SnapshotOf(folders, FolderOrder[i]).projects = {}
    BY <1>5, <1>6, ConstantsAssumption
  <2>2. QED
    BY <2>1 DEF Places
<1>8. RootsOf(folders) = {} /\ AcceptedAt(folders) = {}
  BY <1>7 DEF RootsOf, AcceptedAt
<1>9. TargetsOf(folders) = {}
  BY <1>8 DEF TargetsOf
<1>10. ModelOf(folders).issues = {}
  BY <1>5, <1>6, <1>7 DEF ModelOf
<1>11. ModelOf(folders) = EmptyModel
  <2>1. [r \in RootsOf(folders) |-> ProjectOf(folders, r)] = <<>>
    BY <1>8
  <2>2. [t \in TargetsOf(folders) |->
           TargetRoot(ProjectWith(folders, t), {r \in RootsOf(folders) : t \in Within[r]})] = <<>>
    BY <1>9
  <2>3. QED
    BY <2>1, <2>2, <1>10 DEF ModelOf, EmptyModel
<1>12. SnapshotsFollowed
  BY <1>1, <1>11 DEF SnapshotsFollowed, EmptyModel
<1>13. Typed
  <2>1. NotOpening \in [step : {"idle", "contained", "load", "loading", "apply"}, file : File \cup {NoFile}]
    BY DEF NotOpening
  <2>2. TypeOK
    <3>1. mode \in Modes /\ loader \in BOOLEAN /\ started \in BOOLEAN
      BY <1>1
    <3>2. lastId \in Nat \ {0} /\ events \in Nat /\ loads \in Seq(LoadState)
      BY <1>1
    <3>3. /\ views \in [Root -> View \cup {NoView}] /\ shown \in [File -> Root \cup {NoRoot}]
          /\ documents \subseteq File /\ issuesShown \subseteq Config
      BY <1>1
    <3>4. QED
      BY <1>1, <1>4, <2>1, <3>1, <3>2, <3>3 DEF TypeOK, FolderStates
  <2>3. DueKnown
    BY <1>1 DEF DueKnown
  <2>4. DOMAIN loads = {} /\ opening.step = "idle"
    BY <1>1 DEF NotOpening
  <2>5. Syncing
    BY <2>4 DEF Syncing
  <2>6. QED
    BY <2>2, <2>3, <2>5 DEF Typed
<1>14. OwnedTracked
  BY <1>1 DEF OwnedTracked, OwnerOf, RootFor, EmptyModel
<1>15. ShownTracked
  BY <1>1 DEF ShownTracked
<1>16. QED
  BY <1>12, <1>13, <1>14, <1>15 DEF IInv

LEMMA NextFollows ==
  ASSUME IInv, [Next]_vars
  PROVE  IInv'
<1>1. CASE Start
  BY <1>1, StartKeeps
<1>2. ASSUME NEW batch \in Batches, ChangeFolders(batch[1], batch[2]) PROVE IInv'
  <2>1. batch[1] \in SUBSET Folder /\ batch[2] \in SUBSET Folder
    BY ConstantsAssumption
  <2>2. QED
    BY <1>2, <2>1, ChangeFoldersKeeps
<1>3. CASE Shutdown
  BY <1>3, ShutdownKeeps
<1>4. ASSUME NEW l \in DOMAIN loads, LoadStep(l) PROVE IInv'
  BY <1>4, LoadKeeps, CommitKeeps DEF LoadStep
<1>5. ASSUME NEW f \in File, Open(f) \/ Touch(f) \/ Close(f) PROVE IInv'
  BY <1>5, OpenKeeps, TouchKeeps, CloseKeeps
<1>6. CASE Contained \/ LoadSync \/ Opened
  BY <1>6, ContainedKeeps, LoadSyncKeeps, OpenedKeeps
<1>7. ASSUME NEW r \in Root, NEW f \in File, ParseInclude(r, f) \/ Publish(r, f) PROVE IInv'
  <2>1. Followed'
    BY <1>7, ParseIncludeFollows, PublishFollows
  <2>2. UNCHANGED <<mode, loader, started, loading, documents, opening, events>>
    BY <1>7 DEF ParseInclude, Publish
  <2>3. QED
    BY <2>1, <2>2, ViewStepKeeps
<1>8. CASE UNCHANGED vars
  BY <1>8 DEF vars, loading, routing, IInv, Typed, TypeOK, DueKnown, Syncing,
              SnapshotsFollowed, OwnedTracked, ShownTracked
<1>9. QED
  BY <1>1, <1>2, <1>3, <1>4, <1>5, <1>6, <1>7, <1>8 DEF Next

LEMMA WorkspaceInductive == Spec => []IInv
<1>1. Init => IInv
  BY InitFollows
<1>2. IInv /\ [Next]_vars => IInv'
  BY NextFollows
<1>3. QED
  BY <1>1, <1>2, PTL DEF Spec

-----------------------------------------------------------------------------
(* The state keeps its shape: in particular the result of every load that  *)
(* commit accepts is a snapshot, and every project a view was made for is  *)
(* one of the model.                                                       *)
THEOREM WorkspaceTypeOK == Spec => []TypeOK
<1>1. IInv => TypeOK
  BY DEF IInv, Typed
<1>2. QED
  BY <1>1, WorkspaceInductive, PTL

(* After any sequence of folder changes, loads, commits, document changes  *)
(* and shutdown, what w.reconcileLocked left in force is what the snapshots*)
(* of the active folders determine: the model, the views and the issues.   *)
THEOREM WorkspaceSnapshotsFollowed == Spec => []SnapshotsFollowed
<1>1. IInv => SnapshotsFollowed
  BY DEF IInv
<1>2. QED
  BY <1>1, WorkspaceInductive, PTL

(* The view that viewFor routes a request for an owned file to tracks the  *)
(* file, for any nesting of roots and any projects.                        *)
THEOREM WorkspaceOwnedTracked == Spec => []OwnedTracked
<1>1. IInv => OwnedTracked
  BY DEF IInv
<1>2. QED
  BY <1>1, WorkspaceInductive, PTL

(* What the editor shows for a file comes from a live view that tracks the *)
(* file: reconcileLocked and applyChanges clear all that a view lets go.   *)
THEOREM WorkspaceShownTracked == Spec => []ShownTracked
<1>1. IInv => ShownTracked
  BY DEF IInv
<1>2. QED
  BY <1>1, WorkspaceInductive, PTL

-----------------------------------------------------------------------------
\* The steps keep which state a folder's snapshot was loaded for, but for a
\* folder that is added or whose load is accepted.
LEMMA NextBelongs ==
  ASSUME IInv, LoadsBelong, [Next]_vars
  PROVE  LoadsBelong'
<1> DEFINE Belongs(s) == s.origin \in {0, s.id}
<1>1. folders \in FolderStates /\ loads \in Seq(LoadState) /\ lastId \in Nat
  BY DEF IInv, Typed, TypeOK, FolderStates
<1>2. \A d \in Folder : folders[d] # Inactive => folders[d] \in FolderState /\ Belongs(folders[d])
  BY <1>1 DEF LoadsBelong, Active, FolderStates
<1>3. SUFFICES ASSUME NEW d \in Folder, folders'[d] # Inactive
               PROVE  Belongs(folders'[d])
  BY DEF LoadsBelong, Active
<1>4. ASSUME NEW id PROVE Belongs(NewFolder(id))
  BY DEF NewFolder
<1>5. CASE Start
  <2>1. LoadLocked(folders, Active)
    BY <1>5 DEF Start
  <2>2. /\ folders[d] = Inactive => folders'[d] = Inactive
        /\ folders[d] # Inactive => folders'[d].origin = folders[d].origin /\ folders'[d].id = folders[d].id
    BY <1>1, <2>1, LoadLockedLoads
  <2>3. QED
    BY <1>2, <1>3, <2>2
<1>6. ASSUME NEW batch \in Batches, ChangeFolders(batch[1], batch[2]) PROVE Belongs(folders'[d])
  <2> DEFINE new == New(batch[1], batch[2])
             next == Changed(batch[1], batch[2])
  <2>1. LoadLocked(next, new)
    BY <1>6 DEF ChangeFolders, Left, New, Number, Changed
  <2>2. batch[1] \in SUBSET Folder
    BY ConstantsAssumption
  <2>3. next \in FolderStates /\ (next[d] \in {folders[d], Inactive} \/ next[d].origin = 0)
    BY <2>2, FoldersChanged
  <2> HIDE DEF next, new
  <2>4. /\ next[d] = Inactive => folders'[d] = Inactive
        /\ next[d] # Inactive => folders'[d].origin = next[d].origin /\ folders'[d].id = next[d].id
    BY <1>1, <2>1, <2>3, LoadLockedLoads
  <2>5. QED
    BY <1>2, <1>3, <2>3, <2>4
<1>7. CASE Shutdown
  <2>1. folders[d] # Inactive /\ folders'[d] = [folders[d] EXCEPT !.loading = FALSE]
    BY <1>3, <1>7 DEF Shutdown, Active
  <2>2. QED
    BY <1>2, <2>1, LoadingState
<1>8. ASSUME NEW l \in DOMAIN loads, Commit(l) PROVE Belongs(folders'[d])
  <2> DEFINE accepted == IF Commits THEN Accepted(l) ELSE {}
             result == loads[l].results[d]
             state == [folders[d] EXCEPT
                         !.loading = FALSE,
                         !.settled = TRUE,
                         !.origin = IF result = Failed THEN @ ELSE loads[l].ids[d],
                         !.snapshot = IF result = Failed THEN @ ELSE result]
  <2>1. folders'[d] = IF d \notin accepted THEN folders[d] ELSE state
    BY <1>8 DEF Commit
  <2>2. CASE d \notin accepted
    BY <1>2, <1>3, <2>1, <2>2
  <2>3. CASE d \in accepted
    <3>1. folders[d] # Inactive /\ loads[l].ids[d] = folders[d].id
      BY <2>3 DEF Accepted, Active
    <3>2. state.id = folders[d].id /\ state.origin \in {folders[d].origin, loads[l].ids[d]}
      BY <1>2, <3>1 DEF FolderState
    <3>3. QED
      BY <1>2, <2>1, <2>3, <3>1, <3>2
  <2>4. QED
    BY <2>2, <2>3
<1>9. CASE LoadSync
  <2>1. folders'[d] = folders[d] \/ folders'[d] = NewFolder(lastId + 1)
    BY <1>1, <1>9 DEF LoadSync, FolderStates
  <2>2. QED
    BY <1>2, <1>3, <1>4, <2>1
<1>10. CASE folders' = folders
  BY <1>2, <1>3, <1>10
<1>11. ASSUME NEW l \in DOMAIN loads, LoadStep(l) PROVE Belongs(folders'[d])
  BY <1>8, <1>10, <1>11 DEF LoadStep, Load
<1>12. ASSUME NEW f \in File, Open(f) \/ Touch(f) \/ Close(f) PROVE folders' = folders
  BY <1>12 DEF Open, Touch, Close, loading
<1>13. CASE Contained \/ Opened
  BY <1>10, <1>13 DEF Contained, Opened, loading
<1>14. ASSUME NEW r \in Root, NEW f \in File, ParseInclude(r, f) \/ Publish(r, f)
       PROVE  folders' = folders
  BY <1>14 DEF ParseInclude, Publish, loading
<1>15. CASE UNCHANGED vars
  BY <1>10, <1>15 DEF vars, loading
<1>16. QED
  BY <1>5, <1>6, <1>7, <1>9, <1>10, <1>11, <1>12, <1>13, <1>14, <1>15 DEF Next

(* commitLoads gives no folder a snapshot that was loaded for a state the  *)
(* folder had before it was removed and added again.                       *)
THEOREM WorkspaceLoadsBelong == Spec => []LoadsBelong
<1>1. Init => LoadsBelong
  BY DEF Init, LoadsBelong, Active, NewFolder
<1>2. IInv /\ LoadsBelong /\ [Next]_vars => LoadsBelong'
  BY NextBelongs
<1>3. QED
  BY <1>1, <1>2, WorkspaceInductive, PTL DEF Spec
=============================================================================
