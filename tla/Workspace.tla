------------------------------ MODULE Workspace ------------------------------
(***************************************************************************)
(* lsp.workspace: which project owns a file.  A loader discovers, in the   *)
(* background, the projects of each workspace folder; the snapshots it     *)
(* returned for the active folders determine the model, and the model the  *)
(* views.  Folders come and go while loads are under way, documents are    *)
(* opened and closed, and a document no project owns makes the default     *)
(* loader load its directory.                                              *)
(*                                                                         *)
(* A step is one critical section of w.mu.  A view is reduced to what the  *)
(* workspace knows of it: its include paths, the files it tracks and the   *)
(* files whose findings the analysis of its latest generation has yet to   *)
(* publish (module Diagnostics shows that those of earlier generations     *)
(* publish nothing, and nothing after an eviction was cleared).            *)
(***************************************************************************)
EXTENDS Naturals, Sequences, FiniteSets

CONSTANTS
  Folder,       \* the URIs of the workspace folders
  FolderOrder,  \* the folders, sorted
  Root,         \* the URIs of the project roots
  File,         \* the URIs of the files
  Within,       \* Within[r]: the files under root r
  Depth,        \* Depth[r]: the length of the path of r
  Includes,     \* Includes[f]: the files f includes
  Config,       \* the URIs issues are published at
  Project,      \* [config, root, paths (the include paths), targets]
  Modes,        \* [implicit, snapshots]: the loaders, and what they may return
  Initial,      \* the sets of folders the editor starts with
  Batches,      \* the pairs <<added, removed>> of folder changes
  DirOf,        \* DirOf[f]: the directory of f, which may be loaded as a folder
  MaxId,        \* bound: how often a folder is added
  MaxLoads,     \* bound: how many loads are started
  MaxEvents,    \* bound: how many changes of documents there are
  Inactive,     \* a folder that is not in the workspace
  Failed,       \* the outcome of a load
  Pending,      \* the loader has not returned yet
  NoView,       \* a root without a view
  NoRoot,       \* no project owns the file, or nothing is shown for it
  NoFile        \* no didOpen is under way

Snapshot == [projects : Seq(Project), issues : SUBSET Config]
Empty == [projects |-> <<>>, issues |-> {}]

\* The state of a folder: its number; whether a load is under way (cancel #
\* nil); the snapshot accepted last; and as history whether a load for it was
\* over, failed or not, and the state that the snapshot was loaded for.
FolderState ==
  [id : Nat \ {0}, loading : BOOLEAN, settled : BOOLEAN, origin : Nat, snapshot : Snapshot]

\* A batch of loads: the state of the folder each result belongs to, 0 if
\* there is none to come, the results so far, and whether loadSync waits.
LoadState ==
  [ids : [Folder -> Nat], results : [Folder -> Snapshot \cup {Failed, Pending}], sync : BOOLEAN]

\* A view has the include paths it was made with, the files it knows, and those
\* whose findings are due.
View == [paths : {p.paths : p \in Project}, known : SUBSET File, due : SUBSET File]

ASSUME ConstantsAssumption ==
  /\ FolderOrder \in Seq(Folder)
  /\ \A d \in Folder : \E i \in DOMAIN FolderOrder : FolderOrder[i] = d
  /\ Within \in [Root -> SUBSET File]
  /\ Depth \in [Root -> Nat]
  /\ Includes \in [File -> SUBSET File]
  /\ DirOf \in [File -> Folder]
  /\ \A p \in Project : p.config \in Config /\ p.root \in Root /\ p.targets \subseteq File
  /\ \A m \in Modes : m.implicit \in BOOLEAN /\ m.snapshots \in [Folder -> SUBSET Snapshot]
  /\ Initial \subseteq SUBSET Folder
  /\ Batches \subseteq (SUBSET Folder) \X (SUBSET Folder)
  /\ NoRoot \notin Root /\ NoFile \notin File
  /\ Inactive \notin FolderState /\ NoView \notin View
  /\ Pending \notin Snapshot \cup {Failed}

\* One path contains both of two roots that contain the same file, and there
\* are as many at most as it has segments.
ASSUME NestingAssumption ==
  /\ \A r, s \in Root : Within[r] \cap Within[s] # {} /\ r # s => Depth[r] # Depth[s]
  /\ \A f \in File : IsFiniteSet({r \in Root : f \in Within[r]})

VARIABLES
  mode,        \* the loader in use
  loader,      \* whether there still is one
  started,     \* whether the editor has sent initialized
  folders,     \* the active folders
  lastId,      \* numbers the folder states, which the code compares by address
  loads,       \* the batches of loads
  model,       \* the projects, targets and issues of the accepted snapshots
  views,       \* the view of each root
  documents,   \* the open documents
  shown,       \* the root whose findings the editor shows for a file
  issuesShown, \* the URIs the editor shows issues at
  opening,     \* the didOpen under way
  events       \* the number of changes of documents so far

vars == <<mode, loader, started, folders, lastId, loads, model, views, documents,
          shown, issuesShown, opening, events>>
loading == <<folders, lastId, loads>>
routing == <<model, views, shown, issuesShown>>

\* A folder that was added, before any load.
NewFolder(id) ==
  [id |-> id, loading |-> FALSE, settled |-> FALSE, origin |-> 0, snapshot |-> Empty]

Active == {d \in Folder : folders[d] # Inactive}

-----------------------------------------------------------------------------
(* workspaceModel                                                          *)

EmptyModel == [roots |-> <<>>, targets |-> <<>>, issues |-> {}]

Deepest(roots) == CHOOSE r \in roots : \A s \in roots : Depth[s] <= Depth[r]

\* The roots that contain f, or else the one f is a target of.
RootFor(m, f) ==
  LET roots == {r \in DOMAIN m.roots : f \in Within[r]} IN
  IF roots # {} THEN Deepest(roots)
  ELSE IF f \in DOMAIN m.targets THEN m.targets[f] ELSE NoRoot

OwnerOf(m, docs, f) ==
  IF f \in DOMAIN m.targets THEN m.targets[f]
  ELSE IF f \in docs THEN RootFor(m, f) ELSE NoRoot

\* A variant that forgets the documents.
OwnedTargets(m, docs, r) == {f \in DOMAIN m.targets : m.targets[f] = r}
OwnedFiles(m, docs, r) == {f \in File : OwnerOf(m, docs, f) = r}

\* The deepest root that contains a target of project p, or else the root of
\* p.
TargetRoot(p, within) == IF within # {} THEN Deepest(within) ELSE p.root

\* What the loaders found, by folder, and the places of the projects in it: the
\* folder's and the project's.
SnapshotOf(fs, d) == IF fs[d] = Inactive THEN Empty ELSE fs[d].snapshot
Places(fs) ==
  UNION {{<<i, j>> : j \in DOMAIN SnapshotOf(fs, FolderOrder[i]).projects} :
           i \in DOMAIN FolderOrder}
ProjectAt(fs, a) == SnapshotOf(fs, FolderOrder[a[1]]).projects[a[2]]
First(places) ==
  CHOOSE a \in places : \A b \in places : a[1] < b[1] \/ (a[1] = b[1] /\ a[2] <= b[2])

\* The first project of a root rules out those with other include paths.
RootsOf(fs) == {ProjectAt(fs, a).root : a \in Places(fs)}
ProjectOf(fs, r) == ProjectAt(fs, First({a \in Places(fs) : ProjectAt(fs, a).root = r}))
AcceptedAt(fs) ==
  {a \in Places(fs) : ProjectAt(fs, a).paths = ProjectOf(fs, ProjectAt(fs, a).root).paths}

\* The first of them that has a target decides on its root.
TargetsOf(fs) == UNION {ProjectAt(fs, a).targets : a \in AcceptedAt(fs)}
ProjectWith(fs, t) == ProjectAt(fs, First({a \in AcceptedAt(fs) : t \in ProjectAt(fs, a).targets}))

\* workspaceModelOf
ModelOf(fs) ==
  [ roots   |-> [r \in RootsOf(fs) |-> ProjectOf(fs, r)],
    targets |-> [t \in TargetsOf(fs) |->
                   TargetRoot(ProjectWith(fs, t), {r \in RootsOf(fs) : t \in Within[r]})],
    issues  |-> {ProjectAt(fs, a).config : a \in Places(fs) \ AcceptedAt(fs)}
                  \cup UNION {SnapshotOf(fs, d).issues : d \in Folder} ]

-----------------------------------------------------------------------------
(* Views                                                                   *)

Live(vs) == {r \in Root : vs[r] # NoView}

\* The files of S that include a file of F, directly or through files of S:
\* the least set closed under that.
Reaching(F, S) ==
  {g \in S : \A D \in SUBSET S : {h \in S : Includes[h] \cap (F \cup D) # {}} \subseteq D => g \in D}

\* View.Update of the files F: their analysis takes the place of any other.
Updated(view, F) ==
  LET known == view.known \cup F IN
  IF F = {} THEN view
  ELSE [view EXCEPT !.known = known,
                    !.due = F \cup Reaching(F, known)]

\* View.Evict.
Evicted(view, F) == [view EXCEPT !.known = @ \ F, !.due = {}]

\* A variant that keeps every view whose root is still there.
KeptByRoot(r, next) == r \in DOMAIN next.roots
Kept(r, next) == r \in DOMAIN next.roots /\ model.roots[r].paths = next.roots[r].paths

\* The files that others own now.
Lost(r, next) ==
  {f \in OwnedFiles(model, documents, r) : OwnerOf(next, documents, f) # r}

\* What reconciling clears.  A variant clears only what views lost.
GoneWhenLost(next) == UNION {Lost(r, next) : r \in Live(views)}
Gone(next) ==
  UNION {IF Kept(r, next) THEN Lost(r, next) ELSE views[r].known : r \in Live(views)}

\* A view that is kept loses those files; any other starts afresh.
Remaining(r, next) ==
  IF r \notin Live(views) \/ ~Kept(r, next)
  THEN [paths |-> next.roots[r].paths, known |-> {}, due |-> {}]
  ELSE IF Lost(r, next) = {} THEN views[r] ELSE Evicted(views[r], Lost(r, next))

\* publishIssueChangesLocked publishes only where the issues have changed.
IssuesPublished(before, after) ==
  {u \in Config : IF (u \in before) # (u \in after) THEN u \in after ELSE u \in issuesShown}

\* reconcileLocked, for the folder states fs.
Reconcile(fs) ==
  LET next == ModelOf(fs)
  IN  /\ model' = next
      /\ views' = [r \in Root |->
           IF r \notin DOMAIN next.roots THEN NoView
           ELSE Updated(Remaining(r, next), OwnedFiles(next, documents, r))]
      /\ shown' = [f \in File |-> IF f \in Gone(next) THEN NoRoot ELSE shown[f]]
      /\ issuesShown' = IssuesPublished(model.issues, next.issues)

-----------------------------------------------------------------------------
(* Loads                                                                   *)

\* loadLocked for the folders D of fs: one batch, of those not loading yet.
LoadLocked(fs, D) ==
  LET batch == {d \in D : fs[d] # Inactive /\ ~fs[d].loading} IN
  IF ~loader \/ batch = {}
  THEN folders' = fs /\ UNCHANGED loads
  ELSE /\ folders' = [d \in Folder |-> IF d \in batch THEN [fs[d] EXCEPT !.loading = TRUE] ELSE fs[d]]
       /\ Len(loads) < MaxLoads
       /\ loads' = Append(loads,
            [ ids     |-> [d \in Folder |-> IF d \in batch THEN fs[d].id ELSE 0],
              results |-> [d \in Folder |-> Pending],
              sync    |-> FALSE ])

Start ==
  /\ ~started
  /\ started' = TRUE
  /\ LoadLocked(folders, Active)
  /\ UNCHANGED <<mode, loader, lastId, routing, documents, opening, events>>

\* The removed folders leave the model before the added ones are loaded.
ForgetRemoved(left, removed) ==
  IF Active \cap removed # {} THEN Reconcile(left) ELSE UNCHANGED routing

\* The editor asks for nothing after the shutdown.
ChangeFolders(added, removed) ==
  LET left == [d \in Folder |-> IF d \in removed THEN Inactive ELSE folders[d]]
      new  == {d \in added : left[d] = Inactive}
      id(d) == lastId + Cardinality({e \in new :
                 \E i, j \in DOMAIN FolderOrder : FolderOrder[i] = e /\ FolderOrder[j] = d /\ i <= j})
      next == [d \in Folder |-> IF d \in new THEN NewFolder(id(d)) ELSE left[d]]
  IN /\ started /\ loader
     /\ lastId + Cardinality(new) <= MaxId
     /\ lastId' = lastId + Cardinality(new)
     /\ ForgetRemoved(left, removed)
     /\ LoadLocked(next, new)
     /\ UNCHANGED <<mode, loader, started, documents, opening, events>>

Shutdown ==
  /\ started /\ loader
  /\ loader' = FALSE
  /\ folders' = [d \in Folder |->
       IF d \in Active THEN [folders[d] EXCEPT !.loading = FALSE] ELSE Inactive]
  /\ UNCHANGED <<mode, started, lastId, loads, routing, documents, opening, events>>

\* The loader returns for one folder of a batch, with or without an error.
Returns(l, d) ==
  /\ loads[l].ids[d] # 0
  /\ loads[l].results[d] = Pending
  /\ \E result \in mode.snapshots[d] \cup {Failed} :
       loads' = [loads EXCEPT ![l].results[d] = result]

Load(l, d) ==
  /\ Returns(l, d)
  /\ UNCHANGED <<mode, loader, started, folders, lastId, routing, documents, opening, events>>

Loaded(l) == \A d \in Folder : loads[l].ids[d] # 0 => loads[l].results[d] # Pending
Committed == [ids |-> [d \in Folder |-> 0], results |-> [d \in Folder |-> Pending], sync |-> FALSE]

\* All its results are in, and the goroutine of the batch takes the lock.
Ends(l) ==
  /\ loads[l] # Committed
  /\ Loaded(l)
  /\ loads' = [loads EXCEPT ![l] = Committed]

\* Variants: a result is accepted for any state of its folder, or the first
\* result that is not accepted ends the commit.
AcceptedByName(l) == {d \in Active : loads[l].ids[d] # 0}
AcceptedUntilStale(l) ==
  {d \in Active : loads[l].ids[d] = folders[d].id /\
     \A e \in Folder : loads[l].ids[e] # 0 => e \in Active /\ loads[l].ids[e] = folders[e].id}
Accepted(l) == {d \in Active : loads[l].ids[d] = folders[d].id}

Commits == loader

Commit(l) ==
  LET accepted == IF Commits THEN Accepted(l) ELSE {}
      next == [d \in Folder |->
        IF d \notin accepted THEN folders[d]
        ELSE [folders[d] EXCEPT
                !.loading = FALSE,
                !.settled = TRUE,
                !.origin = IF loads[l].results[d] = Failed THEN @ ELSE loads[l].ids[d],
                !.snapshot = IF loads[l].results[d] = Failed THEN @ ELSE loads[l].results[d]]]
  IN /\ Ends(l)
     /\ folders' = next
     /\ IF accepted = {} THEN UNCHANGED routing ELSE Reconcile(next)
     /\ opening' = IF loads[l].sync THEN [opening EXCEPT !.step = "apply"] ELSE opening
     /\ UNCHANGED <<mode, loader, started, lastId, documents, events>>

-----------------------------------------------------------------------------
(* Documents                                                               *)

\* applyChanges, for a change of f after which the documents are docs.
Apply(f, docs, closes) ==
  LET before == OwnerOf(model, documents, f)
      owner  == OwnerOf(model, docs, f)
      evicts == owner = NoRoot /\ closes /\ before # NoRoot /\ before \in Live(views)
  IN /\ documents' = docs
     /\ views' = CASE owner \in Live(views) -> [views EXCEPT ![owner] = Updated(@, {f})]
                   [] evicts -> [views EXCEPT ![before] = Evicted(@, {f})]
                   [] OTHER -> views
     /\ shown' = IF evicts THEN [shown EXCEPT ![f] = NoRoot] ELSE shown
     /\ UNCHANGED <<model, issuesShown>>

NotOpening == [step |-> "idle", file |-> NoFile]

\* Every request but the one under way waits for it.
Request(f) ==
  /\ started /\ loader
  /\ opening = NotOpening
  /\ events < MaxEvents
  /\ events' = events + 1

\* didOpen asks whether the file is owned, then whether a root contains it,
\* and may load the directory of the file before it applies the change.
Open(f) ==
  /\ Request(f)
  /\ f \notin documents
  /\ opening' = [step |-> IF mode.implicit /\ OwnerOf(model, documents, f) = NoRoot
                          THEN "contained" ELSE "apply",
                 file |-> f]
  /\ UNCHANGED <<mode, loader, started, loading, routing, documents>>

Contained ==
  /\ opening.step = "contained"
  /\ opening' = [opening EXCEPT !.step =
       IF RootFor(model, opening.file) = NoRoot THEN "load" ELSE "apply"]
  /\ UNCHANGED <<mode, loader, started, loading, routing, documents, events>>

LoadSync ==
  LET d == DirOf[opening.file]
      state == IF folders[d] = Inactive THEN NewFolder(lastId + 1) ELSE folders[d]
  IN /\ opening.step = "load"
     /\ Len(loads) < MaxLoads /\ lastId < MaxId
     /\ folders' = [folders EXCEPT ![d] = state]
     /\ lastId' = IF folders[d] = Inactive THEN lastId + 1 ELSE lastId
     /\ IF loader
        THEN /\ loads' = Append(loads,
                  [ ids     |-> [e \in Folder |-> IF e = d THEN state.id ELSE 0],
                    results |-> [e \in Folder |-> Pending],
                    sync    |-> TRUE ])
             /\ opening' = [opening EXCEPT !.step = "loading"]
        ELSE /\ opening' = [opening EXCEPT !.step = "apply"]
             /\ UNCHANGED loads
     /\ UNCHANGED <<mode, loader, started, routing, documents, events>>

Opened ==
  /\ opening.step = "apply"
  /\ Apply(opening.file, documents \cup {opening.file}, FALSE)
  /\ opening' = NotOpening
  /\ UNCHANGED <<mode, loader, started, loading, events>>

\* didChange, or a watched file that was changed or deleted; a change of a
\* file that is neither open nor owned is ignored.
Touch(f) ==
  /\ Request(f)
  /\ f \in documents \/ OwnerOf(model, documents, f) # NoRoot
  /\ Apply(f, documents, FALSE)
  /\ UNCHANGED <<mode, loader, started, loading, opening>>

Close(f) ==
  /\ Request(f)
  /\ f \in documents
  /\ Apply(f, documents \ {f}, TRUE)
  /\ UNCHANGED <<mode, loader, started, loading, opening>>

-----------------------------------------------------------------------------
(* Views at work                                                           *)

\* An analysis parses what the files it looks at include.
ParseInclude(r, f) ==
  /\ r \in Live(views)
  /\ f \notin views[r].known
  /\ \E g \in views[r].known : f \in Includes[g]
  /\ views' = [views EXCEPT ![r].known = @ \cup {f}]
  /\ UNCHANGED <<mode, loader, started, loading, model, documents, shown, issuesShown,
                 opening, events>>

Publish(r, f) ==
  /\ r \in Live(views)
  /\ f \in views[r].due
  /\ views' = [views EXCEPT ![r].due = @ \ {f}]
  /\ shown' = [shown EXCEPT ![f] = r]
  /\ UNCHANGED <<mode, loader, started, loading, model, documents, issuesShown, opening, events>>

-----------------------------------------------------------------------------
Init ==
  /\ mode \in Modes
  /\ loader = TRUE
  /\ started = FALSE
  /\ lastId = 1
  /\ \E active \in Initial :
       folders = [d \in Folder |-> IF d \in active THEN NewFolder(1) ELSE Inactive]
  /\ loads = <<>>
  /\ model = EmptyModel
  /\ views = [r \in Root |-> NoView]
  /\ documents = {}
  /\ shown = [f \in File |-> NoRoot]
  /\ issuesShown = {}
  /\ opening = NotOpening
  /\ events = 0

LoadStep(l) == (\E d \in Folder : Load(l, d)) \/ Commit(l)

Next ==
  \/ Start
  \/ \E batch \in Batches : ChangeFolders(batch[1], batch[2])
  \/ Shutdown
  \/ \E l \in DOMAIN loads : LoadStep(l)
  \/ \E f \in File : Open(f) \/ Touch(f) \/ Close(f)
  \/ Contained
  \/ LoadSync
  \/ Opened
  \/ \E r \in Root, f \in File : ParseInclude(r, f) \/ Publish(r, f)

(* The loader returns and the goroutine of the batch is scheduled: every    *)
(* step that Returns is a Load and every step that Ends is a Commit.       *)
Fairness ==
  \A l \in 1..MaxLoads :
    WF_loads(l \in DOMAIN loads /\ ((\E d \in Folder : Returns(l, d)) \/ Ends(l)))

Spec == Init /\ [][Next]_vars
FairSpec == Spec /\ Fairness

-----------------------------------------------------------------------------
\* The shape of the state.  The model has that of ModelOf.
TypeOK ==
  /\ mode \in Modes /\ loader \in BOOLEAN /\ started \in BOOLEAN
  /\ folders \in [Folder -> FolderState \cup {Inactive}]
  /\ lastId \in Nat \ {0}
  /\ loads \in Seq(LoadState)
  /\ views \in [Root -> View \cup {NoView}]
  /\ documents \subseteq File
  /\ shown \in [File -> Root \cup {NoRoot}]
  /\ issuesShown \subseteq Config
  /\ opening \in [step : {"idle", "contained", "load", "loading", "apply"}, file : File \cup {NoFile}]
  /\ events \in Nat

(***************************************************************************)
(* What is in force follows from the snapshots of the active folders, with *)
(* no removal, failed load, late commit or shutdown that leaves a part of  *)
(* it behind: the model is theirs, each of its roots has a view, made for  *)
(* the include paths the root has now, there is no other view, and the     *)
(* editor shows issues exactly where there are some, although only changes *)
(* of them are published.                                                  *)
(***************************************************************************)
SnapshotsFollowed ==
  LET m == ModelOf(folders)
  IN  /\ model = m /\ issuesShown = m.issues
      /\ \A r \in Root :
           IF r \in DOMAIN m.roots
           THEN views[r] # NoView /\ views[r].paths = m.roots[r].paths
           ELSE views[r] = NoView

(***************************************************************************)
(* The view that a request for an owned file is routed to tracks the file, *)
(* whatever folders, snapshots and documents came and went.                *)
(***************************************************************************)
OwnedTracked ==
  \A f \in File :
    LET r == OwnerOf(model, documents, f) IN r # NoRoot => f \in views[r].known

(***************************************************************************)
(* Findings that the editor shows come from a view that still exists and   *)
(* still tracks the file: no file a view lost, and no view that was        *)
(* replaced, leaves findings behind.                                       *)
(***************************************************************************)
ShownTracked ==
  \A f \in File : shown[f] # NoRoot =>
    views[shown[f]] # NoView /\ f \in views[shown[f]].known

(***************************************************************************)
(* A folder's snapshot was loaded for the folder as it is now, not for one *)
(* of the same name that was removed before the load was over.             *)
(***************************************************************************)
LoadsBelong == \A d \in Active : folders[d].origin \in {0, folders[d].id}

-----------------------------------------------------------------------------
(* Liveness                                                                *)

(***************************************************************************)
(* A folder that is loading is settled by the load that was started for    *)
(* it, unless it is removed or the server is shut down: no load gets lost  *)
(* in the batch of a folder that is gone.                                  *)
(***************************************************************************)
LoadsSettle ==
  \A d \in Folder :
    (d \in Active /\ folders[d].loading) ~>
      (d \notin Active \/ (~folders[d].loading /\ (folders[d].settled \/ ~loader)))

-----------------------------------------------------------------------------
(* An expectation the code does not meet                                   *)

(***************************************************************************)
(* The model derives "all routing and diagnostics ownership": the findings *)
(* shown for an owned file come from the view of the project that owns it. *)
(***************************************************************************)
OwnerDiagnoses ==
  \A f \in File :
    (shown[f] # NoRoot /\ OwnerOf(model, documents, f) # NoRoot)
      => shown[f] = OwnerOf(model, documents, f)
=============================================================================
