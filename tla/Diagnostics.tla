----------------------------- MODULE Diagnostics -----------------------------
(***************************************************************************)
(* lsp: how findings reach the editor.  A request changes a file and       *)
(* updates its view, which starts a background analysis of the affected    *)
(* files; the analysis publishes its findings unless the view has moved on *)
(* to a later generation.  Closing a file evicts it and clears what was    *)
(* published for it.  Requests, the loader's commits and analyses run      *)
(* concurrently: changes of the workspace hold workspaceMu, a rename does  *)
(* not; analysisMu admits one analysis at a time; reportMu guards reports  *)
(* and is held by an analysis from its last check until it has published.  *)
(*                                                                         *)
(* A view is what FileCache promises: an analysis sees each file at a      *)
(* version between its last invalidation and now.                          *)
(***************************************************************************)
EXTENDS Naturals, FiniteSets

CONSTANTS
  File,        \* the URIs
  Handler,     \* the goroutines that change files and views
  Kinds,       \* the kinds of changes they make
  Includers,   \* Includers[f]: the files that include f
  MaxGen,      \* bound: how often the view is updated or evicted from
  Free,        \* the holder of a free mutex
  None,        \* no findings
  NoFile       \* an analysis that is sending nothing

ASSUME IncludersAssumption == Includers \in [File -> SUBSET File]
ASSUME KindsAssumption ==
  Kinds \subseteq {"edit", "close", "drop", "delete", "rename", "load", "lose"}
ASSUME BoundAssumption == MaxGen \in Nat
ASSUME HandlersAssumption == IsFiniteSet(Handler)

(* One analysis per update, named by the generation the update made.       *)
Job == 1..MaxGen

Finding == [job : Job, version : Nat]

ASSUME SentinelAssumption ==
  /\ NoFile \notin File
  /\ None \notin Finding
  /\ Free \notin Handler \cup Job

VARIABLES
  text,         \* the version of each file's current content
  readable,     \* the files that can be read
  gen,          \* View.gen
  floor,        \* the version of each file when it was last invalidated
  tracked,      \* the files the view has an entry for
  request,      \* what each handler is doing
  job,          \* what each analysis is doing
  workspaceMu,  \* the holders of the mutexes
  analysisMu,
  reportMu,
  reports,      \* Server.reports: the findings code actions use
  shown,        \* the last findings sent to the editor
  unsent,       \* history: files the last message about which could not be sent
  cleared       \* history: files cleared since they were last updated

files == <<text, readable>>
view == <<gen, floor, tracked>>
published == <<reports, shown, unsent>>
mutexes == <<workspaceMu, analysisMu, reportMu>>
vars == <<files, view, request, job, mutexes, published, cleared>>

Request ==
  [ step  : {"idle", "forget", "write", "change", "post", "clear"},
    kind  : Kinds \cup {"none", "refresh"},
    files : SUBSET File,
    gen   : 0..MaxGen ]

Quiet == [step |-> "idle", kind |-> "none", files |-> {}, gen |-> 0]

JobState ==
  [ step     : {"none", "started", "waiting", "running", "reporting", "publishing",
                "sending", "done", "dropped", "panicked"},
    affected : SUBSET File,
    seen     : [File -> Nat],   \* the version of each affected file analysed
    todo     : SUBSET File,     \* the affected files not yet published
    file     : File \cup {NoFile} ]

NoJob == [step |-> "none", affected |-> {}, seen |-> [f \in File |-> 0],
          todo |-> {}, file |-> NoFile]

TypeOK ==
  /\ text \in [File -> Nat]
  /\ readable \subseteq File
  /\ gen \in 0..MaxGen
  /\ floor \in [File -> Nat]
  /\ tracked \subseteq File
  /\ request \in [Handler -> Request]
  /\ job \in [Job -> JobState]
  /\ workspaceMu \in Handler \cup {Free}
  /\ analysisMu \in Job \cup {Free}
  /\ reportMu \in Job \cup {Free}
  /\ reports \in [File -> Finding \cup {None}]
  /\ shown \in [File -> Finding \cup {None}]
  /\ unsent \subseteq File
  /\ cleared \subseteq File

-----------------------------------------------------------------------------
(* Changes.  "edit": didOpen, didChange, or a file changed on disk.        *)
(* "close": didClose of a file its project still owns.  "drop": didClose   *)
(* of any other file, which leaves the view with it.  "delete": a watched  *)
(* file is gone from the disk.  "rename": didRenameFiles of the old        *)
(* location.  "load" and "lose": a reconciled workspace updates the files  *)
(* of a project and evicts those it lost.                                  *)

Closes(kind) == kind \in {"close", "drop", "delete"}
Evicts(kind) == kind \in {"drop", "lose"}
Writes(kind) == kind \in {"edit", "close", "drop", "rename"}
Locks(kind) == kind \notin {"rename", "refresh"}

\* The handlers that have yet to update or evict, those that update twice,
\* and the generations they will still make.
Changing == {h \in Handler : request[h].step \in {"forget", "write", "change"}}
Renaming == {h \in Handler : request[h].kind = "rename"}
Pending == Cardinality(Changing) + Cardinality(Renaming)

Begin(h, kind, F) ==
  /\ request[h] = Quiet
  /\ kind \in {"load", "lose"} \/ Cardinality(F) = 1
  /\ gen + Pending + (IF kind = "rename" THEN 2 ELSE 1) <= MaxGen
  /\ request' = [request EXCEPT ![h] =
       [Quiet EXCEPT !.step = IF Closes(kind) THEN "forget" ELSE "write",
                     !.kind = kind, !.files = F]]
  /\ text' = [f \in File |-> IF kind = "delete" /\ f \in F THEN text[f] + 1 ELSE text[f]]
  /\ readable' = IF kind = "delete" THEN readable \ F ELSE readable
  /\ UNCHANGED <<view, job, mutexes, published, cleared>>

\* forgetReport, before the workspace is locked.
Forget(h) ==
  /\ request[h].step = "forget"
  /\ reportMu = Free
  /\ reports' = [f \in File |-> IF f \in request[h].files THEN None ELSE reports[f]]
  /\ request' = [request EXCEPT ![h].step = "write"]
  /\ UNCHANGED <<files, view, job, mutexes, shown, unsent, cleared>>

\* The overlay is set or dropped.  That of a renamed file hides no file.
Write(h) ==
  LET r == request[h] IN
  /\ r.step = "write"
  /\ Locks(r.kind) => workspaceMu = Free
  /\ workspaceMu' = IF Locks(r.kind) THEN h ELSE workspaceMu
  /\ text' = [f \in File |-> IF Writes(r.kind) /\ f \in r.files THEN text[f] + 1 ELSE text[f]]
  /\ readable' = CASE r.kind = "rename" -> readable \ r.files
                   [] r.kind = "edit"   -> readable \cup r.files
                   [] OTHER             -> readable
  /\ request' = [request EXCEPT ![h].step = "change"]
  /\ UNCHANGED <<view, job, analysisMu, reportMu, published, cleared>>

\* View.Update and View.Evict invalidate the files and advance the view.
Invalidate(F) ==
  /\ gen' = gen + 1
  /\ floor' = [f \in File |-> IF f \in F THEN text[f] ELSE floor[f]]

Update(h) ==
  LET r == request[h] IN
  /\ r.step = "change"
  /\ ~Evicts(r.kind)
  /\ Invalidate(r.files)
  /\ tracked' = tracked \cup r.files
  /\ cleared' = cleared \ r.files
  /\ request' = [request EXCEPT ![h].step = "post", ![h].gen = gen + 1]
  /\ UNCHANGED <<files, job, mutexes, published>>

\* The files of S that include a file of F or, through files of S, reach one:
\* the least set closed under that.
Reaching(F, S) ==
  {g \in S : \A D \in SUBSET S :
      (\A f \in F \cup D : Includers[f] \cap S \subseteq D) => g \in D}

Dependents(F) == Reaching(F, tracked)

\* postDiagnostics starts the goroutine of the analysis.  That ends a change,
\* but a rename goes on with the files that include the old location.
Post(h) ==
  LET r == request[h]
      refreshed == (UNION {Includers[f] : f \in r.files}) \cap tracked \cap readable
  IN
  /\ r.step = "post"
  /\ job' = [job EXCEPT ![r.gen] =
       [NoJob EXCEPT !.step = "started", !.affected = r.files \cup Dependents(r.files)]]
  /\ request' = [request EXCEPT ![h] =
       IF r.kind = "rename" /\ refreshed # {}
       THEN [r EXCEPT !.step = "change", !.kind = "refresh", !.files = refreshed]
       ELSE Quiet]
  /\ workspaceMu' = IF Locks(r.kind) THEN Free ELSE workspaceMu
  /\ UNCHANGED <<files, view, analysisMu, reportMu, published, cleared>>

Evict(h) ==
  LET r == request[h] IN
  /\ r.step = "change"
  /\ Evicts(r.kind)
  /\ Invalidate(r.files)
  /\ tracked' = tracked \ r.files
  /\ request' = [request EXCEPT ![h].step = "clear"]
  /\ UNCHANGED <<files, job, mutexes, published, cleared>>

\* A variant that does not wait for the analysis that is publishing.
MayClearAtOnce == TRUE
MayClear == reportMu = Free

\* A message to the editor about each of the files F, of which those about the
\* files lost fail.
Notify(F, lost) == unsent' = (unsent \ F) \cup lost

\* clearDiagnostics.
Clear(h) ==
  LET F == request[h].files IN
  /\ request[h].step = "clear"
  /\ MayClear
  /\ reports' = [f \in File |-> IF f \in F THEN None ELSE reports[f]]
  /\ \E lost \in SUBSET F :
       /\ Notify(F, lost)
       /\ shown' = [f \in File |-> IF f \in F \ lost THEN None ELSE shown[f]]
  /\ cleared' = cleared \cup F
  /\ request' = [request EXCEPT ![h] = Quiet]
  /\ workspaceMu' = Free
  /\ UNCHANGED <<files, view, job, analysisMu, reportMu>>

-----------------------------------------------------------------------------
(* The analysis of one update (postDiagnostics' goroutine, diagnoseAt).    *)
(* A generation never returns, so of two checks with no effect between     *)
(* them only the later one is kept.                                        *)

CurrentUpTo(j) == gen >= j    \* a variant that drops nothing
IsCurrent(j) == gen = j

\* The check before the goroutine queues up for analysisMu.
Start(j) ==
  /\ job[j].step = "started"
  /\ job' = [job EXCEPT ![j].step = IF IsCurrent(j) THEN "waiting" ELSE "dropped"]
  /\ UNCHANGED <<files, view, request, mutexes, published, cleared>>

Acquire(j) ==
  /\ job[j].step = "waiting"
  /\ analysisMu = Free
  /\ analysisMu' = IF IsCurrent(j) THEN j ELSE Free
  /\ job' = [job EXCEPT ![j].step = IF IsCurrent(j) THEN "running" ELSE "dropped"]
  /\ UNCHANGED <<files, view, request, workspaceMu, reportMu, published, cleared>>

\* Pipeline.Run.  The view keeps the parses of the files the analysis looks
\* at, those they include too, unless it has moved on.
RunAnalyzers(j) ==
  LET s == job[j]
      reached == {f \in File : Reaching({f}, File) \cap s.affected # {}}
  IN
  /\ s.step = "running"
  /\ \E seen \in [s.affected -> UNION {floor[f]..text[f] : f \in s.affected}] :
       /\ \A f \in s.affected : seen[f] \in floor[f]..text[f]
       /\ job' = [job EXCEPT ![j].step = "reporting",
            ![j].seen = [f \in File |-> IF f \in s.affected THEN seen[f] ELSE 0]]
  /\ tracked' = IF IsCurrent(j) THEN tracked \cup ((s.affected \cup reached) \cap readable)
                ELSE tracked
  /\ UNCHANGED <<files, gen, floor, request, mutexes, published, cleared>>

\* A variant that never gives the mutex back.
PanicLocked(j) ==
  /\ job[j].step = "running"
  /\ job' = [job EXCEPT ![j].step = "panicked"]
  /\ UNCHANGED <<files, view, request, mutexes, published, cleared>>

\* A panicking analyzer: the goroutine recovers and gives analysisMu back.
Panic(j) ==
  /\ job[j].step = "running"
  /\ job' = [job EXCEPT ![j].step = "panicked"]
  /\ analysisMu' = Free
  /\ UNCHANGED <<files, view, request, workspaceMu, reportMu, published, cleared>>

FindingOf(j, f) == [job |-> j, version |-> job[j].seen[f]]

\* View.Parse of a file that is gone may still find its cached parse, until
\* the view learns of the change.
MayParse == readable \cup {f \in File : floor[f] # text[f]}

ReportsAfter(j, parsed) ==
  [f \in File |-> IF f \notin job[j].affected THEN reports[f]
                  ELSE IF f \in parsed THEN FindingOf(j, f) ELSE None]

Report(j) ==
  /\ job[j].step = "reporting"
  /\ reportMu = Free
  /\ IF IsCurrent(j)
     THEN /\ \E parsed \in SUBSET MayParse :
               readable \subseteq parsed /\ reports' = ReportsAfter(j, parsed)
          /\ reportMu' = j
          /\ job' = [job EXCEPT ![j].step = "publishing", ![j].todo = job[j].affected]
          /\ UNCHANGED analysisMu
     ELSE /\ job' = [job EXCEPT ![j].step = "dropped"]
          /\ analysisMu' = Free
          /\ UNCHANGED <<reports, reportMu>>
  /\ UNCHANGED <<files, view, request, workspaceMu, shown, unsent, cleared>>

\* A file that cannot be parsed is skipped, by the loop or by
\* ToProtocolDiagnostics, which parses it again.
Prepare(j, f) ==
  /\ job[j].step = "publishing"
  /\ f \in job[j].todo
  /\ IsCurrent(j)
  /\ \/ /\ f \in MayParse
        /\ job' = [job EXCEPT ![j].step = "sending", ![j].file = f]
     \/ /\ f \notin readable
        /\ job' = [job EXCEPT ![j].todo = @ \ {f}]
  /\ UNCHANGED <<files, view, request, mutexes, published, cleared>>

\* A variant that ends with the first file.
PublishFirst(j) ==
  LET f == job[j].file IN
  /\ job[j].step = "sending"
  /\ Notify({f}, {})
  /\ shown' = [shown EXCEPT ![f] = FindingOf(j, f)]
  /\ job' = [job EXCEPT ![j].step = "publishing", ![j].todo = {}, ![j].file = NoFile]
  /\ UNCHANGED <<files, view, request, mutexes, reports, cleared>>

\* PublishDiagnostics, which a change may overtake after the last check.  If
\* it fails the loop goes on.
Publish(j) ==
  LET f == job[j].file IN
  /\ job[j].step = "sending"
  /\ \/ Notify({f}, {}) /\ shown' = [shown EXCEPT ![f] = FindingOf(j, f)]
     \/ Notify({f}, {f}) /\ UNCHANGED shown
  /\ job' = [job EXCEPT ![j].step = "publishing", ![j].todo = @ \ {f}, ![j].file = NoFile]
  /\ UNCHANGED <<files, view, request, mutexes, reports, cleared>>

\* A variant that forgets reportMu when the view has moved on.
FinishLocked(j) ==
  /\ job[j].step = "publishing"
  /\ \/ /\ job[j].todo = {}
        /\ job' = [job EXCEPT ![j].step = "done"]
        /\ reportMu' = Free
     \/ /\ job[j].todo # {}
        /\ ~IsCurrent(j)
        /\ job' = [job EXCEPT ![j].step = "dropped"]
        /\ UNCHANGED reportMu
  /\ analysisMu' = Free
  /\ UNCHANGED <<files, view, request, workspaceMu, published, cleared>>

Finish(j) ==
  /\ job[j].step = "publishing"
  /\ \/ job[j].todo = {} /\ job' = [job EXCEPT ![j].step = "done"]
     \/ /\ job[j].todo # {}
        /\ ~IsCurrent(j)
        /\ job' = [job EXCEPT ![j].step = "dropped"]
  /\ analysisMu' = Free
  /\ reportMu' = Free
  /\ UNCHANGED <<files, view, request, workspaceMu, published, cleared>>

-----------------------------------------------------------------------------
Init ==
  /\ text = [f \in File |-> 0]
  /\ readable = File
  /\ gen = 0
  /\ floor = [f \in File |-> 0]
  /\ tracked = {}
  /\ request = [h \in Handler |-> Quiet]
  /\ job = [j \in Job |-> NoJob]
  /\ workspaceMu = Free /\ analysisMu = Free /\ reportMu = Free
  /\ reports = [f \in File |-> None]
  /\ shown = [f \in File |-> None]
  /\ unsent = {}
  /\ cleared = {}

ChangeStep(h) ==
  Forget(h) \/ Write(h) \/ Update(h) \/ Post(h) \/ Evict(h) \/ Clear(h)

AnalysisStep(j) ==
  \/ Start(j)
  \/ Acquire(j)
  \/ RunAnalyzers(j)
  \/ Panic(j)
  \/ Report(j)
  \/ \E f \in File : Prepare(j, f)
  \/ Publish(j)
  \/ Finish(j)

Next ==
  \/ \E h \in Handler, kind \in Kinds, F \in SUBSET File \ {{}} : Begin(h, kind, F)
  \/ \E h \in Handler : ChangeStep(h)
  \/ \E j \in Job : AnalysisStep(j)

(* Goroutines are scheduled and Go's mutexes do not starve a waiter; only  *)
(* the editor decides whether there is a next change.                      *)
Fairness ==
  /\ \A h \in Handler : WF_vars(ChangeStep(h))
  /\ \A j \in Job : WF_vars(AnalysisStep(j))

Spec == Init /\ [][Next]_vars
FairSpec == Spec /\ Fairness

-----------------------------------------------------------------------------
(* Safety                                                                  *)

(***************************************************************************)
(* A file that the view does not track has no report and shows no          *)
(* findings, unless they are just about to be cleared or the message that  *)
(* cleared them was not sent: an analysis that the eviction of a file      *)
(* overtakes never brings its findings back.                               *)
(***************************************************************************)
ClearedStayClear ==
  \A f \in File :
    (/\ f \notin tracked
     /\ \A h \in Handler : ~(request[h].step = "clear" /\ f \in request[h].files))
      => reports[f] = None /\ (f \notin unsent => shown[f] = None)

(***************************************************************************)
(* What the editor shows for a file is never replaced by the findings of   *)
(* an earlier generation.                                                  *)
(***************************************************************************)
NeverBackwards ==
  [][\A f \in File :
       (shown[f] # None /\ shown'[f] # None) => shown[f].job <= shown'[f].job]_shown

(***************************************************************************)
(* Code actions never work with findings older than those the editor       *)
(* shows: "so code actions can pair fixes with the diagnostics".           *)
(***************************************************************************)
ReportsKeepUp ==
  \A f \in File :
    (shown[f] # None /\ reports[f] # None) => shown[f].job <= reports[f].job

\* No change of f is under way that the view does not know of.
Settled(f) ==
  \A h \in Handler : request[h].step \in {"change", "clear"} => f \notin request[h].files

(***************************************************************************)
(* When the analysis of the view's latest generation is done, each file it *)
(* was about shows its findings, made from a content no older than the     *)
(* last change of the file that was announced to the view.  A message that *)
(* fails costs its own file only.                                          *)
(***************************************************************************)
LatestIsShown ==
  \A j \in Job :
    (IsCurrent(j) /\ job[j].step = "done") =>
      \A f \in (job[j].affected \ (cleared \cup unsent)) \cap readable :
        Settled(f) => shown[f] # None /\ shown[f].job = j /\ shown[f].version >= floor[f]

-----------------------------------------------------------------------------
(* Liveness                                                                *)

(***************************************************************************)
(* Every change returns: no handler waits for ever for a mutex that an     *)
(* analysis or another handler holds.                                      *)
(***************************************************************************)
ChangesReturn == \A h \in Handler : request[h] # Quiet ~> request[h] = Quiet

(***************************************************************************)
(* The analysis of every update ends, and the analysis of the latest one   *)
(* publishes its findings or panics unless a later change supersedes it.   *)
(***************************************************************************)
LatestIsPublished ==
  \A j \in Job :
    job[j].step = "started" ~>
      (job[j].step \in {"done", "panicked"} \/ (job[j].step = "dropped" /\ ~IsCurrent(j)))

-----------------------------------------------------------------------------
(* An expectation the code does not meet                                   *)

(***************************************************************************)
(* "the generation check drops the results -- the newer change publishes   *)
(* its own": once everything is at rest, each file that some change        *)
(* affected shows findings of that change or of a later one, if the        *)
(* messages to the editor are sent.                                        *)
(***************************************************************************)
DroppedResultsReplaced ==
  (/\ \A h \in Handler : request[h] = Quiet
   /\ \A j \in Job : job[j].step \in {"none", "done", "dropped"})
    => \A j \in Job : \A f \in (job[j].affected \ (cleared \cup unsent)) \cap readable :
         shown[f] # None /\ shown[f].job >= j

=============================================================================
