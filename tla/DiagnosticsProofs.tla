-------------------------- MODULE DiagnosticsProofs --------------------------
(***************************************************************************)
(* Theorems about Diagnostics, for any files, include relation, handlers   *)
(* and bound on the generations.                                           *)
(***************************************************************************)
EXTENDS Diagnostics, FiniteSetTheorems, TLAPS

USE DEF Job

-----------------------------------------------------------------------------
(***************************************************************************)
(* Typing.  That an update finds a generation left needs the bound to      *)
(* account for the changes under way.                                      *)
(***************************************************************************)
Bounded == gen + Pending <= MaxGen

Typed == TypeOK /\ Bounded

\* What is being sent is about a file.
Aimed == \A j \in Job : job[j].step = "sending" => job[j].file \in File

LEMMA QuietIsRequest == Quiet \in Request
  BY BoundAssumption DEF Quiet, Request

LEMMA NoJobIsJobState == NoJob \in JobState
  BY DEF NoJob, JobState

LEMMA ReachingTracked ==
  ASSUME NEW F, NEW S PROVE Reaching(F, S) \subseteq S
  BY DEF Reaching

LEMMA FiniteHandlers ==
  /\ IsFiniteSet(Changing) /\ Cardinality(Changing) \in Nat
  /\ IsFiniteSet(Renaming) /\ Cardinality(Renaming) \in Nat
  BY HandlersAssumption, FS_Subset, FS_CardinalityType DEF Changing, Renaming

\* How the number of elements changes with one element.
LEMMA OneMore ==
  ASSUME NEW S, IsFiniteSet(S), NEW x, NEW T, T \subseteq S \cup {x}
  PROVE  Cardinality(T) <= Cardinality(S) + 1 /\ Cardinality(T) \in Nat
<1>1. Cardinality(S) \in Nat
  BY FS_CardinalityType
<1>2. IsFiniteSet(S \cup {x})
      /\ Cardinality(S \cup {x}) \in {Cardinality(S), Cardinality(S) + 1}
  BY FS_AddElement
<1>3. Cardinality(T) <= Cardinality(S \cup {x}) /\ IsFiniteSet(T)
  BY <1>2, FS_Subset
<1>4. Cardinality(T) \in Nat
  BY <1>3, FS_CardinalityType
<1>5. QED
  BY <1>1, <1>2, <1>3, <1>4

LEMMA OneLess ==
  ASSUME NEW S, IsFiniteSet(S), NEW x \in S, NEW T, T \subseteq S \ {x}
  PROVE  Cardinality(T) <= Cardinality(S) - 1 /\ Cardinality(T) \in Nat
<1>1. IsFiniteSet(S \ {x}) /\ Cardinality(S \ {x}) = Cardinality(S) - 1
  BY FS_RemoveElement
<1>2. QED
  BY <1>1, FS_Subset, FS_CardinalityType

LEMMA NoMore ==
  ASSUME NEW S, IsFiniteSet(S), NEW T, T \subseteq S
  PROVE  Cardinality(T) <= Cardinality(S) /\ Cardinality(T) \in Nat
  BY FS_Subset, FS_CardinalityType

\* The states an analysis goes through.
JobStep == {"none", "started", "waiting", "running", "reporting", "publishing",
            "sending", "done", "dropped", "panicked"}

LEMMA StepChanged ==
  ASSUME TypeOK, NEW j \in Job, NEW step \in JobStep
  PROVE  [job EXCEPT ![j].step = step] \in [Job -> JobState]
<1>1. job \in [Job -> JobState] /\ job[j] \in JobState
  BY DEF TypeOK
<1>2. [job[j] EXCEPT !.step = step] \in JobState
  BY <1>1 DEF JobState, JobStep
<1>3. QED
  BY <1>1, <1>2

LEMMA TodoChanged ==
  ASSUME TypeOK, NEW j \in Job, NEW step \in JobStep, NEW todo \in SUBSET File,
         NEW file \in File \cup {NoFile}
  PROVE  /\ [job EXCEPT ![j].todo = todo] \in [Job -> JobState]
         /\ [job EXCEPT ![j].step = step, ![j].todo = todo] \in [Job -> JobState]
         /\ [job EXCEPT ![j].step = step, ![j].file = file] \in [Job -> JobState]
         /\ [job EXCEPT ![j].step = step, ![j].todo = todo, ![j].file = file]
              \in [Job -> JobState]
<1>1. job \in [Job -> JobState] /\ job[j] \in JobState
  BY DEF TypeOK
<1>2. /\ [job[j] EXCEPT !.todo = todo] \in JobState
      /\ [job[j] EXCEPT !.step = step, !.todo = todo] \in JobState
      /\ [job[j] EXCEPT !.step = step, !.file = file] \in JobState
      /\ [job[j] EXCEPT !.step = step, !.todo = todo, !.file = file] \in JobState
  BY <1>1 DEF JobState, JobStep
<1>3. QED
  BY <1>1, <1>2

LEMMA NextAimed ==
  ASSUME TypeOK, Aimed, [Next]_vars
  PROVE  Aimed'
<1>a. job \in [Job -> JobState] /\ NoJob.step # "sending"
  BY DEF TypeOK, NoJob
<1>1. ASSUME NEW j \in Job, AnalysisStep(j) PROVE Aimed'
  <2> SUFFICES job'[j].step = "sending" => job'[j].file \in File
    <3>1. \A i \in Job \ {j} : job'[i] = job[i]
      BY <1>a, <1>1 DEF AnalysisStep, Start, Acquire, RunAnalyzers, Panic, Report, Prepare,
                        Publish, Finish
    <3>2. QED
      BY <3>1 DEF Aimed
  <2>1. job[j] \in JobState
    BY <1>a
  <2>2. ASSUME NEW f \in File, Prepare(j, f) PROVE job'[j].step = "sending" => job'[j].file \in File
    <3>1. CASE job' = [job EXCEPT ![j].step = "sending", ![j].file = f]
      BY <1>a, <2>1, <3>1 DEF JobState
    <3>2. CASE job' = [job EXCEPT ![j].todo = @ \ {f}]
      <4>1. job'[j].step = job[j].step /\ job[j].step = "publishing"
        BY <1>a, <2>1, <2>2, <3>2 DEF Prepare, JobState
      <4>2. QED
        BY <4>1
    <3>3. QED
      BY <2>2, <3>1, <3>2 DEF Prepare
  <2>3. CASE Start(j) \/ Acquire(j) \/ Panic(j) \/ Finish(j)
    <3>1. ASSUME NEW step \in {"waiting", "dropped", "running", "panicked", "done"},
                 job' = [job EXCEPT ![j].step = step]
          PROVE  job'[j].step # "sending"
      BY <1>a, <2>1, <3>1 DEF JobState
    <3>2. QED
      BY <2>3, <3>1 DEF Start, Acquire, Panic, Finish
  <2>4. CASE RunAnalyzers(j)
    <3>1. ASSUME NEW seen, job' = [job EXCEPT ![j].step = "reporting", ![j].seen = seen]
          PROVE  job'[j].step # "sending"
      BY <1>a, <2>1, <3>1 DEF JobState
    <3>2. QED
      BY <2>4, <3>1 DEF RunAnalyzers
  <2>5. CASE Report(j)
    <3>1. CASE job' = [job EXCEPT ![j].step = "publishing", ![j].todo = job[j].affected]
      BY <1>a, <2>1, <3>1 DEF JobState
    <3>2. CASE job' = [job EXCEPT ![j].step = "dropped"]
      BY <1>a, <2>1, <3>2 DEF JobState
    <3>3. QED
      BY <2>5, <3>1, <3>2 DEF Report
  <2>6. CASE Publish(j)
    BY <1>a, <2>1, <2>6 DEF Publish, JobState
  <2>7. QED
    BY <1>1, <2>2, <2>3, <2>4, <2>5, <2>6 DEF AnalysisStep
<1>2. ASSUME NEW h \in Handler, Post(h) PROVE Aimed'
  <2>1. PICK started : started.step = "started" /\ job' = [job EXCEPT ![request[h].gen] = started]
    BY <1>2 DEF Post, NoJob
  <2>2. QED
    BY <1>a, <2>1 DEF Aimed
<1>3. CASE job' = job
  BY <1>3 DEF Aimed
<1>4. QED
  BY <1>1, <1>2, <1>3
  DEF Next, ChangeStep, Begin, Forget, Write, Update, Evict, Clear, vars

LEMMA NextTyped == Aimed /\ Typed /\ [Next]_vars => Typed'
<1> SUFFICES ASSUME Aimed, Typed, [Next]_vars PROVE Typed'
  OBVIOUS
<1> USE DEF Typed
<1>a. /\ gen \in Nat /\ MaxGen \in Nat
      /\ \A h \in Handler : request[h] \in Request
      /\ \A j \in Job : job[j] \in JobState
  BY BoundAssumption DEF TypeOK
<1>b. /\ Changing' \subseteq Changing /\ Renaming' \subseteq Renaming /\ gen' = gen
         => Bounded'
  BY <1>a, FiniteHandlers, NoMore DEF Bounded, Pending
<1>1. ASSUME NEW h \in Handler, NEW kind \in Kinds, NEW F \in SUBSET File,
             Begin(h, kind, F)
      PROVE  Typed'
  <2>1. request' \in [Handler -> Request]
    BY <1>1, QuietIsRequest DEF Begin, Quiet, Request, TypeOK
  <2>2. TypeOK'
    BY <1>1, <2>1 DEF Begin, TypeOK, view, mutexes, published
  <2>3. Changing' \subseteq Changing \cup {h}
    BY <1>1 DEF Begin, Changing, TypeOK
  <2>4. Bounded'
    <3>1. CASE kind = "rename"
      <4>1. Renaming' \subseteq Renaming \cup {h}
        BY <1>1 DEF Begin, Renaming, TypeOK
      <4>2. gen' = gen /\ gen + Pending + 2 <= MaxGen
        BY <1>1, <3>1 DEF Begin, view
      <4>3. QED
        BY <1>a, <2>3, <4>1, <4>2, FiniteHandlers, OneMore DEF Bounded, Pending
    <3>2. CASE kind # "rename"
      <4>1. Renaming' \subseteq Renaming
        BY <1>1, <3>2 DEF Begin, Renaming, TypeOK, Quiet
      <4>2. gen' = gen /\ gen + Pending + 1 <= MaxGen
        BY <1>1, <3>2 DEF Begin, view
      <4>3. QED
        BY <1>a, <2>3, <4>1, <4>2, FiniteHandlers, OneMore, NoMore DEF Bounded, Pending
    <3>3. QED
      BY <3>1, <3>2
  <2>5. QED
    BY <2>2, <2>4
<1>2. ASSUME NEW h \in Handler, Forget(h) PROVE Typed'
  <2>1. request' \in [Handler -> Request]
    BY <1>2, <1>a, ZenonT(30) DEF Forget, Request, TypeOK
  <2>2. TypeOK'
    BY <1>2, <2>1 DEF Forget, TypeOK, files, view, mutexes
  <2>3. Changing' \subseteq Changing /\ Renaming' \subseteq Renaming
    BY <1>2, <1>a DEF Forget, Changing, Renaming, TypeOK, Request
  <2>4. QED
    BY <1>2, <1>b, <2>2, <2>3 DEF Forget, view
<1>3. ASSUME NEW h \in Handler, Write(h) PROVE Typed'
  <2>1. request' \in [Handler -> Request]
    BY <1>3, <1>a, ZenonT(30) DEF Write, Request, TypeOK
  <2>2. text' \in [File -> Nat] /\ readable' \subseteq File
    BY <1>3, <1>a DEF Write, TypeOK, Request
  <2>3. TypeOK'
    BY <1>3, <2>1, <2>2 DEF Write, TypeOK, view, published
  <2>4. Changing' \subseteq Changing /\ Renaming' \subseteq Renaming
    BY <1>3, <1>a DEF Write, Changing, Renaming, TypeOK, Request
  <2>5. QED
    BY <1>3, <1>b, <2>3, <2>4 DEF Write, view
<1>4. ASSUME NEW h \in Handler, Update(h) \/ Evict(h) PROVE Typed'
  <2>1. h \in Changing /\ gen' = gen + 1
    BY <1>4 DEF Update, Evict, Changing, Invalidate
  <2>2. Changing' \subseteq Changing \ {h} /\ Renaming' \subseteq Renaming
    <3>1. CASE Update(h)
      BY <3>1, <1>a DEF Update, Changing, Renaming, TypeOK, Request
    <3>2. CASE Evict(h)
      BY <3>2, <1>a DEF Evict, Changing, Renaming, TypeOK, Request
    <3>3. QED
      BY <1>4, <3>1, <3>2
  <2>3. Bounded'
    BY <1>a, <2>1, <2>2, FiniteHandlers, OneLess, NoMore DEF Bounded, Pending
  <2>4. gen' \in 0..MaxGen
    <3>1. IsFiniteSet(Changing') /\ IsFiniteSet(Renaming')
      BY <2>2, FiniteHandlers, FS_Subset
    <3>2. Cardinality(Changing') \in Nat /\ Cardinality(Renaming') \in Nat
      BY <3>1, FS_CardinalityType
    <3>3. QED
      BY <1>a, <2>1, <2>3, <3>2 DEF Bounded, Pending
  <2>5. request' \in [Handler -> Request]
    <3>1. CASE Update(h)
      <4>1. request' = [request EXCEPT ![h] =
              [request[h] EXCEPT !.step = "post", !.gen = gen']]
        BY <2>1, <3>1 DEF Update
      <4>2. [request[h] EXCEPT !.step = "post", !.gen = gen'] \in Request
        BY <1>a, <2>4 DEF Request
      <4>3. QED
        BY <4>1, <4>2 DEF TypeOK
    <3>2. CASE Evict(h)
      BY <3>2, <1>a DEF Evict, TypeOK, Request
    <3>3. QED
      BY <1>4, <3>1, <3>2
  <2>6. TypeOK'
    BY <1>4, <1>a, <2>4, <2>5
    DEF Update, Evict, Invalidate, TypeOK, files, mutexes, published, Request
  <2>7. QED
    BY <2>3, <2>6
<1>5. ASSUME NEW h \in Handler, Post(h) PROVE Typed'
  <2> DEFINE r == request[h]
             refreshed == (UNION {Includers[f] : f \in r.files}) \cap tracked \cap readable
             affected == r.files \cup Dependents(r.files)
  <2>1. r \in Request /\ refreshed \in SUBSET File /\ affected \in SUBSET File
    <3>1. r \in Request /\ r.files \in SUBSET File
      BY <1>a DEF Request
    <3>2. Dependents(r.files) \subseteq tracked /\ tracked \subseteq File
      BY ReachingTracked DEF TypeOK, Dependents
    <3>3. refreshed \subseteq tracked
      OBVIOUS
    <3>4. refreshed \in SUBSET File
      <4> HIDE DEF refreshed
      <4> QED
        BY <3>2, <3>3
    <3>5. affected \in SUBSET File
      BY <3>1, <3>2
    <3>6. QED
      BY <3>1, <3>4, <3>5
  <2>2. [NoJob EXCEPT !.step = "started", !.affected = affected] \in JobState
    <3> HIDE DEF affected
    <3> QED
      BY <2>1, NoJobIsJobState DEF NoJob, JobState
  <2>3. job' \in [Job -> JobState]
    BY <1>5, <2>2 DEF Post, TypeOK
  <2>4. [r EXCEPT !.step = "change", !.kind = "refresh", !.files = refreshed] \in Request
    <3> HIDE DEF r, refreshed
    <3> QED
      BY <2>1 DEF Request
  <2>5. request' \in [Handler -> Request]
    BY <1>5, <2>4, QuietIsRequest DEF Post, TypeOK
  <2>6. TypeOK'
    BY <1>5, <2>3, <2>5 DEF Post, TypeOK, files, view, published
  <2>7. gen' = gen /\ r.step = "post"
    BY <1>5 DEF Post, view
  <2>8. CASE r.kind = "rename" /\ refreshed # {}
    <3>1. request' = [request EXCEPT ![h] =
            [r EXCEPT !.step = "change", !.kind = "refresh", !.files = refreshed]]
      BY <1>5, <2>8 DEF Post
    <3>2. h \in Renaming /\ Renaming' \subseteq Renaming \ {h}
      BY <2>1, <2>8, <3>1 DEF Renaming, TypeOK, Request
    <3>3. Changing' \subseteq Changing \cup {h}
      BY <2>1, <3>1 DEF Changing, TypeOK, Request
    <3>4. Bounded'
      BY <1>a, <2>7, <3>2, <3>3, FiniteHandlers, OneLess, OneMore DEF Bounded, Pending
    <3>5. QED
      BY <2>6, <3>4
  <2>9. CASE ~(r.kind = "rename" /\ refreshed # {})
    <3>1. request' = [request EXCEPT ![h] = Quiet]
      BY <1>5, <2>9 DEF Post
    <3>2. Changing' \subseteq Changing /\ Renaming' \subseteq Renaming
      BY <3>1 DEF Changing, Renaming, TypeOK, Quiet
    <3>3. QED
      BY <1>b, <2>6, <2>7, <3>2
  <2>10. QED
    BY <2>8, <2>9
<1>6. ASSUME NEW h \in Handler, Clear(h) PROVE Typed'
  <2>1. request' \in [Handler -> Request]
    BY <1>6, QuietIsRequest DEF Clear, TypeOK
  <2>2. unsent' \subseteq File /\ shown' \in [File -> Finding \cup {None}]
    <3>1. PICK lost \in SUBSET request[h].files :
            /\ unsent' = (unsent \ request[h].files) \cup lost
            /\ shown' = [f \in File |-> IF f \in request[h].files \ lost THEN None ELSE shown[f]]
      BY <1>6 DEF Clear, Notify
    <3>2. request[h].files \subseteq File
      BY <1>a DEF Request
    <3>3. QED
      BY <3>1, <3>2 DEF TypeOK
  <2>3. TypeOK'
    BY <1>6, <1>a, <2>1, <2>2 DEF Clear, TypeOK, files, view, Request
  <2>4. Changing' \subseteq Changing /\ Renaming' \subseteq Renaming
    BY <1>6 DEF Clear, Changing, Renaming, TypeOK, Quiet
  <2>5. QED
    BY <1>6, <1>b, <2>3, <2>4 DEF Clear, view
\* An analysis leaves the handlers and the generation alone.
<1>7. ASSUME NEW j \in Job, AnalysisStep(j) PROVE Typed'
  <2>1. UNCHANGED <<request, gen>>
    BY <1>7 DEF AnalysisStep, Start, Acquire, RunAnalyzers, Panic, Report, Prepare,
                Publish, Finish, view
  <2>2. Bounded'
    BY <2>1 DEF Bounded, Pending, Changing, Renaming
  <2>3. CASE Start(j)
    <3>1. job' \in [Job -> JobState]
      BY <2>3, StepChanged DEF Start, JobStep
    <3>2. QED
      BY <2>2, <2>3, <3>1 DEF Start, TypeOK, files, view, mutexes, published
  <2>4. CASE Acquire(j)
    <3>1. job' \in [Job -> JobState]
      BY <2>4, StepChanged DEF Acquire, JobStep
    <3>2. QED
      BY <2>2, <2>4, <3>1 DEF Acquire, TypeOK, files, view, published
  <2>5. CASE RunAnalyzers(j)
    <3>1. PICK seen \in [job[j].affected -> UNION {floor[f]..text[f] : f \in job[j].affected}] :
            job' = [job EXCEPT ![j].step = "reporting",
                       ![j].seen = [f \in File |-> IF f \in job[j].affected THEN seen[f] ELSE 0]]
      BY <2>5 DEF RunAnalyzers
    <3>2. \A f \in job[j].affected : seen[f] \in Nat
      BY <1>a DEF TypeOK, JobState
    <3> DEFINE known == [f \in File |-> IF f \in job[j].affected THEN seen[f] ELSE 0]
    <3>3. job' \in [Job -> JobState]
      <4>1. known \in [File -> Nat]
        BY <3>2
      <4>2. job' = [job EXCEPT ![j] = [job[j] EXCEPT !.step = "reporting", !.seen = known]]
        BY <1>a, <3>1 DEF TypeOK
      <4> HIDE DEF known
      <4>3. [job[j] EXCEPT !.step = "reporting", !.seen = known] \in JobState
        BY <1>a, <4>1 DEF JobState
      <4>4. QED
        BY <4>2, <4>3 DEF TypeOK
    <3>4. tracked' \subseteq File
      <4>1. job[j].affected \subseteq File /\ tracked \subseteq File
        BY <1>a DEF TypeOK, JobState
      <4>2. QED
        BY <2>5, <4>1 DEF RunAnalyzers
    <3>5. QED
      BY <2>2, <2>5, <3>3, <3>4 DEF RunAnalyzers, TypeOK, files, mutexes, published
  <2>6. CASE Panic(j)
    <3>1. job' \in [Job -> JobState]
      BY <2>6, StepChanged DEF Panic, JobStep
    <3>2. QED
      BY <2>2, <2>6, <3>1 DEF Panic, TypeOK, files, view, published
  <2>7. CASE Report(j)
    <3>1. \A f \in job[j].affected : FindingOf(j, f) \in Finding
      BY <1>a DEF FindingOf, Finding, JobState
    <3>2. ASSUME NEW parsed
          PROVE  ReportsAfter(j, parsed) \in [File -> Finding \cup {None}]
      <4>1. \A f \in File : reports[f] \in Finding \cup {None}
        BY DEF TypeOK
      <4>2. QED
        BY <3>1, <4>1 DEF ReportsAfter
    <3>3. job' \in [Job -> JobState]
      <4>1. job[j].affected \in SUBSET File
        BY <1>a DEF JobState
      <4>2. QED
        <5>1. job' = [job EXCEPT ![j].step = "publishing", ![j].todo = job[j].affected]
              \/ job' = [job EXCEPT ![j].step = "dropped"]
          BY <2>7 DEF Report
        <5>2. "publishing" \in JobStep /\ "dropped" \in JobStep
          BY DEF JobStep
        <5>3. [job EXCEPT ![j].step = "publishing", ![j].todo = job[j].affected]
                \in [Job -> JobState]
          BY <4>1, <5>2, TodoChanged
        <5>4. [job EXCEPT ![j].step = "dropped"] \in [Job -> JobState]
          BY <5>2, StepChanged
        <5>5. QED
          BY <5>1, <5>3, <5>4
    <3>4. reports' \in [File -> Finding \cup {None}]
      <4>1. CASE IsCurrent(j)
        BY <2>7, <3>2, <4>1 DEF Report
      <4>2. CASE ~IsCurrent(j)
        BY <2>7, <4>2 DEF Report, TypeOK
      <4>3. QED
        BY <4>1, <4>2
    <3>5. /\ analysisMu' \in Job \cup {Free} /\ reportMu' \in Job \cup {Free}
          /\ UNCHANGED <<text, readable, gen, floor, tracked, request, workspaceMu,
                         shown, unsent, cleared>>
      BY <2>7 DEF Report, TypeOK, files, view
    <3>6. QED
      BY <2>2, <3>3, <3>4, <3>5 DEF TypeOK
  <2>8. ASSUME NEW f \in File, Prepare(j, f) PROVE Typed'
    <3>1. job[j].todo \in SUBSET File
      BY <1>a DEF JobState
    <3>2. job' \in [Job -> JobState]
      <4>1. job' = [job EXCEPT ![j].step = "sending", ![j].file = f]
            \/ job' = [job EXCEPT ![j].todo = job[j].todo \ {f}]
        BY <1>a, <2>8 DEF Prepare, TypeOK
      <4>2. "sending" \in JobStep /\ job[j].todo \ {f} \in SUBSET File
        BY <3>1 DEF JobStep
      <4>3. /\ [job EXCEPT ![j].step = "sending", ![j].file = f] \in [Job -> JobState]
            /\ [job EXCEPT ![j].todo = job[j].todo \ {f}] \in [Job -> JobState]
        BY <4>2, TodoChanged
      <4>4. QED
        BY <4>1, <4>3
    <3>3. QED
      BY <2>2, <2>8, <3>2 DEF Prepare, TypeOK, files, view, mutexes, published
  <2>9. CASE Publish(j)
    <3>1. job[j].file \in File => FindingOf(j, job[j].file) \in Finding
      BY <1>a DEF FindingOf, Finding, JobState
    <3>2. shown' \in [File -> Finding \cup {None}] /\ unsent' \subseteq File
      <4>1. job[j].file \in File \cup {NoFile} /\ shown \in [File -> Finding \cup {None}]
        BY <1>a DEF JobState, TypeOK
      <4>2. unsent' \subseteq unsent \cup {job[j].file}
        BY <2>9 DEF Publish, Notify
      <4>3. job[j].step = "sending" => job[j].file \in File
        BY DEF Aimed
      <4>4. QED
        BY <2>9, <3>1, <4>1, <4>2, <4>3 DEF Publish, TypeOK
    <3>3. job' \in [Job -> JobState]
      <4>1. job[j].todo \in SUBSET File
        BY <1>a DEF JobState
      <4>2. QED
        <5> DEFINE left == job[j].todo \ {job[j].file}
        <5>1. job' = [job EXCEPT ![j].step = "publishing", ![j].todo = left,
                                 ![j].file = NoFile]
          BY <1>a, <2>9 DEF Publish, TypeOK
        <5>2. "publishing" \in JobStep /\ left \in SUBSET File
          BY <4>1 DEF JobStep
        <5> HIDE DEF left
        <5>3. QED
          BY <5>1, <5>2, TodoChanged
    <3>4. UNCHANGED <<text, readable, gen, floor, tracked, request, workspaceMu,
                      analysisMu, reportMu, reports, cleared>>
      BY <2>9 DEF Publish, files, view, mutexes
    <3>5. QED
      BY <2>2, <3>2, <3>3, <3>4 DEF TypeOK
  <2>10. CASE Finish(j)
    <3>1. job' \in [Job -> JobState]
      <4>1. "done" \in JobStep /\ "dropped" \in JobStep
        BY DEF JobStep
      <4>2. /\ [job EXCEPT ![j].step = "done"] \in [Job -> JobState]
            /\ [job EXCEPT ![j].step = "dropped"] \in [Job -> JobState]
        BY <4>1, StepChanged
      <4>3. QED
        BY <2>10, <4>2 DEF Finish
    <3>2. QED
      BY <2>2, <2>10, <3>1 DEF Finish, TypeOK, files, view, published
  <2>11. QED
    BY <1>7, <2>3, <2>4, <2>5, <2>6, <2>7, <2>8, <2>9, <2>10 DEF AnalysisStep
<1>8. CASE UNCHANGED vars
  BY <1>8
  DEF vars, files, view, mutexes, published, TypeOK, Bounded, Pending, Changing, Renaming
<1>9. QED
  BY <1>1, <1>2, <1>3, <1>4, <1>5, <1>6, <1>7, <1>8 DEF Next, ChangeStep

LEMMA InitTyped == Init => Typed /\ Aimed
<1> SUFFICES ASSUME Init PROVE Typed /\ Aimed
  OBVIOUS
<1>1. TypeOK
  BY QuietIsRequest, NoJobIsJobState, BoundAssumption DEF Init, TypeOK
<1>2. Changing = {} /\ Renaming = {}
  BY DEF Init, Changing, Renaming, Quiet
<1>3. Bounded
  BY <1>2, FS_EmptySet, BoundAssumption DEF Init, Bounded, Pending
<1>4. Aimed
  BY DEF Init, Aimed, NoJob
<1>5. QED
  BY <1>1, <1>3, <1>4 DEF Typed

(***************************************************************************)
(* Every variable keeps its type, and no update lacks a generation.        *)
(***************************************************************************)
THEOREM DiagnosticsTypeOK == Spec => []TypeOK
<1>1. Typed => TypeOK
  BY DEF Typed
<1>2. Typed /\ Aimed /\ [Next]_vars => (Typed /\ Aimed)'
  BY <1>1, NextTyped, NextAimed
<1>3. QED
  BY <1>1, <1>2, InitTyped, PTL DEF Spec

-----------------------------------------------------------------------------
(***************************************************************************)
(* The strengthening.  A generation is analysed once it was posted, and    *)
(* each is posted once.                                                    *)
(***************************************************************************)
Posting(h) == request[h].step = "post"

Unposted ==
  /\ \A j \in Job : j > gen => job[j] = NoJob
  /\ \A h \in Handler : Posting(h) =>
       /\ request[h].gen \in Job
       /\ request[h].gen <= gen
       /\ job[request[h].gen] = NoJob
  /\ \A h, i \in Handler :
       (Posting(h) /\ Posting(i) /\ request[h].gen = request[i].gen) => h = i

\* What the latest generation affects is tracked.
LatestTracked ==
  /\ \A j \in Job : IsCurrent(j) => job[j].affected \subseteq tracked
  /\ \A h \in Handler :
       Posting(h) /\ IsCurrent(request[h].gen) => request[h].files \subseteq tracked

\* An analysis that publishes holds reportMu, and the files it is about are
\* tracked or wait to be cleared.
Publishing(j) == job[j].step \in {"publishing", "sending"}

Clearing(f) == \E h \in Handler : request[h].step = "clear" /\ f \in request[h].files

Holding ==
  \A j \in Job : Publishing(j) =>
    /\ reportMu = j
    /\ job[j].todo \subseteq job[j].affected
    /\ job[j].step = "sending" => job[j].file \in job[j].affected
    /\ \A f \in job[j].affected : f \in tracked \/ Clearing(f)

\* Nothing shown is later than the view or than the analysis that publishes.
NotAhead ==
  /\ \A f \in File : shown[f] # None => shown[f].job <= gen
  /\ \A j \in Job, f \in File : (Publishing(j) /\ shown[f] # None) => shown[f].job <= j

\* The reports of an analysis that publishes are its own.
ReportsHeld ==
  \A j \in Job : Publishing(j) =>
    \A f \in job[j].affected : reports[f] = None \/ reports[f].job = j

LEMMA Naturals ==
  ASSUME Typed
  PROVE  /\ gen \in Nat
         /\ \A j \in Job : j \in Nat
         /\ \A h \in Handler : request[h].gen \in Nat /\ request[h].files \in SUBSET File
         /\ \A f \in File : shown[f] # None => shown[f].job \in Nat
         /\ \A f \in File : reports[f] # None => reports[f].job \in Nat
  BY BoundAssumption DEF Typed, TypeOK, Request, Finding

(***************************************************************************)
(* Unposted.  Only Update makes a generation, only Post an analysis.       *)
(***************************************************************************)
\* An analysis moves only once it was posted, and moves alone.
LEMMA AnalysisIsPosted ==
  ASSUME Typed, NEW j \in Job, AnalysisStep(j)
  PROVE  /\ job[j].step # "none"
         /\ job' = [job EXCEPT ![j] = job'[j]]
         /\ job'[j].affected = job[j].affected
         /\ UNCHANGED <<request, gen>>
<1>1. job \in [Job -> JobState] /\ job[j] \in JobState
  BY DEF Typed, TypeOK
<1>2. CASE Start(j)
  BY <1>1, <1>2 DEF Start, JobState, view
<1>3. CASE Acquire(j)
  BY <1>1, <1>3 DEF Acquire, JobState, view
<1>4. CASE RunAnalyzers(j)
  <2>1. PICK known : job' = [job EXCEPT ![j].step = "reporting", ![j].seen = known]
    BY <1>4 DEF RunAnalyzers
  <2>2. job[j].step # "none" /\ UNCHANGED <<request, gen>>
    BY <1>4 DEF RunAnalyzers
  <2>3. job' = [job EXCEPT ![j] = [job[j] EXCEPT !.step = "reporting", !.seen = known]]
    BY <1>1, <2>1
  <2>4. [job[j] EXCEPT !.step = "reporting", !.seen = known].affected = job[j].affected
    BY <1>1 DEF JobState
  <2>5. QED
    BY <1>1, <2>2, <2>3, <2>4
<1>5. CASE Panic(j)
  BY <1>1, <1>5 DEF Panic, JobState, view
<1>6. CASE Report(j)
  <2>1. job[j].step = "reporting" /\ UNCHANGED <<request, gen>>
    BY <1>6 DEF Report, view
  <2>2. CASE IsCurrent(j)
    <3>1. job' = [job EXCEPT ![j].step = "publishing", ![j].todo = job[j].affected]
      BY <1>6, <2>2 DEF Report
    <3>2. job' = [job EXCEPT ![j] = job'[j]] /\ job'[j].affected = job[j].affected
      BY <1>1, <3>1 DEF JobState
    <3>3. QED
      BY <2>1, <3>2
  <2>3. CASE ~IsCurrent(j)
    <3>1. job' = [job EXCEPT ![j].step = "dropped"]
      BY <1>6, <2>3 DEF Report
    <3>2. job' = [job EXCEPT ![j] = job'[j]] /\ job'[j].affected = job[j].affected
      BY <1>1, <3>1 DEF JobState
    <3>3. QED
      BY <2>1, <3>2
  <2>4. QED
    BY <2>2, <2>3
<1>7. CASE \E f \in File : Prepare(j, f)
  <2>1. job[j].step = "publishing" /\ UNCHANGED <<request, gen>>
    BY <1>7 DEF Prepare, view
  <2>2. PICK f \in File : Prepare(j, f)
    BY <1>7
  <2>3. CASE job' = [job EXCEPT ![j].step = "sending", ![j].file = f]
    BY <1>1, <2>1, <2>3 DEF JobState
  <2>4. CASE job' = [job EXCEPT ![j].todo = @ \ {f}]
    BY <1>1, <2>1, <2>4 DEF JobState
  <2>5. QED
    BY <2>2, <2>3, <2>4 DEF Prepare
<1>8. CASE Publish(j)
  <2>1. PICK todo : job' = [job EXCEPT ![j].step = "publishing", ![j].todo = todo,
                                    ![j].file = NoFile]
    BY <1>8 DEF Publish
  <2>2. job[j].step = "sending" /\ UNCHANGED <<request, gen>>
    BY <1>8 DEF Publish, view
  <2>3. job' = [job EXCEPT ![j] = job'[j]] /\ job'[j].affected = job[j].affected
    BY <1>1, <2>1 DEF JobState
  <2>4. QED
    BY <2>2, <2>3
<1>9. CASE Finish(j)
  <2>1. \E step : job' = [job EXCEPT ![j].step = step]
    BY <1>9 DEF Finish
  <2>2. job[j].step = "publishing" /\ UNCHANGED <<request, gen>>
    BY <1>9 DEF Finish, view
  <2>3. QED
    BY <1>1, <2>1, <2>2 DEF JobState
<1>10. QED
  BY <1>2, <1>3, <1>4, <1>5, <1>6, <1>7, <1>8, <1>9 DEF AnalysisStep

LEMMA NextUnposted ==
  ASSUME Aimed, Typed, Unposted, [Next]_vars
  PROVE  Unposted'
<1>a. /\ gen \in Nat /\ request \in [Handler -> Request] /\ job \in [Job -> JobState]
      /\ \A j \in Job : j \in Nat
      /\ \A h \in Handler : request[h].gen \in Nat
  BY Naturals DEF Typed, TypeOK
<1>1. ASSUME NEW h \in Handler, NEW kind \in Kinds, NEW F \in SUBSET File,
             Begin(h, kind, F)
      PROVE  Unposted'
  BY <1>1, <1>a DEF Begin, Unposted, Posting, Quiet, view
<1>2. ASSUME NEW h \in Handler, Forget(h) \/ Write(h) \/ Clear(h) PROVE Unposted'
  <2>1. /\ UNCHANGED <<gen, job>>
        /\ request'[h].step # "post"
        /\ \A i \in Handler \ {h} : request'[i] = request[i]
    BY <1>2, <1>a DEF Forget, Write, Clear, view, Quiet, Request
  <2>2. QED
    BY <2>1 DEF Unposted, Posting
<1>3. ASSUME NEW h \in Handler, Update(h) PROVE Unposted'
  <2>1. /\ gen' = gen + 1 /\ job' = job
        /\ request'[h].gen = gen + 1
        /\ \A i \in Handler \ {h} : request'[i] = request[i]
    BY <1>3, <1>a DEF Update, Invalidate, Request
  <2>2. gen + 1 \in Job
    <3>1. gen' \in 0..MaxGen
      <4>1. Typed'
        BY <1>3, NextTyped DEF Next, ChangeStep
      <4>2. QED
        BY <4>1 DEF Typed, TypeOK
    <3>2. QED
      BY <1>a, <2>1, <3>1, BoundAssumption
  <2>3. job[gen + 1] = NoJob
    BY <1>a, <2>2 DEF Unposted
  <2>4. \A i \in Handler \ {h} : Posting(i) => request[i].gen # gen + 1
    BY <1>a DEF Unposted
  <2>5. QED
    BY <1>a, <2>1, <2>2, <2>3, <2>4 DEF Unposted, Posting
<1>4. ASSUME NEW h \in Handler, Evict(h) PROVE Unposted'
  <2>1. /\ gen' = gen + 1 /\ job' = job
        /\ request'[h].step = "clear"
        /\ \A i \in Handler \ {h} : request'[i] = request[i]
    BY <1>4, <1>a DEF Evict, Invalidate, Request
  <2>2. QED
    BY <1>a, <2>1 DEF Unposted, Posting
<1>5. ASSUME NEW h \in Handler, Post(h) PROVE Unposted'
  <2>1. /\ gen' = gen
        /\ Posting(h)
        /\ \A j \in Job \ {request[h].gen} : job'[j] = job[j]
        /\ \A i \in Handler \ {h} : request'[i] = request[i]
        /\ request'[h].step # "post"
    BY <1>5, <1>a DEF Post, Posting, view, Quiet, Request
  <2>2. QED
    BY <1>a, <2>1 DEF Unposted, Posting
<1>6. ASSUME NEW j \in Job, AnalysisStep(j) PROVE Unposted'
  <2>1. job[j] # NoJob
    BY <1>6, AnalysisIsPosted DEF NoJob
  <2>2. /\ UNCHANGED <<request, gen>>
        /\ \A i \in Job \ {j} : job'[i] = job[i]
    <3>1. job' = [job EXCEPT ![j] = job'[j]] /\ UNCHANGED <<request, gen>>
      BY <1>6, AnalysisIsPosted
    <3>2. QED
      BY <1>a, <3>1
  <2>3. QED
    BY <2>1, <2>2 DEF Unposted, Posting
<1>7. CASE UNCHANGED vars
  BY <1>7 DEF vars, view, Unposted, Posting
<1>8. QED
  BY <1>1, <1>2, <1>3, <1>4, <1>5, <1>6, <1>7 DEF Next, ChangeStep

(***************************************************************************)
(* LatestTracked.  Only an eviction forgets files, and it makes a          *)
(* generation that affects nothing.                                        *)
(***************************************************************************)
LEMMA NextLatestTracked ==
  ASSUME Typed, Unposted, LatestTracked, [Next]_vars
  PROVE  LatestTracked'
<1>a. /\ gen \in Nat /\ request \in [Handler -> Request] /\ job \in [Job -> JobState]
      /\ \A j \in Job : j \in Nat
      /\ \A h \in Handler : request[h].gen \in Nat
  BY Naturals DEF Typed, TypeOK
<1>1. ASSUME NEW h \in Handler, NEW kind \in Kinds, NEW F \in SUBSET File,
             Begin(h, kind, F)
      PROVE  LatestTracked'
  BY <1>1, <1>a DEF Begin, LatestTracked, Posting, IsCurrent, Quiet, view
<1>2. ASSUME NEW h \in Handler, Forget(h) \/ Write(h) \/ Clear(h) PROVE LatestTracked'
  <2>1. /\ UNCHANGED <<gen, tracked, job>>
        /\ request'[h].step # "post"
        /\ \A i \in Handler \ {h} : request'[i] = request[i]
    BY <1>2, <1>a DEF Forget, Write, Clear, view, Quiet, Request
  <2>2. QED
    BY <2>1 DEF LatestTracked, Posting, IsCurrent
<1>3. ASSUME NEW h \in Handler, Update(h) \/ Evict(h) PROVE LatestTracked'
  <2>1. /\ gen' = gen + 1 /\ job' = job
        /\ request'[h].step = "post" =>
             request'[h].files = request[h].files /\ request[h].files \subseteq tracked'
        /\ \A i \in Handler \ {h} : request'[i] = request[i]
    <3>1. CASE Update(h)
      BY <3>1, <1>a DEF Update, Invalidate, Request
    <3>2. CASE Evict(h)
      BY <3>2, <1>a DEF Evict, Invalidate, Request
    <3>3. QED
      BY <1>3, <3>1, <3>2
  <2>2. \A j \in Job : IsCurrent(j)' => job'[j].affected = {}
    BY <1>a, <2>1 DEF Unposted, IsCurrent, NoJob
  <2>3. \A i \in Handler \ {h} : Posting(i) => request[i].gen # gen + 1
    BY <1>a DEF Unposted
  <2>4. QED
    BY <2>1, <2>2, <2>3 DEF LatestTracked, Posting, IsCurrent
<1>4. ASSUME NEW h \in Handler, Post(h) PROVE LatestTracked'
  <2>1. /\ UNCHANGED <<gen, tracked>>
        /\ Posting(h)
        /\ request'[h].step # "post"
        /\ \A i \in Handler \ {h} : request'[i] = request[i]
    BY <1>4, <1>a DEF Post, Posting, view, Quiet, Request
  <2>2. /\ \A j \in Job \ {request[h].gen} : job'[j] = job[j]
        /\ request[h].gen \in Job =>
             job'[request[h].gen].affected = request[h].files \cup Dependents(request[h].files)
    BY <1>4, <1>a DEF Post, NoJob
  <2>3. Dependents(request[h].files) \subseteq tracked
    BY ReachingTracked DEF Dependents
  <2>4. QED
    BY <2>1, <2>2, <2>3 DEF LatestTracked, Posting, IsCurrent
<1>5. ASSUME NEW j \in Job, AnalysisStep(j) PROVE LatestTracked'
  <2>1. UNCHANGED <<request, gen>> /\ \A i \in Job : job'[i].affected = job[i].affected
    <3>1. job' = [job EXCEPT ![j] = job'[j]] /\ UNCHANGED <<request, gen>>
          /\ job'[j].affected = job[j].affected
      BY <1>5, AnalysisIsPosted
    <3>2. QED
      BY <1>a, <3>1
  <2>2. tracked \subseteq tracked'
    BY <1>5 DEF AnalysisStep, Start, Acquire, RunAnalyzers, Panic, Report, Prepare,
                Publish, Finish, view
  <2>3. QED
    BY <2>1, <2>2 DEF LatestTracked, Posting, IsCurrent
<1>6. CASE UNCHANGED vars
  BY <1>6 DEF vars, view, LatestTracked, Posting, IsCurrent
<1>7. QED
  BY <1>1, <1>2, <1>3, <1>4, <1>5, <1>6 DEF Next, ChangeStep

(***************************************************************************)
(* The publishing analysis.  What may change of it in each step.           *)
(***************************************************************************)
\* A change neither publishes nor stops a publishing analysis: the analysis
\* of a posted generation is new.
LEMMA ChangesDontPublish ==
  ASSUME Typed, Unposted, NEW h \in Handler,
         ChangeStep(h) \/ \E kind \in Kinds, F \in SUBSET File : Begin(h, kind, F)
  PROVE  /\ UNCHANGED reportMu
         /\ \A j \in Job : Publishing(j)' => Publishing(j) /\ job'[j] = job[j]
<1>1. job \in [Job -> JobState]
  BY DEF Typed, TypeOK
<1>2. CASE Post(h)
  <2>1. job' = [job EXCEPT ![request[h].gen] = job'[request[h].gen]]
        /\ (request[h].gen \in Job => job'[request[h].gen].step = "started")
    BY <1>1, <1>2 DEF Post, NoJob
  <2>2. \A j \in Job \ {request[h].gen} : job'[j] = job[j]
    BY <1>1, <1>2 DEF Post
  <2>3. UNCHANGED reportMu
    BY <1>2 DEF Post
  <2>4. QED
    BY <2>1, <2>2, <2>3 DEF Publishing
<1>3. CASE ~Post(h)
  <2>1. UNCHANGED <<job, reportMu>>
    BY <1>3 DEF ChangeStep, Begin, Forget, Write, Update, Evict, Clear, mutexes
  <2>2. QED
    BY <2>1 DEF Publishing
<1>4. QED
  BY <1>2, <1>3

\* Only Clear ends that a file is about to be cleared.
LEMMA ClearingUntilClear ==
  ASSUME Typed, NEW h \in Handler,
         ChangeStep(h) \/ \E kind \in Kinds, F \in SUBSET File : Begin(h, kind, F),
         ~Clear(h), NEW f \in File, Clearing(f)
  PROVE  Clearing(f)'
<1>1. request \in [Handler -> Request]
  BY DEF Typed, TypeOK
<1>2. PICK i \in Handler : request[i].step = "clear" /\ f \in request[i].files
  BY DEF Clearing
<1>3. request[h].step # "clear"
  <2>1. CASE ChangeStep(h)
    BY <2>1 DEF ChangeStep, Forget, Write, Update, Post, Evict
  <2>2. CASE \E kind \in Kinds, F \in SUBSET File : Begin(h, kind, F)
    <3>1. request[h] = Quiet
      BY <2>2 DEF Begin
    <3>2. QED
      BY <3>1 DEF Quiet
  <2>3. QED
    BY <2>1, <2>2
<1>4. request'[i] = request[i]
  BY <1>1, <1>2, <1>3 DEF ChangeStep, Begin, Forget, Write, Update, Post, Evict
<1>5. QED
  BY <1>2, <1>4 DEF Clearing

LEMMA NextHolding ==
  ASSUME Typed, Unposted, LatestTracked, Holding, [Next]_vars
  PROVE  Holding'
<1>a. /\ request \in [Handler -> Request] /\ job \in [Job -> JobState]
      /\ \A j \in Job : job[j] \in JobState
      /\ Free \notin Job
  BY SentinelAssumption DEF Typed, TypeOK
<1>1. ASSUME NEW h \in Handler,
             ChangeStep(h) \/ \E kind \in Kinds, F \in SUBSET File : Begin(h, kind, F),
             NEW j \in Job, Publishing(j)'
      PROVE  /\ reportMu' = j
             /\ job'[j].todo \subseteq job'[j].affected
             /\ job'[j].step = "sending" => job'[j].file \in job'[j].affected
             /\ \A f \in job'[j].affected : f \in tracked' \/ Clearing(f)'
  <2>1. Publishing(j) /\ job'[j] = job[j] /\ reportMu' = reportMu
    BY <1>1, ChangesDontPublish
  <2>2. ASSUME NEW f \in job'[j].affected PROVE f \in tracked' \/ Clearing(f)'
    <3>1. f \in File /\ (f \in tracked \/ Clearing(f))
      BY <1>a, <2>1, SMTT(20) DEF Holding, JobState
    <3>2. ~Clear(h)
      BY <1>a, <2>1 DEF Clear, MayClear, Holding
    <3>3. CASE f \in tracked /\ f \notin tracked'
      <4>1. Evict(h) /\ f \in request[h].files
        BY <1>1, <3>2, <3>3
        DEF ChangeStep, Begin, Forget, Write, Update, Post, Evict, view
      <4>2. request'[h].step = "clear" /\ request'[h].files = request[h].files
        BY <1>a, <4>1 DEF Evict, Request
      <4>3. QED
        BY <4>1, <4>2 DEF Clearing
    <3>4. CASE Clearing(f)
      BY <1>1, <3>1, <3>2, <3>4, ClearingUntilClear
    <3>5. QED
      BY <3>1, <3>3, <3>4
  <2>3. QED
    BY <2>1, <2>2 DEF Holding
<1>2. ASSUME NEW j \in Job, AnalysisStep(j),
             NEW i \in Job, Publishing(i)'
      PROVE  /\ reportMu' = i
             /\ job'[i].todo \subseteq job'[i].affected
             /\ job'[i].step = "sending" => job'[i].file \in job'[i].affected
             /\ \A f \in job'[i].affected : f \in tracked' \/ Clearing(f)'
  <2>1. /\ job' = [job EXCEPT ![j] = job'[j]]
        /\ job'[j].affected = job[j].affected
        /\ request' = request
    BY <1>2, AnalysisIsPosted
  <2>2. \A f \in File : Clearing(f)' <=> Clearing(f)
    BY <2>1 DEF Clearing
  <2>3. tracked \subseteq tracked'
    BY <1>2 DEF AnalysisStep, Start, Acquire, RunAnalyzers, Panic, Report, Prepare,
                Publish, Finish, view
  <2>4. CASE i # j
    <3>1. job'[i] = job[i]
      BY <1>a, <2>1, <2>4
    <3>2. Publishing(i)
      BY <1>2, <3>1 DEF Publishing
    <3>3. reportMu = i
      BY <3>2 DEF Holding
    <3>4. reportMu' = reportMu
      <4>1. ~(Report(j) /\ reportMu' # reportMu)
        BY <1>a, <3>3 DEF Report
      <4>2. ~Finish(j)
        BY <2>4, <3>3 DEF Finish, Holding, Publishing
      <4>3. QED
        BY <1>2, <4>1, <4>2
        DEF AnalysisStep, Start, Acquire, RunAnalyzers, Panic, Prepare, Publish, mutexes
    <3>5. job[i].affected \subseteq File
      BY <1>a DEF JobState
    <3>6. QED
      BY <2>2, <2>3, <3>1, <3>2, <3>4, <3>5 DEF Holding
  <2>5. CASE i = j
    <3>1. job[j].affected \subseteq File
      BY <1>a DEF JobState
    <3>2. CASE Report(j)
      <4>1. IsCurrent(j)
        <5> SUFFICES ASSUME ~IsCurrent(j) PROVE FALSE
          OBVIOUS
        <5>1. job' = [job EXCEPT ![j].step = "dropped"]
          BY <3>2 DEF Report
        <5>2. job'[j].step = "dropped"
          BY <1>a, <5>1 DEF JobState
        <5>3. QED
          BY <1>2, <2>5, <5>2 DEF Publishing
      <4>2. reportMu' = j /\ job' = [job EXCEPT ![j].step = "publishing",
                                                ![j].todo = job[j].affected]
        BY <3>2, <4>1 DEF Report
      <4>3. job'[j].step = "publishing" /\ job'[j].todo = job[j].affected
        BY <1>a, <4>2 DEF JobState
      <4>4. job[j].affected \subseteq tracked
        BY <4>1 DEF LatestTracked
      <4>5. QED
        BY <2>1, <2>3, <2>5, <4>2, <4>3, <4>4
    <3>3. ASSUME NEW f \in File, Prepare(j, f)
          PROVE  /\ Publishing(j) /\ reportMu' = reportMu
                 /\ job'[j].todo \subseteq job[j].todo
                 /\ job'[j].step = "sending" => job'[j].file \in job[j].todo
      <4>1. job[j].step = "publishing" /\ f \in job[j].todo /\ reportMu' = reportMu
        BY <3>3 DEF Prepare, mutexes
      <4>2. CASE job' = [job EXCEPT ![j].step = "sending", ![j].file = f]
        BY <1>a, <4>1, <4>2 DEF JobState, Publishing
      <4>3. CASE job' = [job EXCEPT ![j].todo = @ \ {f}]
        BY <1>a, <4>1, <4>3 DEF JobState, Publishing
      <4>4. QED
        BY <3>3, <4>2, <4>3 DEF Prepare
    <3>4. CASE Publish(j)
      <4>1. Publishing(j) /\ reportMu' = reportMu
        BY <3>4 DEF Publish, Publishing, mutexes
      <4>2. PICK file \in {job[j].file} :
              job' = [job EXCEPT ![j].step = "publishing", ![j].todo = @ \ {file},
                                 ![j].file = NoFile]
        BY <3>4 DEF Publish
      <4>3. job'[j].step = "publishing" /\ job'[j].todo \subseteq job[j].todo
        BY <1>a, <4>2 DEF JobState
      <4>4. QED
        BY <2>1, <2>2, <2>3, <2>5, <3>1, <4>1, <4>3 DEF Holding
    <3>5. ~(Start(j) \/ Acquire(j) \/ RunAnalyzers(j) \/ Panic(j) \/ Finish(j))
      <4>1. ASSUME NEW step \in {"waiting", "dropped", "running", "panicked", "done"},
                   job' = [job EXCEPT ![j].step = step]
            PROVE  FALSE
        BY <1>2, <1>a, <2>5, <4>1 DEF Publishing, JobState
      <4>2. ASSUME NEW seen,
                   job' = [job EXCEPT ![j].step = "reporting", ![j].seen = seen]
            PROVE  FALSE
        BY <1>2, <1>a, <2>5, <4>2 DEF Publishing, JobState
      <4>3. QED
        BY <4>1, <4>2 DEF Start, Acquire, RunAnalyzers, Panic, Finish
    <3>6. QED
      BY <1>2, <2>1, <2>2, <2>3, <2>5, <3>1, <3>2, <3>3, <3>4, <3>5
      DEF AnalysisStep, Holding
  <2>6. QED
    BY <2>4, <2>5
<1>3. CASE UNCHANGED vars
  BY <1>3 DEF vars, view, mutexes, Holding, Publishing, Clearing
<1>4. QED
  BY <1>1, <1>2, <1>3 DEF Next, Holding

(***************************************************************************)
(* What changes of reports and shown: the handlers take findings back, and *)
(* an analysis reports what is its own when it starts to publish.          *)
(***************************************************************************)
LEMMA ChangesTakeBack ==
  ASSUME Typed, NEW h \in Handler,
         ChangeStep(h) \/ \E kind \in Kinds, F \in SUBSET File : Begin(h, kind, F)
  PROVE  /\ gen' \in Nat /\ gen <= gen'
         /\ \A f \in File : reports'[f] \in {None, reports[f]}
         /\ \A f \in File : shown'[f] \in {None, shown[f]}
<1>1. gen \in Nat /\ reports \in [File -> Finding \cup {None}]
      /\ shown \in [File -> Finding \cup {None}]
  BY Naturals DEF Typed, TypeOK
<1>2. gen' \in Nat /\ gen <= gen'
  <2>1. gen' \in {gen, gen + 1}
    BY DEF ChangeStep, Begin, Forget, Write, Update, Post, Evict, Clear, Invalidate, view
  <2>2. QED
    BY <1>1, <2>1
<1>3. \A f \in File : reports'[f] \in {None, reports[f]} /\ shown'[f] \in {None, shown[f]}
  <2>1. CASE Forget(h) \/ Clear(h)
    BY <1>1, <2>1 DEF Forget, Clear
  <2>2. CASE ~(Forget(h) \/ Clear(h))
    <3>1. UNCHANGED <<reports, shown>>
      BY <2>2 DEF ChangeStep, Begin, Write, Update, Post, Evict, published
    <3>2. QED
      BY <3>1
  <2>3. QED
    BY <2>1, <2>2
<1>4. QED
  BY <1>2, <1>3

LEMMA AnalysisFindings ==
  ASSUME Typed, NEW j \in Job, AnalysisStep(j)
  PROVE  \/ ~(Report(j) /\ IsCurrent(j)) /\ UNCHANGED <<reports, shown, unsent>>
         \/ /\ Report(j) /\ IsCurrent(j) /\ reportMu = Free /\ UNCHANGED <<shown, unsent>>
            /\ \A f \in File : IF f \in job[j].affected
                               THEN reports'[f] = None \/ reports'[f].job = j
                               ELSE reports'[f] = reports[f]
         \/ /\ Publish(j) /\ Publishing(j) /\ UNCHANGED reports
            /\ job[j].step = "sending"
            /\ \A f \in File : IF f = job[j].file
                               THEN \/ shown'[f] = shown[f]
                                    \/ shown'[f] # None => shown'[f].job = j
                               ELSE shown'[f] = shown[f] /\ (f \in unsent' <=> f \in unsent)
<1>1. reports \in [File -> Finding \cup {None}] /\ shown \in [File -> Finding \cup {None}]
  BY DEF Typed, TypeOK
<1>2. CASE Report(j)
  <2>1. CASE IsCurrent(j)
    <3>1. PICK parsed \in SUBSET MayParse : reports' = ReportsAfter(j, parsed)
      BY <1>2, <2>1 DEF Report
    <3>2. \A f \in File : IF f \in job[j].affected
                          THEN reports'[f] = None \/ reports'[f].job = j
                          ELSE reports'[f] = reports[f]
      BY <3>1 DEF ReportsAfter, FindingOf
    <3>3. QED
      BY <1>2, <2>1, <3>2 DEF Report
  <2>2. CASE ~IsCurrent(j)
    BY <1>2, <2>2 DEF Report
  <2>3. QED
    BY <2>1, <2>2
<1>3. CASE Publish(j)
  BY <1>1, <1>3 DEF Publish, Notify, Publishing, FindingOf
<1>4. CASE ~Report(j) /\ ~Publish(j)
  BY <1>4 DEF AnalysisStep, Start, Acquire, RunAnalyzers, Panic, Prepare, Finish, published
<1>5. QED
  BY <1>2, <1>3, <1>4

\* An analysis starts to publish when it reports.
LEMMA ReportStartsPublishing ==
  ASSUME Typed, NEW j \in Job, AnalysisStep(j), NEW i \in Job, Publishing(i)'
  PROVE  /\ job'[i].affected = job[i].affected
         /\ Publishing(i) \/ (i = j /\ Report(j) /\ IsCurrent(j))
<1>1. job \in [Job -> JobState] /\ job[j] \in JobState
  BY DEF Typed, TypeOK
<1>2. job' = [job EXCEPT ![j] = job'[j]] /\ job'[j].affected = job[j].affected
  BY AnalysisIsPosted
<1>3. job'[i].affected = job[i].affected /\ (i # j => job'[i] = job[i])
  BY <1>1, <1>2
<1>4. CASE i = j
  <2>1. ASSUME NEW step \in {"waiting", "dropped", "running", "panicked", "done"},
               job' = [job EXCEPT ![j].step = step]
        PROVE  FALSE
    BY <1>1, <1>4, <2>1 DEF Publishing, JobState
  <2>2. ASSUME NEW seen,
               job' = [job EXCEPT ![j].step = "reporting", ![j].seen = seen]
        PROVE  FALSE
    BY <1>1, <1>4, <2>2 DEF Publishing, JobState
  <2>3. ~(Start(j) \/ Acquire(j) \/ RunAnalyzers(j) \/ Panic(j) \/ Finish(j))
    BY <2>1, <2>2 DEF Start, Acquire, RunAnalyzers, Panic, Finish
  <2>4. Report(j) => IsCurrent(j)
    BY <2>1 DEF Report
  <2>5. Publish(j) \/ (\E f \in File : Prepare(j, f)) => Publishing(j)
    BY DEF Publish, Prepare, Publishing
  <2>6. QED
    BY <1>3, <1>4, <2>3, <2>4, <2>5 DEF AnalysisStep
<1>5. CASE i # j
  BY <1>3, <1>5 DEF Publishing
<1>6. QED
  BY <1>4, <1>5

LEMMA NextNotAhead ==
  ASSUME Typed, Unposted, Holding, NotAhead, [Next]_vars
  PROVE  NotAhead'
<1>a. /\ gen \in Nat
      /\ \A j \in Job : j \in Nat
      /\ \A f \in File : shown[f] # None => shown[f].job \in Nat
  BY Naturals
<1>1. ASSUME NEW h \in Handler,
             ChangeStep(h) \/ \E kind \in Kinds, F \in SUBSET File : Begin(h, kind, F)
      PROVE  NotAhead'
  <2>1. /\ gen' \in Nat /\ gen <= gen'
        /\ \A f \in File : shown'[f] \in {None, shown[f]}
    BY <1>1, ChangesTakeBack
  <2>2. \A j \in Job : Publishing(j)' => Publishing(j)
    BY <1>1, ChangesDontPublish
  <2>3. QED
    BY <1>a, <2>1, <2>2 DEF NotAhead
<1>2. ASSUME NEW j \in Job, AnalysisStep(j) PROVE NotAhead'
  <2>1. gen' = gen /\ j <= gen
    <3>1. job[j].step # "none" /\ gen' = gen
      BY <1>2, AnalysisIsPosted
    <3>2. QED
      BY <1>a, <3>1 DEF Unposted, NoJob
  <2>2. \A f \in File : shown'[f] # None =>
          shown'[f] = shown[f] \/ (Publish(j) /\ Publishing(j) /\ shown'[f].job = j)
    BY <1>2, AnalysisFindings
  <2>3. ASSUME NEW f \in File, shown'[f] # None PROVE shown'[f].job <= gen'
    BY <1>a, <2>1, <2>2, <2>3 DEF NotAhead
  <2>4. ASSUME NEW i \in Job, NEW f \in File, Publishing(i)', shown'[f] # None
        PROVE  shown'[f].job <= i
    <3>1. Publishing(i) \/ (i = j /\ Report(j) /\ IsCurrent(j))
      BY <1>2, <2>4, ReportStartsPublishing
    <3>2. CASE Publishing(i) /\ Publishing(j)
      <4>1. i = j
        BY <3>2 DEF Holding
      <4>2. QED
        BY <1>a, <2>2, <2>4, <3>2, <4>1 DEF NotAhead
    <3>3. CASE Publishing(i) /\ ~Publishing(j)
      BY <1>a, <2>2, <2>4, <3>3 DEF NotAhead
    <3>4. CASE i = j /\ Report(j) /\ IsCurrent(j)
      BY <2>1, <2>3, <2>4, <3>4 DEF IsCurrent
    <3>5. QED
      BY <3>1, <3>2, <3>3, <3>4
  <2>5. QED
    BY <2>3, <2>4 DEF NotAhead
<1>3. CASE UNCHANGED vars
  BY <1>3 DEF vars, view, published, NotAhead, Publishing
<1>4. QED
  BY <1>1, <1>2, <1>3 DEF Next

LEMMA NextReportsHeld ==
  ASSUME Typed, Unposted, Holding, ReportsHeld, [Next]_vars
  PROVE  ReportsHeld'
<1>a. /\ \A j \in Job : job[j].affected \subseteq File
      /\ Free \notin Job
  BY SentinelAssumption DEF Typed, TypeOK, JobState
<1>1. ASSUME NEW h \in Handler,
             ChangeStep(h) \/ \E kind \in Kinds, F \in SUBSET File : Begin(h, kind, F)
      PROVE  ReportsHeld'
  <2>1. \A f \in File : reports'[f] \in {None, reports[f]}
    BY <1>1, ChangesTakeBack
  <2>2. \A j \in Job : Publishing(j)' => Publishing(j) /\ job'[j] = job[j]
    BY <1>1, ChangesDontPublish
  <2>3. QED
    BY <1>a, <2>1, <2>2 DEF ReportsHeld
<1>2. ASSUME NEW j \in Job, AnalysisStep(j),
             NEW i \in Job, Publishing(i)', NEW f \in job'[i].affected
      PROVE  reports'[f] = None \/ reports'[f].job = i
  <2>1. /\ job'[i].affected = job[i].affected
        /\ Publishing(i) \/ (i = j /\ Report(j) /\ IsCurrent(j))
    BY <1>2, ReportStartsPublishing
  <2>2. f \in File
    BY <1>a, <2>1
  <2>3. CASE Publishing(i)
    <3>1. reportMu # Free
      BY <1>a, <2>3 DEF Holding
    <3>2. reports'[f] = reports[f]
      BY <1>2, <3>1, AnalysisFindings
    <3>3. QED
      BY <2>1, <2>3, <3>2 DEF ReportsHeld
  <2>4. CASE i = j /\ Report(j) /\ IsCurrent(j)
    <3>1. ~Publish(j)
      BY <2>4 DEF Report, Publish
    <3>2. QED
      BY <1>2, <2>1, <2>2, <2>4, <3>1, AnalysisFindings
  <2>5. QED
    BY <2>1, <2>3, <2>4
<1>3. CASE UNCHANGED vars
  BY <1>3 DEF vars, published, ReportsHeld, Publishing
<1>4. QED
  BY <1>1, <1>2, <1>3 DEF Next, ReportsHeld

(***************************************************************************)
(* The safety properties of Diagnostics.                                   *)
(***************************************************************************)
LEMMA NextClearedStayClear ==
  ASSUME Typed, LatestTracked, Holding, ClearedStayClear, [Next]_vars
  PROVE  ClearedStayClear'
<1>a. /\ request \in [Handler -> Request]
      /\ \A j \in Job : job[j].affected \subseteq File
  BY DEF Typed, TypeOK, JobState
<1>b. \A f \in File : (f \notin tracked /\ ~Clearing(f)) => reports[f] = None /\ (f \notin unsent => shown[f] = None)
  BY DEF ClearedStayClear, Clearing
<1> SUFFICES ASSUME NEW f \in File, f \notin tracked', ~Clearing(f)'
             PROVE  reports'[f] = None /\ (f \notin unsent' => shown'[f] = None)
  BY DEF ClearedStayClear, Clearing
<1>1. ASSUME NEW h \in Handler,
             ChangeStep(h) \/ \E kind \in Kinds, F \in SUBSET File : Begin(h, kind, F)
      PROVE  reports'[f] = None /\ (f \notin unsent' => shown'[f] = None)
  <2>1. reports'[f] \in {None, reports[f]} /\ shown'[f] \in {None, shown[f]}
    BY <1>1, ChangesTakeBack
  <2>2. CASE Clear(h) /\ f \in request[h].files
    BY <2>2 DEF Clear, Notify
  <2>3. CASE Clear(h) /\ f \notin request[h].files
    <3>1. /\ tracked' = tracked /\ request' = [request EXCEPT ![h] = Quiet]
          /\ f \in unsent' <=> f \in unsent
      BY <2>3 DEF Clear, Notify, view
    <3>2. ASSUME NEW i \in Handler, request[i].step = "clear", f \in request[i].files
          PROVE  FALSE
      <4>1. request'[i] = request[i]
        BY <1>a, <2>3, <3>1, <3>2
      <4>2. QED
        BY <3>2, <4>1 DEF Clearing
    <3>3. QED
      BY <1>b, <2>1, <3>1, <3>2 DEF Clearing
  <2>4. CASE ~Clear(h)
    <3>1. ~Clearing(f)
      BY <1>1, <2>4, ClearingUntilClear
    <3>2. ~(f \in tracked /\ f \notin tracked')
      <4>1. ASSUME f \in tracked, f \notin tracked' PROVE Evict(h) /\ f \in request[h].files
        BY <1>1, <2>4, <4>1
        DEF ChangeStep, Begin, Forget, Write, Update, Post, Evict, view
      <4>2. Evict(h) => request'[h].step = "clear" /\ request'[h].files = request[h].files
        BY <1>a DEF Evict, Request
      <4>3. QED
        BY <4>1, <4>2, SMTT(20) DEF Clearing
    <3>3. unsent' = unsent
      BY <1>1, <2>4 DEF ChangeStep, Begin, Forget, Write, Update, Post, Evict, published
    <3>4. QED
      BY <1>b, <2>1, <3>1, <3>2, <3>3
  <2>5. QED
    BY <2>2, <2>3, <2>4
<1>2. ASSUME NEW j \in Job, AnalysisStep(j)
      PROVE  reports'[f] = None /\ (f \notin unsent' => shown'[f] = None)
  <2>1. tracked \subseteq tracked'
    BY <1>2 DEF AnalysisStep, Start, Acquire, RunAnalyzers, Panic, Report, Prepare,
                Publish, Finish, view
  <2>2. ~Clearing(f)
    <3>1. request' = request
      BY <1>2, AnalysisIsPosted
    <3>2. QED
      BY <3>1 DEF Clearing
  <2>3. reports[f] = None /\ (f \notin unsent => shown[f] = None)
    BY <1>b, <2>1, <2>2
  <2>4. IsCurrent(j) => f \notin job[j].affected
    BY <2>1 DEF LatestTracked
  <2>5. job[j].step = "sending" => f # job[j].file
    <3>1. ASSUME job[j].step = "sending" PROVE job[j].file \in tracked \/ Clearing(job[j].file)
      BY <3>1 DEF Holding, Publishing
    <3>2. QED
      BY <2>1, <2>2, <3>1
  <2>6. QED
    BY <1>2, <2>3, <2>4, <2>5, AnalysisFindings
<1>3. CASE UNCHANGED vars
  <2>1. UNCHANGED <<request, tracked, reports, shown, unsent>>
    BY <1>3 DEF vars, view, published
  <2>2. QED
    BY <1>b, <2>1 DEF Clearing
<1>4. QED
  BY <1>1, <1>2, <1>3 DEF Next

LEMMA NextReportsKeepUp ==
  ASSUME Typed, Holding, NotAhead, ReportsHeld, ReportsKeepUp, [Next]_vars
  PROVE  ReportsKeepUp'
<1>a. /\ gen \in Nat
      /\ \A j \in Job : j \in Nat
      /\ \A g \in File : shown[g] # None => shown[g].job \in Nat
      /\ \A g \in File : reports[g] # None => reports[g].job \in Nat
  BY Naturals
<1> SUFFICES ASSUME NEW f \in File, shown'[f] # None, reports'[f] # None
             PROVE  shown'[f].job <= reports'[f].job
  BY DEF ReportsKeepUp
<1>1. ASSUME NEW h \in Handler,
             ChangeStep(h) \/ \E kind \in Kinds, F \in SUBSET File : Begin(h, kind, F)
      PROVE  shown'[f].job <= reports'[f].job
  <2>1. reports'[f] \in {None, reports[f]} /\ shown'[f] \in {None, shown[f]}
    BY <1>1, ChangesTakeBack
  <2>2. QED
    BY <2>1 DEF ReportsKeepUp
<1>2. ASSUME NEW j \in Job, AnalysisStep(j)
      PROVE  shown'[f].job <= reports'[f].job
  <2>1. CASE UNCHANGED <<reports, shown>>
    BY <2>1 DEF ReportsKeepUp
  <2>2. CASE Report(j) /\ IsCurrent(j)
    <3>1. ~Publish(j)
      BY <2>2 DEF Report, Publish
    <3>2. shown' = shown /\ (f \in job[j].affected => reports'[f].job = j)
          /\ (f \notin job[j].affected => reports'[f] = reports[f])
      BY <1>2, <2>2, <3>1, AnalysisFindings
    <3>3. shown[f].job <= j
      BY <2>2, <3>2 DEF NotAhead, IsCurrent
    <3>4. QED
      BY <3>2, <3>3 DEF ReportsKeepUp
  <2>3. CASE Publish(j) /\ job[j].step = "sending" /\ UNCHANGED reports
    <3>1. CASE f = job[j].file
      <4>1. ~Report(j)
        BY <2>3 DEF Report
      <4>2. shown'[f] = shown[f] \/ shown'[f].job = j
        BY <1>2, AnalysisFindings
      <4>3. f \in job[j].affected
        BY <2>3, <3>1 DEF Holding, Publishing
      <4>4. reports[f].job = j
        BY <2>3, <4>3 DEF ReportsHeld, Publishing
      <4>5. QED
        BY <1>a, <2>3, <4>2, <4>4 DEF ReportsKeepUp
    <3>2. CASE f # job[j].file
      <4>1. ~Report(j)
        BY <2>3 DEF Report
      <4>2. shown'[f] = shown[f]
        BY <1>2, <3>2, <4>1, AnalysisFindings
      <4>3. QED
        BY <2>3, <4>2 DEF ReportsKeepUp
    <3>3. QED
      BY <3>1, <3>2
  <2>4. QED
    BY <1>2, <2>1, <2>2, <2>3, AnalysisFindings
<1>3. CASE UNCHANGED vars
  BY <1>3 DEF vars, published, ReportsKeepUp
<1>4. QED
  BY <1>1, <1>2, <1>3 DEF Next

-----------------------------------------------------------------------------
(***************************************************************************)
(* The latest generation.  Its analysis saw no content older than the last *)
(* invalidation, since a later one would have made a later generation;     *)
(* nobody publishes once it is done, since a later report would have to be *)
(* of a later generation; and what it has left behind it is shown.         *)
(***************************************************************************)
Analysed(j) == job[j].step \in {"reporting", "publishing", "sending", "done"}

Sent(j) == job[j].step \in {"publishing", "sending", "done"}

LatestSeen ==
  \A j \in Job : (IsCurrent(j) /\ Analysed(j)) =>
    \A f \in job[j].affected : floor[f] <= job[j].seen[f]

DoneAll == \A j \in Job : job[j].step = "done" => job[j].todo = {}

LatestAlone ==
  \A j \in Job : (IsCurrent(j) /\ job[j].step = "done") => \A i \in Job : ~Publishing(i)

\* f shows what the analysis j found in it.
ShowsOf(j, f) ==
  shown[f] # None /\ shown[f].job = j /\ shown[f].version = job[j].seen[f]

LatestSent ==
  \A j \in Job : (IsCurrent(j) /\ Sent(j)) =>
    \A f \in (job[j].affected \ (job[j].todo \cup cleared \cup unsent)) \cap readable :
      Settled(f) => ShowsOf(j, f)

Latest == LatestSeen /\ DoneAll /\ LatestAlone /\ LatestSent

\* A change leaves an analysis that is past its run alone, and ends the
\* generation when it invalidates something.
LEMMA ChangesKeepLatest ==
  ASSUME Typed, Unposted, NEW h \in Handler,
         ChangeStep(h) \/ \E kind \in Kinds, F \in SUBSET File : Begin(h, kind, F),
         NEW j \in Job, Analysed(j)'
  PROVE  /\ job'[j] = job[j] /\ Analysed(j)
         /\ IsCurrent(j)' => /\ IsCurrent(j) /\ floor' = floor
                             /\ ~Update(h) /\ ~Evict(h)
<1>a. gen \in Nat /\ j \in Nat /\ job \in [Job -> JobState]
  BY Naturals DEF Typed, TypeOK
<1>1. CASE Post(h)
  <2>1. /\ \A i \in Job \ {request[h].gen} : job'[i] = job[i]
        /\ request[h].gen \in Job => job'[request[h].gen].step = "started"
        /\ UNCHANGED <<gen, floor>>
        /\ request[h].step = "post"
    BY <1>1, <1>a DEF Post, NoJob, view
  <2>2. j # request[h].gen
    BY <2>1 DEF Analysed
  <2>3. QED
    BY <2>1, <2>2 DEF Analysed, IsCurrent, Update, Evict
<1>2. CASE Update(h) \/ Evict(h)
  <2>1. job' = job /\ gen' = gen + 1
    BY <1>2 DEF Update, Evict, Invalidate
  <2>2. ~IsCurrent(j)'
    <3>1. job[j] # NoJob
      BY <2>1 DEF Analysed, NoJob
    <3>2. ~(j > gen)
      BY <3>1 DEF Unposted
    <3>3. QED
      BY <1>a, <2>1, <3>2 DEF IsCurrent
  <2>3. QED
    BY <2>1, <2>2 DEF Analysed
<1>3. CASE ~(Post(h) \/ Update(h) \/ Evict(h))
  <2>1. UNCHANGED <<job, gen, floor>>
    BY <1>3 DEF ChangeStep, Begin, Forget, Write, Clear, view
  <2>2. QED
    BY <1>3, <2>1 DEF Analysed, IsCurrent
<1>4. QED
  BY <1>1, <1>2, <1>3

\* A change that makes no generation unsettles, hides or clears each file of
\* which it changes what is readable or shown.
LEMMA ChangesKeepShown ==
  ASSUME Typed, NEW h \in Handler,
         ChangeStep(h) \/ \E kind \in Kinds, F \in SUBSET File : Begin(h, kind, F),
         ~Update(h), ~Evict(h),
         NEW f \in File, Settled(f)', f \in readable', f \notin cleared'
  PROVE  /\ Settled(f) /\ f \in readable /\ f \notin cleared
         /\ shown'[f] = shown[f] /\ (f \in unsent' <=> f \in unsent)
<1>a. request \in [Handler -> Request] /\ shown \in [File -> Finding \cup {None}]
  BY DEF Typed, TypeOK
<1>b. ASSUME request[h].step \in {"change", "clear"} => f \notin request[h].files,
             \A i \in Handler \ {h} : request'[i] = request[i]
      PROVE  Settled(f)
  BY <1>b DEF Settled
<1>1. CASE \E kind \in Kinds, F \in SUBSET File : Begin(h, kind, F)
  <2>1. PICK kind \in Kinds, F \in SUBSET File : Begin(h, kind, F)
    BY <1>1
  <2>2. /\ request[h] = Quiet
        /\ \A i \in Handler \ {h} : request'[i] = request[i]
        /\ readable' \subseteq readable
        /\ UNCHANGED <<cleared, shown, unsent>>
    BY <1>a, <2>1 DEF Begin, published
  <2>3. QED
    BY <1>b, <2>2 DEF Quiet
<1>2. CASE Forget(h)
  <2>1. /\ request[h].step = "forget"
        /\ \A i \in Handler \ {h} : request'[i] = request[i]
        /\ UNCHANGED <<readable, cleared, shown, unsent>>
    BY <1>a, <1>2 DEF Forget, files
  <2>2. QED
    BY <1>b, <2>1
<1>3. CASE Write(h)
  <2>1. /\ request[h].step = "write"
        /\ request'[h].step = "change" /\ request'[h].files = request[h].files
        /\ \A i \in Handler \ {h} : request'[i] = request[i]
        /\ UNCHANGED <<cleared, shown, unsent>>
    BY <1>a, <1>3 DEF Write, published, Request
  <2>2. f \notin request[h].files
    BY <2>1 DEF Settled
  <2>3. f \in readable
    BY <1>3, <2>2 DEF Write
  <2>4. QED
    BY <1>b, <2>1, <2>3
<1>4. CASE Post(h)
  <2>1. /\ request[h].step = "post"
        /\ \A i \in Handler \ {h} : request'[i] = request[i]
        /\ UNCHANGED <<readable, cleared, shown, unsent>>
    BY <1>a, <1>4 DEF Post, files, published
  <2>2. QED
    BY <1>b, <2>1
<1>5. CASE Clear(h)
  <2>1. /\ \A i \in Handler \ {h} : request'[i] = request[i]
        /\ f \notin request[h].files /\ f \notin cleared /\ f \in readable
    BY <1>a, <1>5 DEF Clear, files
  <2>2. shown'[f] = shown[f] /\ (f \in unsent' <=> f \in unsent)
    BY <1>5, <2>1 DEF Clear, Notify
  <2>3. QED
    BY <1>b, <2>1, <2>2
<1>6. QED
  BY <1>1, <1>2, <1>3, <1>4, <1>5 DEF ChangeStep

\* How an analysis gets past its run, and what it leaves behind it then.
LEMMA AnalysisProgress ==
  ASSUME Typed, NEW j \in Job, AnalysisStep(j), Analysed(j)'
  PROVE  \/ /\ job'[j].step = "reporting"
            /\ \A f \in job[j].affected : floor[f] <= job'[j].seen[f]
         \/ /\ Analysed(j)
            /\ job'[j].seen = job[j].seen
            /\ job'[j].step = "done" => job[j].step = "publishing" /\ job'[j].todo = {}
            /\ Sent(j)' => \A f \in job[j].affected \ job'[j].todo :
                 \/ f \notin readable
                 \/ shown'[f] = FindingOf(j, f)
                 \/ f \in unsent'
                 \/ /\ Sent(j) /\ f \notin job[j].todo
                    /\ shown'[f] = shown[f] /\ (f \in unsent => f \in unsent')
<1>a. /\ job \in [Job -> JobState] /\ job[j] \in JobState
      /\ shown \in [File -> Finding \cup {None}]
      /\ job[j].affected \subseteq File
  BY DEF Typed, TypeOK, JobState
<1>1. CASE Start(j) \/ Acquire(j) \/ Panic(j)
  <2>1. ASSUME NEW step \in {"waiting", "dropped", "running", "panicked"},
               job' = [job EXCEPT ![j].step = step]
        PROVE  FALSE
    BY <1>a, <2>1 DEF Analysed, JobState
  <2>2. QED
    BY <1>1, <2>1 DEF Start, Acquire, Panic
<1>2. CASE RunAnalyzers(j)
  <2>1. PICK seen \in [job[j].affected -> UNION {floor[f]..text[f] : f \in job[j].affected}] :
          /\ \A f \in job[j].affected : seen[f] \in floor[f]..text[f]
          /\ job' = [job EXCEPT ![j].step = "reporting",
               ![j].seen = [f \in File |-> IF f \in job[j].affected THEN seen[f] ELSE 0]]
    BY <1>2 DEF RunAnalyzers
  <2> DEFINE known == [f \in File |-> IF f \in job[j].affected THEN seen[f] ELSE 0]
  <2>2. \A f \in job[j].affected : floor[f] <= known[f]
    <3>1. \A f \in job[j].affected : floor[f] \in Nat /\ text[f] \in Nat
      BY <1>a DEF Typed, TypeOK
    <3>2. QED
      BY <1>a, <2>1, <3>1
  <2>3. job' = [job EXCEPT ![j].step = "reporting", ![j].seen = known]
    BY <2>1
  <2> HIDE DEF known
  <2>4. job'[j].step = "reporting" /\ job'[j].seen = known
    BY <1>a, <2>3 DEF JobState
  <2>5. QED
    BY <2>2, <2>4
<1>3. CASE Report(j)
  <2>1. CASE IsCurrent(j)
    <3>1. /\ job[j].step = "reporting"
          /\ job' = [job EXCEPT ![j].step = "publishing", ![j].todo = job[j].affected]
      BY <1>3, <2>1 DEF Report
    <3>2. /\ job'[j].step = "publishing" /\ job'[j].todo = job[j].affected
          /\ job'[j].seen = job[j].seen
      BY <1>a, <3>1 DEF JobState
    <3>3. QED
      BY <3>1, <3>2 DEF Analysed
  <2>2. CASE ~IsCurrent(j)
    <3>1. job' = [job EXCEPT ![j].step = "dropped"]
      BY <1>3, <2>2 DEF Report
    <3>2. job'[j].step = "dropped"
      BY <1>a, <3>1 DEF JobState
    <3>3. QED
      BY <3>2 DEF Analysed
  <2>3. QED
    BY <2>1, <2>2
<1>4. ASSUME NEW f \in File, Prepare(j, f)
      PROVE  /\ Analysed(j) /\ Sent(j) /\ job'[j].seen = job[j].seen
             /\ job'[j].step # "done"
             /\ shown' = shown /\ unsent' = unsent
             /\ \A g \in job[j].affected \ job'[j].todo : g \notin readable \/ g \notin job[j].todo
  <2>1. job[j].step = "publishing" /\ shown' = shown /\ unsent' = unsent
    BY <1>4 DEF Prepare, published
  <2>2. CASE job' = [job EXCEPT ![j].step = "sending", ![j].file = f]
    <3>1. /\ job'[j].step = "sending" /\ job'[j].todo = job[j].todo
          /\ job'[j].seen = job[j].seen
      BY <1>a, <2>2 DEF JobState
    <3>2. QED
      BY <2>1, <3>1 DEF Analysed, Sent
  <2>3. CASE f \notin readable /\ job' = [job EXCEPT ![j].todo = @ \ {f}]
    <3>1. /\ job'[j].step = job[j].step /\ job'[j].todo = job[j].todo \ {f}
          /\ job'[j].seen = job[j].seen
      BY <1>a, <2>3 DEF JobState
    <3>2. QED
      BY <2>1, <2>3, <3>1 DEF Analysed, Sent
  <2>4. QED
    BY <1>4, <2>2, <2>3 DEF Prepare
<1>5. CASE Publish(j)
  <2> DEFINE file == job[j].file
  <2>1. /\ job[j].step = "sending"
        /\ \/ Notify({file}, {}) /\ shown' = [shown EXCEPT ![file] = FindingOf(j, file)]
           \/ Notify({file}, {file}) /\ shown' = shown
        /\ job' = [job EXCEPT ![j].step = "publishing", ![j].todo = @ \ {file},
                              ![j].file = NoFile]
    BY <1>5 DEF Publish
  <2>2. \A f \in File :
          IF f = file THEN shown'[f] = FindingOf(j, f) \/ f \in unsent'
                      ELSE shown'[f] = shown[f] /\ (f \in unsent' <=> f \in unsent)
    BY <1>a, <2>1 DEF Notify
  <2> HIDE DEF file
  <2>3. /\ job'[j].step = "publishing" /\ job'[j].todo = job[j].todo \ {file}
        /\ job'[j].seen = job[j].seen
    BY <1>a, <2>1 DEF JobState
  <2>4. QED
    BY <1>a, <2>1, <2>2, <2>3 DEF Analysed, Sent
<1>6. CASE Finish(j)
  <2>1. job[j].step = "publishing" /\ shown' = shown /\ unsent' = unsent
    BY <1>6 DEF Finish, published
  <2>2. CASE job[j].todo = {} /\ job' = [job EXCEPT ![j].step = "done"]
    <3>1. /\ job'[j].step = "done" /\ job'[j].todo = job[j].todo
          /\ job'[j].seen = job[j].seen
      BY <1>a, <2>2 DEF JobState
    <3>2. QED
      BY <2>1, <2>2, <3>1 DEF Analysed, Sent
  <2>3. CASE job' = [job EXCEPT ![j].step = "dropped"]
    BY <1>a, <2>3 DEF Analysed, JobState
  <2>4. QED
    BY <1>6, <2>2, <2>3 DEF Finish
<1>7. QED
  BY <1>1, <1>2, <1>3, <1>4, <1>5, <1>6 DEF AnalysisStep

LEMMA NextLatest ==
  ASSUME Typed, Unposted, Holding, Latest, [Next]_vars
  PROVE  Latest'
<1>a. /\ job \in [Job -> JobState]
      /\ \A j \in Job : job[j].affected \subseteq File
      /\ \A j \in Job : Publishing(j) => reportMu = j
  BY DEF Typed, TypeOK, JobState, Holding
<1>b. \A j \in Job : Sent(j) => Analysed(j)
  BY DEF Sent, Analysed
<1>1. ASSUME NEW h \in Handler,
             ChangeStep(h) \/ \E kind \in Kinds, F \in SUBSET File : Begin(h, kind, F)
      PROVE  Latest'
  <2>1. \A j \in Job : Analysed(j)' => job'[j] = job[j] /\ Analysed(j)
    BY <1>1, ChangesKeepLatest
  <2>2. \A j \in Job : (Analysed(j)' /\ IsCurrent(j)') => IsCurrent(j) /\ floor' = floor
    BY <1>1, ChangesKeepLatest
  <2>3. LatestSeen'
    BY <2>1, <2>2 DEF Latest, LatestSeen
  <2>4. DoneAll'
    BY <2>1 DEF Latest, DoneAll, Analysed
  <2>5. LatestAlone'
    <3>1. \A i \in Job : Publishing(i)' => Publishing(i)
      BY <1>1, ChangesDontPublish
    <3>2. QED
      BY <2>1, <2>2, <3>1 DEF Latest, LatestAlone, Analysed
  <2>6. ASSUME NEW j \in Job, IsCurrent(j)', Sent(j)',
               NEW f \in (job'[j].affected \ (job'[j].todo \cup cleared' \cup unsent')) \cap readable',
               Settled(f)'
        PROVE  ShowsOf(j, f)'
    <3>1. Analysed(j)'
      BY <2>6 DEF Sent, Analysed
    <3>2. job'[j] = job[j] /\ IsCurrent(j) /\ ~Update(h) /\ ~Evict(h)
      BY <1>1, <2>6, <3>1, ChangesKeepLatest
    <3>3. f \in File
      BY <1>a, <2>6, <3>2
    <3>4. /\ Settled(f) /\ f \in readable /\ f \notin cleared /\ f \notin unsent
          /\ shown'[f] = shown[f]
      BY <1>1, <2>6, <3>2, <3>3, ChangesKeepShown
    <3>5. Sent(j)
      BY <2>6, <3>2 DEF Sent
    <3>6. ShowsOf(j, f)
      BY <2>6, <3>2, <3>4, <3>5 DEF Latest, LatestSent
    <3>7. QED
      BY <3>2, <3>4, <3>6 DEF ShowsOf
  <2>7. QED
    BY <2>3, <2>4, <2>5, <2>6 DEF Latest, LatestSent
<1>2. ASSUME NEW k \in Job, AnalysisStep(k) PROVE Latest'
  <2>1. /\ UNCHANGED <<gen, request>>
        /\ job'[k].affected = job[k].affected
        /\ \A j \in Job \ {k} : job'[j] = job[j]
    <3>1. job' = [job EXCEPT ![k] = job'[k]] /\ UNCHANGED <<request, gen>>
          /\ job'[k].affected = job[k].affected
      BY <1>2, AnalysisIsPosted
    <3>2. QED
      BY <1>a, <3>1
  <2>2. UNCHANGED <<readable, floor, cleared>>
    BY <1>2 DEF AnalysisStep, Start, Acquire, RunAnalyzers, Panic, Report, Prepare,
                Publish, Finish, files, view
  <2>3. \A f : Settled(f)' <=> Settled(f)
    BY <2>1 DEF Settled
  <2>4. LatestSeen'
    <3> SUFFICES ASSUME NEW j \in Job, IsCurrent(j)', Analysed(j)',
                        NEW f \in job'[j].affected
                 PROVE  floor[f] <= job'[j].seen[f]
      BY <2>2 DEF LatestSeen
    <3>1. IsCurrent(j)
      BY <2>1 DEF IsCurrent
    <3>2. CASE j # k
      <4>1. job'[j] = job[j] /\ Analysed(j)
        BY <2>1, <3>2 DEF Analysed
      <4>2. QED
        BY <3>1, <4>1 DEF Latest, LatestSeen
    <3>3. CASE j = k
      BY <1>2, <2>1, <3>1, <3>3, AnalysisProgress DEF Latest, LatestSeen
    <3>4. QED
      BY <3>2, <3>3
  <2>5. DoneAll'
    <3>1. job'[k].step = "done" => job'[k].todo = {}
      BY <1>2, AnalysisProgress DEF Analysed
    <3>2. QED
      BY <2>1, <3>1 DEF Latest, DoneAll
  <2>6. LatestAlone'
    <3> SUFFICES ASSUME NEW j \in Job, IsCurrent(j)', job'[j].step = "done",
                        NEW i \in Job, Publishing(i)'
                 PROVE  FALSE
      BY DEF LatestAlone
    <3>1. Publishing(i) \/ (i = k /\ IsCurrent(k))
      BY <1>2, ReportStartsPublishing
    <3>2. IsCurrent(j)
      BY <2>1 DEF IsCurrent
    <3>3. i # j
      BY DEF Publishing
    <3>4. CASE j # k
      <4>1. ~Publishing(i)
        BY <2>1, <3>2, <3>4 DEF Latest, LatestAlone
      <4>2. QED
        BY <3>1, <3>2, <3>4, <4>1 DEF IsCurrent
    <3>5. CASE j = k
      <4>1. Publishing(k)
        BY <1>2, <3>5, AnalysisProgress DEF Analysed, Publishing
      <4>2. QED
        BY <1>a, <3>1, <3>3, <3>5, <4>1
    <3>6. QED
      BY <3>4, <3>5
  <2>7. ASSUME NEW j \in Job, IsCurrent(j)', Sent(j)',
               NEW f \in (job'[j].affected \ (job'[j].todo \cup cleared' \cup unsent')) \cap readable',
               Settled(f)'
        PROVE  ShowsOf(j, f)'
    <3>1. IsCurrent(j) /\ Settled(f) /\ f \in readable /\ f \notin cleared
      BY <2>1, <2>2, <2>3, <2>7 DEF IsCurrent
    <3>2. f \in job[j].affected /\ f \in File
      BY <1>a, <2>1, <2>7
    <3>3. Analysed(j)'
      BY <2>7 DEF Sent, Analysed
    <3>4. CASE j # k
      <4>1. job'[j] = job[j] /\ Sent(j)
        BY <2>1, <2>7, <3>4 DEF Sent
      <4>2. ~Publishing(k)
        <5>1. CASE Publishing(j)
          BY <1>a, <3>4, <5>1
        <5>2. CASE job[j].step = "done"
          BY <3>1, <5>2 DEF Latest, LatestAlone
        <5>3. QED
          BY <4>1, <5>1, <5>2 DEF Sent, Publishing
      <4>3. shown' = shown /\ unsent' = unsent
        BY <1>2, <4>2, AnalysisFindings
      <4>4. ShowsOf(j, f)
        BY <2>7, <3>1, <3>2, <4>1, <4>3 DEF Latest, LatestSent
      <4>5. QED
        BY <4>1, <4>3, <4>4 DEF ShowsOf
    <3>5. CASE j = k
      <4>1. job'[j].step # "reporting"
        BY <2>7 DEF Sent
      <4>2. /\ job'[j].seen = job[j].seen
            /\ \/ shown'[f] = FindingOf(j, f)
               \/ /\ Sent(j) /\ f \notin job[j].todo
                  /\ shown'[f] = shown[f] /\ f \notin unsent
        BY <1>2, <2>7, <3>1, <3>2, <3>3, <3>5, <4>1, AnalysisProgress
      <4>3. CASE shown'[f] = FindingOf(j, f)
        <5>1. FindingOf(j, f) \in Finding
          BY <1>a, <3>2 DEF FindingOf, Finding, JobState
        <5>2. shown'[f] # None /\ shown'[f].job = j /\ shown'[f].version = job[j].seen[f]
          BY <4>3, <5>1, SentinelAssumption DEF FindingOf
        <5>3. QED
          BY <4>2, <5>2 DEF ShowsOf
      <4>4. CASE /\ Sent(j) /\ f \notin job[j].todo
                 /\ shown'[f] = shown[f] /\ f \notin unsent
        <5>1. ShowsOf(j, f)
          BY <3>1, <3>2, <4>4 DEF Latest, LatestSent
        <5>2. QED
          BY <4>2, <4>4, <5>1 DEF ShowsOf
      <4>5. QED
        BY <4>2, <4>3, <4>4
    <3>6. QED
      BY <3>4, <3>5
  <2>8. QED
    BY <2>4, <2>5, <2>6, <2>7 DEF Latest, LatestSent
<1>3. CASE UNCHANGED vars
  BY <1>3 DEF vars, files, view, published, Latest, LatestSeen, DoneAll, LatestAlone,
     LatestSent, ShowsOf, Analysed, Sent, Publishing, Settled, IsCurrent
<1>4. QED
  BY <1>1, <1>2, <1>3 DEF Next

-----------------------------------------------------------------------------
(* The inductive invariant.                                                *)

IInv ==
  /\ Typed
  /\ Aimed
  /\ Unposted
  /\ LatestTracked
  /\ Holding
  /\ NotAhead
  /\ ReportsHeld
  /\ ClearedStayClear
  /\ ReportsKeepUp
  /\ Latest

LEMMA InitInductive == Init => IInv
<1> SUFFICES ASSUME Init PROVE IInv
  OBVIOUS
<1>1. Typed /\ Aimed
  BY InitTyped
<1>2. Unposted /\ LatestTracked /\ Holding /\ ReportsHeld
  BY BoundAssumption DEF Init, Unposted, LatestTracked, Holding, ReportsHeld, Publishing,
     Posting, NoJob, Quiet
<1>3. NotAhead /\ ClearedStayClear /\ ReportsKeepUp
  BY DEF Init, NotAhead, ClearedStayClear, ReportsKeepUp
<1>4. Latest
  BY DEF Init, Latest, LatestSeen, DoneAll, LatestAlone, LatestSent, Analysed, Sent, NoJob
<1>5. QED
  BY <1>1, <1>2, <1>3, <1>4 DEF IInv

LEMMA NextInductive == IInv /\ [Next]_vars => IInv'
<1>1. Typed => TypeOK
  BY DEF Typed
<1>2. QED
  BY <1>1, NextTyped, NextAimed, NextUnposted, NextLatestTracked, NextHolding, NextNotAhead,
    NextReportsHeld, NextClearedStayClear, NextReportsKeepUp, NextLatest DEF IInv

LEMMA Inductive == Spec => []IInv
  BY InitInductive, NextInductive, PTL DEF Spec

(***************************************************************************)
(* What was cleared stays clear: no interleaving of changes and analyses   *)
(* brings back the findings of a file that its view has forgotten.         *)
(***************************************************************************)
THEOREM DiagnosticsClearedStayClear == Spec => []ClearedStayClear
<1>1. IInv => ClearedStayClear
  BY DEF IInv
<1>2. QED
  BY <1>1, Inductive, PTL

(***************************************************************************)
(* Code actions never pair with findings older than those shown.           *)
(***************************************************************************)
THEOREM DiagnosticsReportsKeepUp == Spec => []ReportsKeepUp
<1>1. IInv => ReportsKeepUp
  BY DEF IInv
<1>2. QED
  BY <1>1, Inductive, PTL

(***************************************************************************)
(* When the analysis of the view's latest generation is done, each         *)
(* readable file it was about shows its findings, made from a content no   *)
(* older than the last announced one, however changes and analyses         *)
(* interleaved before (Server.diagnoseAt).                                 *)
(***************************************************************************)
THEOREM DiagnosticsLatestIsShown == Spec => []LatestIsShown
<1>1. ASSUME IInv, NEW j \in Job, IsCurrent(j), job[j].step = "done",
             NEW f \in (job[j].affected \ (cleared \cup unsent)) \cap readable, Settled(f)
      PROVE  shown[f] # None /\ shown[f].job = j /\ shown[f].version >= floor[f]
  <2>1. job[j].todo = {} /\ Sent(j) /\ Analysed(j)
    BY <1>1 DEF IInv, Latest, DoneAll, Sent, Analysed
  <2>2. ShowsOf(j, f)
    BY <1>1, <2>1 DEF IInv, Latest, LatestSent
  <2>3. floor[f] <= job[j].seen[f]
    BY <1>1, <2>1 DEF IInv, Latest, LatestSeen
  <2>4. QED
    BY <2>2, <2>3 DEF ShowsOf
<1>2. IInv => LatestIsShown
  BY <1>1 DEF LatestIsShown
<1>3. QED
  BY <1>2, Inductive, PTL

(***************************************************************************)
(* The editor is never sent findings older than those it shows.            *)
(***************************************************************************)
THEOREM DiagnosticsNeverBackwards == Spec => NeverBackwards
<1>1. ASSUME IInv, [Next]_vars, NEW f \in File, shown[f] # None, shown'[f] # None
      PROVE  shown[f].job <= shown'[f].job
  <2>1. shown[f].job \in Nat
    BY <1>1, Naturals DEF IInv
  <2>2. ASSUME NEW h \in Handler,
               ChangeStep(h) \/ \E kind \in Kinds, F \in SUBSET File : Begin(h, kind, F)
        PROVE  shown[f].job <= shown'[f].job
    BY <1>1, <2>1, <2>2, ChangesTakeBack DEF IInv
  <2>3. ASSUME NEW j \in Job, AnalysisStep(j)
        PROVE  shown[f].job <= shown'[f].job
    <3>1. shown'[f] = shown[f] \/ (Publishing(j) /\ shown'[f].job = j)
      BY <1>1, <2>3, AnalysisFindings DEF IInv
    <3>2. QED
      BY <1>1, <2>1, <3>1 DEF IInv, NotAhead
  <2>4. CASE UNCHANGED vars
    BY <1>1, <2>1, <2>4 DEF vars, published
  <2>5. QED
    BY <1>1, <2>2, <2>3, <2>4 DEF Next
<1>2. IInv /\ [Next]_vars =>
        [\A f \in File :
           (shown[f] # None /\ shown'[f] # None) => shown[f].job <= shown'[f].job]_shown
  BY <1>1
<1>3. QED
  BY <1>2, Inductive, PTL DEF Spec, NeverBackwards

=============================================================================
