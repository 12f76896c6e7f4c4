-------------------------------- MODULE View --------------------------------
(***************************************************************************)
(* store.View: the file store of one project root.  It caches one parse    *)
(* per file, the include edges those parses resolved to, and the reverse   *)
(* edges.  Any number of goroutines parse, update and evict concurrently;  *)
(* a parse reads its file and probes the include candidates WITHOUT the    *)
(* view's lock and may only be cached if the generation counter did not    *)
(* move in between.                                                        *)
(*                                                                         *)
(* Each step below is one critical section, or one access to the file      *)
(* source, of store/view.go.  The text of a file is abstracted to the set  *)
(* of include paths it names, plus a version that tells two texts apart.   *)
(***************************************************************************)
EXTENDS Naturals, Sequences, FiniteSets

CONSTANTS
  File,         \* the URIs
  Name,         \* the include path texts a file may contain
  Candidates,   \* Candidates[<<f, n>>]: the locations probed for n from f
  Task,         \* the goroutines that call into the view
  Cancellable,  \* those serving an editor request, which can be cancelled
  Batches,      \* the sets of files one Update is called with
  Evictions,    \* the sets of files one Evict is called with
  Writable,     \* the files that are written
  Starts,       \* the texts the files may have at first
  MaxWrites,    \* bound: how often a file is written
  MaxGen,       \* bound: how often the view is updated or evicted from
  Absent,       \* the text of a file that does not exist
  NoFile,       \* a call that works on no file
  NoParse,      \* a file whose entry holds no parse
  Unguarded     \* a Parse whose context carries no generation

Document == SUBSET Name

Parse ==
  [version : Nat, text : Document, edges : SUBSET File, since : Nat]

ASSUME CandidatesAssumption ==
  Candidates \in [File \X Name -> Seq(File) \ {<<>>}]
ASSUME StartsAssumption == Starts \subseteq [File -> {Absent} \cup Document]
ASSUME BatchesAssumption ==
  /\ Batches \subseteq (SUBSET File) \ {{}}
  /\ Evictions \subseteq SUBSET File
  /\ Writable \subseteq File
ASSUME SentinelAssumption ==
  /\ \A text \in Document : text # Absent
  /\ NoFile \notin File
  /\ NoParse \notin Parse
  /\ Unguarded \notin Nat

VARIABLES
  writes,     \* how often a file was written, which numbers the versions
  source,     \* what ReadFile and Exists see: the overlay, or else the disk
  announced,  \* history: the version at the last invalidation of the file
  evictedAt,  \* history: the generation of the last Evict of the file
  known,      \* the files that have an entry
  parses,     \* the parse each entry holds
  includes,   \* the include edges
  includers,  \* the reverse edges
  gen,        \* the generation counter
  call        \* what each goroutine is doing

vars ==
  <<writes, source, announced, evictedAt, known, parses, includes, includers,
    gen, call>>
files == <<writes, source>>
cache == <<known, parses, includes, includers, gen>>
history == <<announced, evictedAt>>

(***************************************************************************)
(* A call is a Parse, or an Update, which parses its files one by one and  *)
(* then collects their dependents.                                         *)
(***************************************************************************)
Steps == {"idle", "load", "read", "resolve", "store", "next", "affected", "return"}

Call ==
  [ step      : Steps,
    file      : File \cup {NoFile},    \* the file being parsed
    guard     : Nat \cup {Unguarded},  \* the generation in the context
    seen      : Nat,                   \* the generation loaded by the Parse
    version   : Nat,                   \* what the Parse read
    text      : Document,
    todo      : SUBSET Name,           \* include paths left to resolve
    edges     : SUBSET File,           \* include paths resolved so far
    cancelled : BOOLEAN,
    changed   : SUBSET File,           \* the files of the Update
    queue     : SUBSET File,           \* those its current loop has left
    failed    : SUBSET File,           \* those that could not be read
    result    : Nat,                   \* the generation the Update produced
    affected  : SUBSET File ]

Idle ==
  [ step |-> "idle", file |-> NoFile, guard |-> Unguarded, seen |-> 0,
    version |-> 0, text |-> {}, todo |-> {}, edges |-> {},
    cancelled |-> FALSE, changed |-> {}, queue |-> {}, failed |-> {},
    result |-> 0, affected |-> {} ]

TypeOK ==
  /\ writes \in Nat
  /\ source \in [File -> [version : Nat, text : {Absent} \cup Document]]
  /\ announced \in [File -> Nat]
  /\ evictedAt \in [File -> Nat]
  /\ known \subseteq File
  /\ parses \in [File -> Parse \cup {NoParse}]
  /\ includes \in [File -> SUBSET File]
  /\ includers \in [File -> SUBSET File]
  /\ gen \in Nat
  /\ call \in [Task -> Call]

-----------------------------------------------------------------------------
(* Resolution of include paths and traversal of the include graph.         *)

Exists(f) == source[f].text # Absent

\* The nearest existing candidate, or the one next to the including file
\* when there is none.  A cancelled context finds no file.
Resolve(f, n, cancelled) ==
  LET places == Candidates[<<f, n>>]
      found  == {i \in DOMAIN places : ~cancelled /\ Exists(places[i])}
  IN  IF found = {} THEN places[1]
      ELSE places[CHOOSE i \in found : \A j \in found : i <= j]

\* Every file that reaches f over the edges: the least set closed under them.
ReachesOver(edges, f) ==
  {g \in File : \A S \in SUBSET File :
      (edges[f] \subseteq S /\ \A h \in S : edges[h] \subseteq S) => g \in S}

\* A variant that stops at the direct includers.
DirectDependents(f) == includers[f]
Dependents(f) == ReachesOver(includers, f)

-----------------------------------------------------------------------------
(* The entries without the parses of the files F, and the edges without    *)
(* their out-edges (removeEdgesLocked).                                    *)

\* A variant that leaves the old parses in place.
ParsesKept(F) == parses
ParsesWithout(F) == [f \in File |-> IF f \in F THEN NoParse ELSE parses[f]]

IncludesWithout(F) == [f \in File |-> IF f \in F THEN {} ELSE includes[f]]

\* A variant that forgets the reverse edges.
IncludersKept(F) == includers
IncludersWithout(F) ==
  [f \in File |-> includers[f] \ {u \in F : f \in includes[u]}]

(***************************************************************************)
(* The editor or another program changes a file.  The view learns of it    *)
(* from the Update or Evict that follows.                                  *)
(***************************************************************************)
Write(f, text) ==
  /\ writes < MaxWrites
  /\ writes' = writes + 1
  /\ source' = [source EXCEPT ![f] = [version |-> writes + 1, text |-> text]]
  /\ UNCHANGED <<cache, history, call>>

-----------------------------------------------------------------------------
(* View.Parse                                                              *)

\* Where a call continues when its Parse returns.
Returned(c) ==
  IF c.changed = {} THEN Idle
  ELSE [Idle EXCEPT !.step = "next", !.changed = c.changed, !.queue = c.queue,
                    !.failed = c.failed, !.result = c.result]

\* The lookup under the read lock: a cached parse is returned as it is.
Lookup(t, c) ==
  /\ call' = [call EXCEPT ![t] =
       IF parses[c.file] # NoParse THEN Returned(c) ELSE [c EXCEPT !.step = "load"]]
  /\ UNCHANGED <<files, cache, history>>

BeginParse(t, f, guard) ==
  /\ call[t].step = "idle"
  /\ guard # Unguarded => guard <= gen
  /\ Lookup(t, [Idle EXCEPT !.file = f, !.guard = guard])

LoadGeneration(t) ==
  /\ call[t].step = "load"
  /\ call' = [call EXCEPT ![t].step = "read", ![t].seen = gen]
  /\ UNCHANGED <<files, cache, history>>

Read(t) ==
  LET c == call[t] s == source[call[t].file] IN
  /\ c.step = "read"
  /\ call' = [call EXCEPT ![t] =
       IF s.text = Absent
       THEN Returned([c EXCEPT !.failed = IF c.changed = {} THEN {} ELSE @ \cup {c.file}])
       ELSE [c EXCEPT !.step = IF s.text = {} THEN "store" ELSE "resolve",
                      !.version = s.version, !.text = s.text, !.todo = s.text]]
  /\ UNCHANGED <<files, cache, history>>

\* The editor may cancel the request of an unguarded Parse at any time, which
\* shows only here: the context is asked again at each existence check.
MayBeCancelled(t) ==
  t \in Cancellable /\ call[t].guard = Unguarded /\ call[t].changed = {}

ResolveOne(t, n, cancelled) ==
  LET c == call[t] IN
  /\ c.step = "resolve"
  /\ n \in c.todo
  /\ c.cancelled => cancelled
  /\ cancelled => MayBeCancelled(t)
  /\ call' = [call EXCEPT ![t].step = IF c.todo = {n} THEN "store" ELSE "resolve",
                          ![t].todo = @ \ {n},
                          ![t].cancelled = cancelled,
                          ![t].edges = @ \cup {Resolve(c.file, n, cancelled)}]
  /\ UNCHANGED <<files, cache, history>>

\* Variant: it does not matter that the view advanced while the file was
\* being parsed.
CacheableAlways(c) == c.guard \in {Unguarded, c.seen}

\* May the parse of call c be cached?
Cacheable(c) == c.guard \in {Unguarded, c.seen} /\ gen = c.seen

Store(t) ==
  LET c == call[t] IN
  /\ c.step = "store"
  /\ Cacheable(c)
  /\ known' = known \cup {c.file}
  /\ parses' = [parses EXCEPT ![c.file] =
       [version |-> c.version, text |-> c.text, edges |-> c.edges, since |-> c.seen]]
  /\ includes' = [includes EXCEPT ![c.file] = c.edges]
  /\ includers' = [f \in File |->
       IncludersWithout({c.file})[f] \cup (IF f \in c.edges THEN {c.file} ELSE {})]
  /\ call' = [call EXCEPT ![t] = Returned(c)]
  /\ UNCHANGED <<files, gen, history>>

Discard(t) ==
  /\ call[t].step = "store"
  /\ ~Cacheable(call[t])
  /\ call' = [call EXCEPT ![t] = Returned(call[t])]
  /\ UNCHANGED <<files, cache, history>>

-----------------------------------------------------------------------------
(* View.Update and View.Evict                                              *)

Update(t, changes) ==
  /\ call[t].step = "idle"
  /\ gen < MaxGen
  /\ includes' = IncludesWithout(changes)
  /\ includers' = IncludersWithout(changes)
  /\ known' = known \cup changes
  /\ parses' = ParsesWithout(changes)
  /\ gen' = gen + 1
  /\ announced' = [f \in File |-> IF f \in changes THEN source[f].version ELSE announced[f]]
  /\ call' = [call EXCEPT ![t] = [Idle EXCEPT !.step = "next", !.changed = changes,
                                              !.queue = changes, !.result = gen + 1]]
  /\ UNCHANGED <<files, evictedAt>>

\* The eager re-parse: the order of the files does not matter.
NextFile(t, f) ==
  LET c == call[t] IN
  /\ c.step = "next"
  /\ f \in c.queue
  /\ Lookup(t, [c EXCEPT !.file = f, !.queue = @ \ {f}])

Reparsed(t) ==
  /\ call[t].step = "next"
  /\ call[t].queue = {}
  /\ call' = [call EXCEPT ![t].step = "affected", ![t].queue = call[t].changed,
                          ![t].affected = call[t].changed]
  /\ UNCHANGED <<files, cache, history>>

AddDependents(t, f) ==
  LET c == call[t] IN
  /\ c.step = "affected"
  /\ f \in c.queue
  /\ call' = [call EXCEPT ![t].queue = @ \ {f},
                          ![t].affected = @ \cup Dependents(f),
                          ![t].step = IF c.queue = {f} THEN "return" ELSE "affected"]
  /\ UNCHANGED <<files, cache, history>>

Return(t) ==
  /\ call[t].step = "return"
  /\ call' = [call EXCEPT ![t] = Idle]
  /\ UNCHANGED <<files, cache, history>>

\* One critical section.  An includer of an evicted file keeps its parse but
\* loses its edge to the file.
Evict(t, evicted) ==
  /\ call[t].step = "idle"
  /\ gen < MaxGen
  /\ includes' = [f \in File |->
       IncludesWithout(evicted)[f] \ {e \in evicted : f \in includers[e]}]
  /\ includers' = [f \in File |->
       IF f \in evicted THEN {} ELSE IncludersWithout(evicted)[f]]
  /\ known' = known \ evicted
  /\ parses' = ParsesWithout(evicted)
  /\ gen' = gen + 1
  /\ announced' = [f \in File |-> IF f \in evicted THEN source[f].version ELSE announced[f]]
  /\ evictedAt' = [f \in File |-> IF f \in evicted THEN gen + 1 ELSE evictedAt[f]]
  /\ UNCHANGED <<files, call>>

-----------------------------------------------------------------------------
Init ==
  /\ writes = 0
  /\ \E start \in Starts :
       source = [f \in File |-> [version |-> 0, text |-> start[f]]]
  /\ announced = [f \in File |-> 0]
  /\ evictedAt = [f \in File |-> 0]
  /\ known = {}
  /\ parses = [f \in File |-> NoParse]
  /\ includes = [f \in File |-> {}]
  /\ includers = [f \in File |-> {}]
  /\ gen = 0
  /\ call = [t \in Task |-> Idle]

ParseStep(t) ==
  \/ LoadGeneration(t)
  \/ Read(t)
  \/ \E n \in Name, cancelled \in BOOLEAN : ResolveOne(t, n, cancelled)
  \/ Store(t)
  \/ Discard(t)

UpdateStep(t) ==
  \/ \E f \in File : NextFile(t, f)
  \/ Reparsed(t)
  \/ \E f \in File : AddDependents(t, f)
  \/ Return(t)

Next ==
  \/ \E f \in Writable, text \in {Absent} \cup Document : Write(f, text)
  \/ \E t \in Task :
       \/ \E f \in File, guard \in 0..gen \cup {Unguarded} : BeginParse(t, f, guard)
       \/ \E batch \in Batches : Update(t, batch)
       \/ \E batch \in Evictions : Evict(t, batch)
       \/ ParseStep(t)
       \/ UpdateStep(t)

Spec == Init /\ [][Next]_vars

-----------------------------------------------------------------------------
(* Safety                                                                  *)

(***************************************************************************)
(* "A live entry never goes stale": a cached parse is never of a text      *)
(* older than the one the file had when it was last updated or evicted,    *)
(* however many parses of older texts were in flight at that moment.       *)
(***************************************************************************)
NeverStale ==
  \A f \in File : parses[f] # NoParse =>
    /\ f \in known
    /\ announced[f] <= parses[f].version
    /\ parses[f].version <= source[f].version

(***************************************************************************)
(* includers is the inverse of includes, through every interleaving of     *)
(* stores, updates and evictions, and only a file with a parse has edges.  *)
(***************************************************************************)
GraphConsistent ==
  \A f, g \in File :
    /\ g \in includes[f] <=> f \in includers[g]
    /\ g \in includes[f] => parses[f] # NoParse /\ g \in parses[f].edges

(***************************************************************************)
(* A cached parse loses an edge only to the eviction of the included file  *)
(* after it was parsed: nothing else separates the graph from the parses.  *)
(***************************************************************************)
EdgesLostOnlyToEvict ==
  \A f, g \in File :
    (parses[f] # NoParse /\ g \in parses[f].edges \ includes[f])
      => evictedAt[g] > parses[f].since

(***************************************************************************)
(* An Update that no later change superseded has parsed the files that it  *)
(* changed and that could be read, and its Affected files contain every    *)
(* file that reaches a changed file through files that were parsed before  *)
(* the Update or by it.                                                    *)
(***************************************************************************)
AffectedComplete ==
  \A t \in Task :
    LET c == call[t]
        settled == {f \in File : parses[f] # NoParse /\
                                 (f \in c.changed \/ parses[f].since < c.result)}
        over == [f \in File |-> includers[f] \cap settled]
    IN  (c.step = "return" /\ c.result = gen) =>
          \A f \in c.changed : /\ parses[f] = NoParse => f \in c.failed
                              /\ ReachesOver(over, f) \subseteq c.affected

(***************************************************************************)
(* The view implements a cache that may at any time be filled with any     *)
(* version of a file since its last invalidation, and nothing else: the    *)
(* Parse calls, their races and the generations are invisible.             *)
(***************************************************************************)
Cache == INSTANCE FileCache WITH
  Key <- File,
  None <- NoParse,
  version <- [f \in File |-> source[f].version],
  floor <- announced,
  cached <- [f \in File |-> IF parses[f] = NoParse THEN NoParse ELSE parses[f].version]

ImplementsCache == Cache!Spec

-----------------------------------------------------------------------------
(* Expectations the code does not meet                                     *)

(***************************************************************************)
(* "Affected holds the changed URIs first, then their transitive           *)
(* dependents": at least the files whose cached parse resolved an include  *)
(* to a changed file before the Update are affected by it.                 *)
(***************************************************************************)
AffectedReflectsChange ==
  \A t \in Task :
    LET c == call[t] IN
    (c.step = "return" /\ c.result = gen) =>
      \A f \in c.changed, g \in File :
        (parses[g] # NoParse /\ parses[g].since < c.result /\ f \in parses[g].edges)
          => g \in c.affected

(***************************************************************************)
(* While the files do not change, the include edges of a cached parse are  *)
(* the ones its include statements resolve to.                             *)
(***************************************************************************)
EdgesResolve ==
  \A f \in File : (parses[f] # NoParse /\ writes = 0) =>
    includes[f] = {Resolve(f, n, FALSE) : n \in parses[f].text}

=============================================================================
