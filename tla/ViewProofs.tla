----------------------------- MODULE ViewProofs -----------------------------
(***************************************************************************)
(* Proofs about View, for every set of files, tasks and include paths.     *)
(***************************************************************************)
EXTENDS View, WellFoundedInduction, TLAPS

(***************************************************************************)
(* The records that actions put into call are calls.                       *)
(***************************************************************************)
LEMMA IdleIsCall == Idle \in Call
  BY DEF Idle, Call, Steps, Document

LEMMA ReturnedIsCall ==
  ASSUME NEW c \in Call
  PROVE  Returned(c) \in Call
  BY IdleIsCall, ZenonT(40) DEF Returned, Idle, Call, Steps

(***************************************************************************)
(* A non-empty set of naturals has a least element.                        *)
(***************************************************************************)
LEMMA LeastNatural ==
  ASSUME NEW S, S \subseteq Nat, S # {}
  PROVE  \E i \in S : \A j \in S : i <= j
<1>1. PICK i \in S : \A j \in S : ~ (<<j, i>> \in OpToRel(<, Nat))
  BY WFMin, NatLessThanWellFounded
<1>2. ASSUME NEW j \in S PROVE i <= j
  <2>1. ~ (j < i)
    BY <1>1 DEF OpToRel
  <2>2. QED
    BY <2>1
<1>3. QED
  BY <1>2

(***************************************************************************)
(* An include path resolves to a file.                                     *)
(***************************************************************************)
LEMMA ResolveIsFile ==
  ASSUME NEW f \in File, NEW n \in Name, NEW cancelled \in BOOLEAN
  PROVE  Resolve(f, n, cancelled) \in File
<1> DEFINE places == Candidates[<<f, n>>]
           found == {i \in DOMAIN places : ~cancelled /\ Exists(places[i])}
<1>1. places \in Seq(File) /\ places # <<>>
  BY CandidatesAssumption
<1>2. DOMAIN places = 1..Len(places) /\ Len(places) \in Nat /\ Len(places) > 0
  BY <1>1
<1>3. CASE found = {}
  BY <1>1, <1>2, <1>3 DEF Resolve
<1>4. CASE found # {}
  <2> DEFINE nearest == CHOOSE i \in found : \A j \in found : i <= j
  <2>1. found \subseteq Nat
    BY <1>2
  <2>2. \E i \in found : \A j \in found : i <= j
    <3> HIDE DEF found
    <3> QED
      BY <1>4, <2>1, LeastNatural
  <2>3. nearest \in found
    <3> HIDE DEF found
    <3> QED
      BY <2>2
  <2>4. nearest \in 1..Len(places)
    BY <1>2, <2>3
  <2>5. places[nearest] \in File
    <3> HIDE DEF nearest, places
    <3> QED
      BY <1>1, <2>4
  <2>6. Resolve(f, n, cancelled) = places[nearest]
    BY <1>4, Zenon DEF Resolve
  <2>7. QED
    BY <2>5, <2>6
<1>5. QED
  BY <1>3, <1>4

-----------------------------------------------------------------------------
(* Type correctness.  A call that is parsing works on a file.              *)

Parsing == {"load", "read", "resolve", "store"}

CallOK ==
  \A t \in Task : call[t].step \in Parsing => call[t].file \in File

Typed == TypeOK /\ CallOK

LEMMA LookupTyped ==
  ASSUME Typed, NEW t \in Task, NEW c \in Call, c.file \in File, Lookup(t, c)
  PROVE  Typed'
<1>1. Returned(c) \in Call
  BY ReturnedIsCall
<1>2. [c EXCEPT !.step = "load"] \in Call
  BY DEF Call, Steps
<1>3. call' \in [Task -> Call]
  BY <1>1, <1>2 DEF Lookup, Typed, TypeOK
<1>4. TypeOK'
  BY <1>3 DEF Lookup, Typed, TypeOK, files, cache, history
<1>5. Returned(c).step \notin Parsing
  BY DEF Returned, Idle, Parsing, Call
<1>6. [c EXCEPT !.step = "load"].file = c.file
  BY DEF Call
<1>7. CallOK'
  BY <1>5, <1>6 DEF Lookup, Typed, TypeOK, CallOK
<1>8. QED
  BY <1>4, <1>7 DEF Typed

\* A step that changes nothing but one call keeps the types.
LEMMA CallStepTyped ==
  ASSUME TypeOK, NEW t \in Task, NEW c \in Call, call' = [call EXCEPT ![t] = c],
         UNCHANGED <<files, cache, history>>
  PROVE  TypeOK'
  BY DEF TypeOK, files, cache, history

LEMMA EdgesTyped ==
  ASSUME TypeOK, NEW F \in SUBSET File
  PROVE  /\ ParsesWithout(F) \in [File -> Parse \cup {NoParse}]
         /\ IncludesWithout(F) \in [File -> SUBSET File]
         /\ IncludersWithout(F) \in [File -> SUBSET File]
  BY DEF TypeOK, ParsesWithout, IncludesWithout, IncludersWithout

LEMMA NextTyped == Typed /\ [Next]_vars => Typed'
<1> SUFFICES ASSUME Typed, [Next]_vars PROVE Typed'
  OBVIOUS
<1> USE DEF Typed
<1>a. gen \in Nat /\ \A t \in Task : call[t] \in Call
  BY DEF TypeOK
<1>1. ASSUME NEW f \in Writable, NEW text \in {Absent} \cup Document, Write(f, text)
      PROVE  Typed'
  <2>1. TypeOK'
    BY <1>1, BatchesAssumption DEF Write, TypeOK, cache, history
  <2>2. QED
    BY <1>1, <2>1 DEF Write, CallOK
<1>2. ASSUME NEW t \in Task, NEW f \in File, NEW guard \in 0..gen \cup {Unguarded},
             BeginParse(t, f, guard)
      PROVE  Typed'
  <2> DEFINE c == [Idle EXCEPT !.file = f, !.guard = guard]
  <2>0. guard \in Nat \cup {Unguarded}
    BY DEF TypeOK
  <2>1. c \in Call /\ c.file = f
    BY <2>0, IdleIsCall DEF Call
  <2>2. Lookup(t, c)
    BY <1>2 DEF BeginParse
  <2> HIDE DEF c
  <2>3. QED
    BY <2>1, <2>2, LookupTyped
<1>3. ASSUME NEW t \in Task, NEW changes \in Batches, Update(t, changes)
      PROVE  Typed'
  <2>1. changes \in SUBSET File
    BY BatchesAssumption
  <2> DEFINE c == [Idle EXCEPT !.step = "next", !.changed = changes,
                               !.queue = changes, !.result = gen + 1]
  <2>0. c \in Call
    BY <1>a, <2>1, gen + 1 \in Nat, IdleIsCall DEF Call, Steps
  <2>2. call' \in [Task -> Call]
    BY <1>3, <2>0 DEF Update, TypeOK
  <2>3. TypeOK'
    BY <1>3, <2>1, <2>2, EdgesTyped DEF Update, TypeOK, files
  <2>4. CallOK'
    BY <1>3, <2>1, IdleIsCall DEF Update, TypeOK, CallOK, Parsing, Call, Idle
  <2>5. QED
    BY <2>3, <2>4
<1>4. ASSUME NEW t \in Task, NEW evicted \in Evictions, Evict(t, evicted)
      PROVE  Typed'
  <2>1. evicted \in SUBSET File
    BY BatchesAssumption
  <2>2. TypeOK'
    BY <1>4, <2>1, EdgesTyped DEF Evict, TypeOK, files
  <2>3. QED
    BY <1>4, <2>2 DEF Evict, CallOK
<1>5. ASSUME NEW t \in Task, LoadGeneration(t)
      PROVE  Typed'
  <2> DEFINE c == [call[t] EXCEPT !.step = "read", !.seen = gen]
  <2>a. c \in Call
    BY <1>a, ZenonT(40) DEF Call, Steps
  <2>b. call' = [call EXCEPT ![t] = c]
    BY <1>5 DEF LoadGeneration, TypeOK
  <2>1. TypeOK'
    BY <1>5, <2>a, <2>b, CallStepTyped DEF LoadGeneration
  <2>2. CallOK'
    BY <1>5 DEF LoadGeneration, TypeOK, CallOK, Call, Parsing
  <2>3. QED
    BY <2>1, <2>2
<1>6. ASSUME NEW t \in Task, Read(t)
      PROVE  Typed'
  <2> DEFINE c == call[t]
             s == source[c.file]
             failed == [c EXCEPT !.failed = IF c.changed = {} THEN {} ELSE @ \cup {c.file}]
             loaded == [c EXCEPT !.step = IF s.text = {} THEN "store" ELSE "resolve",
                                 !.version = s.version, !.text = s.text, !.todo = s.text]
  <2>1. c \in Call /\ c.file \in File
    BY <1>6 DEF Read, TypeOK, CallOK, Parsing
  <2>2. failed \in Call
    BY <2>1 DEF Call
  <2>3. Returned(failed) \in Call /\ Returned(failed).step \notin Parsing
    <3> HIDE DEF failed
    <3> QED
      BY <2>2, ReturnedIsCall, ZenonT(40) DEF Returned, Idle, Parsing, Call
  <2>4. s.text # Absent => loaded \in Call /\ loaded.file = c.file
    BY <2>1 DEF Call, TypeOK, Document, Steps
  <2>5. call' = [call EXCEPT ![t] = IF s.text = Absent THEN Returned(failed) ELSE loaded]
    BY <1>6 DEF Read
  <2> HIDE DEF c, s, failed, loaded
  <2>6. TypeOK'
    BY <1>6, <2>3, <2>4, <2>5 DEF Read, TypeOK, files, cache, history
  <2>7. CallOK'
    BY <2>1, <2>3, <2>4, <2>5 DEF TypeOK, CallOK
  <2>8. QED
    BY <2>6, <2>7
<1>7. ASSUME NEW t \in Task, NEW n \in Name, NEW cancelled \in BOOLEAN,
             ResolveOne(t, n, cancelled)
      PROVE  Typed'
  <2> DEFINE place == Resolve(call[t].file, n, cancelled)
  <2>1. call[t] \in Call /\ call[t].file \in File
    BY <1>7 DEF ResolveOne, TypeOK, CallOK, Parsing
  <2>2. place \in File
    BY <2>1, ResolveIsFile
  <2> DEFINE c == [call[t] EXCEPT
           !.step = IF call[t].todo = {n} THEN "store" ELSE "resolve",
           !.todo = @ \ {n}, !.cancelled = cancelled, !.edges = @ \cup {place}]
  <2>3. call' = [call EXCEPT ![t] = c]
    BY <1>7 DEF ResolveOne, TypeOK
  <2> HIDE DEF place
  <2>a. c \in Call /\ c.file = call[t].file
    BY <2>1, <2>2 DEF Call, Steps
  <2> HIDE DEF c
  <2>4. TypeOK'
    BY <1>7, <2>a, <2>3, CallStepTyped DEF ResolveOne
  <2>5. CallOK'
    BY <2>1, <2>3, <2>a DEF TypeOK, CallOK
  <2>6. QED
    BY <2>4, <2>5
<1>8. ASSUME NEW t \in Task, Store(t)
      PROVE  Typed'
  <2> DEFINE c == call[t]
  <2>1. c \in Call /\ c.file \in File
    BY <1>8 DEF Store, TypeOK, CallOK, Parsing
  <2>2. Returned(c) \in Call /\ Returned(c).step \notin Parsing
    BY <2>1, ReturnedIsCall DEF Returned, Idle, Parsing, Call
  <2>3. [version |-> c.version, text |-> c.text, edges |-> c.edges, since |-> c.seen]
          \in Parse
    BY <2>1 DEF Call, Parse
  <2>4. IncludersWithout({c.file}) \in [File -> SUBSET File]
    BY <2>1, EdgesTyped
  <2>5. TypeOK'
    BY <1>8, <2>1, <2>2, <2>3, <2>4 DEF Store, TypeOK, Call, files, history
  <2>6. CallOK'
    BY <1>8, <2>2 DEF Store, TypeOK, CallOK
  <2>7. QED
    BY <2>5, <2>6
<1>9. ASSUME NEW t \in Task, Discard(t)
      PROVE  Typed'
  <2>1. Returned(call[t]) \in Call /\ Returned(call[t]).step \notin Parsing
    BY ReturnedIsCall DEF Returned, Idle, Parsing, Call, TypeOK
  <2>2. TypeOK'
    BY <1>9, <2>1 DEF Discard, TypeOK, files, cache, history
  <2>3. CallOK'
    BY <1>9, <2>1 DEF Discard, TypeOK, CallOK
  <2>4. QED
    BY <2>2, <2>3
<1>10. ASSUME NEW t \in Task, NEW f \in File, NextFile(t, f)
       PROVE  Typed'
  <2> DEFINE c == [call[t] EXCEPT !.file = f, !.queue = @ \ {f}]
  <2>1. c \in Call /\ c.file = f
    BY ZenonT(60) DEF TypeOK, Call
  <2>2. Lookup(t, c)
    BY <1>10 DEF NextFile
  <2> HIDE DEF c
  <2>3. QED
    BY <2>1, <2>2, LookupTyped
<1>11. ASSUME NEW t \in Task, Reparsed(t)
       PROVE  Typed'
  <2> DEFINE c == [call[t] EXCEPT !.step = "affected", !.queue = call[t].changed,
                                  !.affected = call[t].changed]
  <2>a. c \in Call
    BY <1>a, ZenonT(40) DEF Call, Steps
  <2>b. call' = [call EXCEPT ![t] = c]
    BY <1>11 DEF Reparsed, TypeOK
  <2>1. TypeOK'
    BY <1>11, <2>a, <2>b, CallStepTyped DEF Reparsed
  <2>2. CallOK'
    BY <1>11 DEF Reparsed, TypeOK, CallOK, Call, Parsing
  <2>3. QED
    BY <2>1, <2>2
<1>12. ASSUME NEW t \in Task, NEW f \in File, AddDependents(t, f)
       PROVE  Typed'
  <2>1. Dependents(f) \in SUBSET File
    BY DEF Dependents, ReachesOver
  <2> DEFINE c == [call[t] EXCEPT
           !.queue = @ \ {f}, !.affected = @ \cup Dependents(f),
           !.step = IF call[t].queue = {f} THEN "return" ELSE "affected"]
  <2>2. call' = [call EXCEPT ![t] = c]
    BY <1>12 DEF AddDependents, TypeOK
  <2>a. c \in Call /\ c.step \notin Parsing
    BY <1>a, <2>1, ZenonT(60) DEF Call, Steps, Parsing
  <2> HIDE DEF c
  <2>3. TypeOK'
    BY <1>12, <2>a, <2>2, CallStepTyped DEF AddDependents
  <2>4. CallOK'
    BY <2>2, <2>a DEF TypeOK, CallOK
  <2>5. QED
    BY <2>3, <2>4
<1>13. ASSUME NEW t \in Task, Return(t)
       PROVE  Typed'
  BY <1>13, IdleIsCall
     DEF Return, TypeOK, CallOK, Idle, Parsing, files, cache, history
<1>14. CASE UNCHANGED vars
  BY <1>14 DEF vars, TypeOK, CallOK
<1>15. QED
  BY <1>1, <1>2, <1>3, <1>4, <1>5, <1>6, <1>7, <1>8, <1>9, <1>10, <1>11, <1>12,
     <1>13, <1>14 DEF Next, ParseStep, UpdateStep

(***************************************************************************)
(* TypeOK is an invariant.                                                 *)
(***************************************************************************)
THEOREM TypeCorrect == Spec => []Typed
<1>1. Init => Typed
  <2> SUFFICES ASSUME Init PROVE Typed
    OBVIOUS
  <2>1. source \in [File -> [version : Nat, text : {Absent} \cup Document]]
    BY StartsAssumption DEF Init
  <2>2. TypeOK
    BY <2>1, IdleIsCall DEF Init, TypeOK
  <2>3. CallOK
    BY DEF Init, CallOK, Idle, Parsing
  <2>4. QED
    BY <2>2, <2>3 DEF Typed
<1>2. QED
  BY <1>1, NextTyped, PTL DEF Spec

THEOREM ViewTypeOK == Spec => []TypeOK
  BY TypeCorrect, PTL DEF Typed

-----------------------------------------------------------------------------
(***************************************************************************)
(* No stale parse is ever cached.  NeverStale is not inductive: a parse    *)
(* that is about to be cached must not be older than the last invalidation *)
(* of its file either, and this holds as long as the generation it loaded  *)
(* before it read the file is still the view's.                            *)
(***************************************************************************)
CallFresh(c) ==
  /\ c.step \in {"read", "resolve", "store"} => c.seen <= gen
  /\ c.step \in {"resolve", "store"} =>
       /\ c.version <= source[c.file].version
       /\ c.seen = gen => announced[c.file] <= c.version

Versions ==
  \A f \in File : announced[f] <= source[f].version /\ source[f].version <= writes

Fresh == NeverStale /\ Versions /\ \A t \in Task : CallFresh(call[t])

\* Outside a Parse a call is fresh.
LEMMA ReturnedFresh ==
  ASSUME NEW c \in Call
  PROVE  CallFresh(Returned(c)) /\ CallFresh(Idle)
  BY DEF CallFresh, Returned, Idle, Call

\* A step that changes nothing but one call has only that call to care for.
LEMMA CallStepFresh ==
  ASSUME Typed, Fresh, NEW t \in Task, NEW c \in Call, CallFresh(c),
         call' = [call EXCEPT ![t] = c], UNCHANGED <<files, cache, history>>
  PROVE  Fresh'
  BY DEF Typed, TypeOK, Fresh, NeverStale, Versions, CallFresh, files, cache, history

\* A step that advances the generation and drops the parses of F.
LEMMA InvalidationFresh ==
  ASSUME Typed, Fresh, NEW F \in SUBSET File,
         gen' = gen + 1,
         parses' = ParsesWithout(F),
         \A f \in known' \cup known : f \notin F => (f \in known' <=> f \in known),
         announced' = [f \in File |-> IF f \in F THEN source[f].version ELSE announced[f]],
         \A t \in Task : \/ call'[t] = call[t]
                         \/ call'[t].step \notin {"read", "resolve", "store"},
         UNCHANGED files
  PROVE  Fresh'
<1>1. /\ gen \in Nat
      /\ \A f \in File : announced[f] \in Nat /\ source[f].version \in Nat
      /\ \A t \in Task : call[t].seen \in Nat
  BY DEF Typed, TypeOK, Call
<1>2. NeverStale'
  BY <1>1 DEF Typed, TypeOK, Fresh, NeverStale, Versions, ParsesWithout, files
<1>3. Versions'
  BY <1>1 DEF Fresh, Versions, files
<1>4. ASSUME NEW t \in Task PROVE CallFresh(call[t])'
  <2>1. CASE call'[t] = call[t]
    BY <1>1, <2>1 DEF Typed, CallOK, Parsing, Fresh, CallFresh, files
  <2>2. CASE call'[t].step \notin {"read", "resolve", "store"}
    BY <2>2 DEF CallFresh
  <2>3. QED
    BY <2>1, <2>2
<1>5. QED
  BY <1>2, <1>3, <1>4 DEF Fresh

LEMMA LookupFresh ==
  ASSUME Typed, Fresh, NEW t \in Task, NEW c \in Call, Lookup(t, c)
  PROVE  Fresh'
<1> DEFINE next == IF parses[c.file] # NoParse THEN Returned(c)
                   ELSE [c EXCEPT !.step = "load"]
<1>1. next \in Call
  BY ReturnedIsCall DEF Call, Steps
<1>2. CallFresh(next)
  BY ReturnedFresh DEF CallFresh, Call
<1>3. call' = [call EXCEPT ![t] = next] /\ UNCHANGED <<files, cache, history>>
  BY DEF Lookup
<1> HIDE DEF next
<1>4. QED
  BY <1>1, <1>2, <1>3, CallStepFresh

LEMMA NextFresh == Typed /\ Fresh /\ [Next]_vars => Fresh'
<1> SUFFICES ASSUME Typed, Fresh, [Next]_vars PROVE Fresh'
  OBVIOUS
<1>a. /\ gen \in Nat
      /\ \A f \in File : announced[f] \in Nat /\ source[f].version \in Nat
      /\ \A t \in Task : call[t] \in Call /\ CallFresh(call[t])
      /\ \A t \in Task : call[t].step \in Parsing => call[t].file \in File
  BY DEF Typed, TypeOK, CallOK, Fresh
<1>1. ASSUME NEW f \in Writable, NEW text \in {Absent} \cup Document, Write(f, text)
      PROVE  Fresh'
  <2>1. \A g \in File : source[g].version <= source'[g].version /\ source'[g].version <= writes'
    BY <1>1, <1>a, BatchesAssumption DEF Write, Typed, TypeOK, Fresh, Versions
  <2>2. \A g \in File : source'[g].version \in Nat
    BY <1>1, <1>a, BatchesAssumption DEF Write, Typed, TypeOK
  <2>3. NeverStale' /\ Versions'
    BY <1>1, <1>a, <2>1, <2>2
       DEF Write, Typed, TypeOK, Parse, Fresh, NeverStale, Versions, cache, history
  <2>4. ASSUME NEW t \in Task PROVE CallFresh(call[t])'
    <3>1. call'[t] = call[t] /\ gen' = gen /\ announced' = announced
      BY <1>1 DEF Write, cache, history
    <3>2. call[t].version \in Nat
      BY <1>a DEF Call
    <3>3. QED
      BY <1>a, <2>1, <2>2, <3>1, <3>2 DEF CallFresh, Parsing
  <2>5. QED
    BY <2>3, <2>4 DEF Fresh
<1>2. ASSUME NEW t \in Task, NEW f \in File, NEW guard \in 0..gen \cup {Unguarded},
             BeginParse(t, f, guard)
      PROVE  Fresh'
  <2> DEFINE c == [Idle EXCEPT !.file = f, !.guard = guard]
  <2>1. c \in Call
    BY <1>a, guard \in Nat \cup {Unguarded}, IdleIsCall DEF Call
  <2>2. Lookup(t, c)
    BY <1>2 DEF BeginParse
  <2> HIDE DEF c
  <2>3. QED
    BY <2>1, <2>2, LookupFresh
<1>3. ASSUME NEW t \in Task, NEW changes \in Batches, Update(t, changes)
      PROVE  Fresh'
  <2>1. changes \in SUBSET File
    BY BatchesAssumption
  <2>2. \A u \in Task : \/ call'[u] = call[u]
                        \/ call'[u].step \notin {"read", "resolve", "store"}
    BY <1>3 DEF Update, Typed, TypeOK, Idle
  <2>3. QED
    BY <1>3, <2>1, <2>2, InvalidationFresh DEF Update
<1>4. ASSUME NEW t \in Task, NEW evicted \in Evictions, Evict(t, evicted)
      PROVE  Fresh'
  <2>1. evicted \in SUBSET File
    BY BatchesAssumption
  <2>2. UNCHANGED files /\ \A u \in Task : call'[u] = call[u]
    BY <1>4 DEF Evict
  <2>3. QED
    BY <1>4, <2>1, <2>2, InvalidationFresh DEF Evict
<1>5. ASSUME NEW t \in Task, LoadGeneration(t)
      PROVE  Fresh'
  <2> DEFINE c == [call[t] EXCEPT !.step = "read", !.seen = gen]
  <2>1. c \in Call /\ CallFresh(c)
    <3>1. c \in Call /\ c.step = "read" /\ c.seen = gen
      BY <1>a, ZenonT(40) DEF Call, Steps
    <3>2. QED
      BY <1>a, <3>1 DEF CallFresh
  <2>2. call' = [call EXCEPT ![t] = c] /\ UNCHANGED <<files, cache, history>>
    BY <1>5 DEF LoadGeneration, Typed, TypeOK
  <2> HIDE DEF c
  <2>3. QED
    BY <2>1, <2>2, CallStepFresh
<1>6. ASSUME NEW t \in Task, Read(t)
      PROVE  Fresh'
  <2> DEFINE s == source[call[t].file]
             failed == [call[t] EXCEPT
               !.failed = IF call[t].changed = {} THEN {} ELSE @ \cup {call[t].file}]
             loaded == [call[t] EXCEPT
               !.step = IF s.text = {} THEN "store" ELSE "resolve",
               !.version = s.version, !.text = s.text, !.todo = s.text]
             next == IF s.text = Absent THEN Returned(failed) ELSE loaded
  <2>1. call[t].file \in File /\ call[t].seen <= gen
    BY <1>6, <1>a DEF Read, Parsing, CallFresh
  <2>2. failed \in Call
    BY <1>a, <2>1 DEF Call
  <2>3. Returned(failed) \in Call /\ CallFresh(Returned(failed))
    <3> HIDE DEF failed
    <3> QED
      BY <2>2, ReturnedIsCall, ReturnedFresh
  <2>0. s.version \in Nat /\ s.text \in {Absent} \cup Document
    BY <2>1 DEF Typed, TypeOK
  <2>4. s.text # Absent => loaded \in Call
    <3> HIDE DEF s
    <3> QED
      BY <1>a, <2>0, <2>1, ZenonT(60) DEF Call, Document, Steps
  <2>5. CallFresh(loaded)
    <3>1. /\ loaded.seen = call[t].seen /\ loaded.file = call[t].file
          /\ loaded.version = s.version /\ loaded.step \in {"resolve", "store"}
      BY <1>a DEF Call
    <3>2. announced[call[t].file] <= s.version /\ s.version <= s.version
      BY <1>a, <2>1 DEF Fresh, Versions
    <3> HIDE DEF loaded
    <3>3. QED
      BY <2>1, <3>1, <3>2 DEF CallFresh
  <2>6. call' = [call EXCEPT ![t] = next] /\ UNCHANGED <<files, cache, history>>
    BY <1>6 DEF Read
  <2> HIDE DEF s, failed, loaded
  <2>7. QED
    BY <2>3, <2>4, <2>5, <2>6, CallStepFresh
<1>7. ASSUME NEW t \in Task, NEW n \in Name, NEW cancelled \in BOOLEAN,
             ResolveOne(t, n, cancelled)
      PROVE  Fresh'
  <2> DEFINE place == Resolve(call[t].file, n, cancelled)
             c == [call[t] EXCEPT
               !.step = IF call[t].todo = {n} THEN "store" ELSE "resolve",
               !.todo = @ \ {n}, !.cancelled = cancelled, !.edges = @ \cup {place}]
  <2>1. place \in File
    BY <1>7, <1>a, ResolveIsFile DEF ResolveOne, Parsing
  <2>2. call' = [call EXCEPT ![t] = c] /\ UNCHANGED <<files, cache, history>>
    BY <1>7 DEF ResolveOne, Typed, TypeOK
  <2> HIDE DEF place
  <2>3. c \in Call
    BY <1>a, <2>1, ZenonT(60) DEF Call, Steps
  <2>4. CallFresh(c)
    <3>1. /\ c.seen = call[t].seen /\ c.file = call[t].file
          /\ c.version = call[t].version
      BY <1>a DEF Call
    <3>2. call[t].step = "resolve" /\ CallFresh(call[t])
      BY <1>7, <1>a DEF ResolveOne
    <3> HIDE DEF c
    <3>3. QED
      BY <3>1, <3>2 DEF CallFresh
  <2> HIDE DEF c
  <2>5. QED
    BY <2>2, <2>3, <2>4, CallStepFresh
<1>8. ASSUME NEW t \in Task, Store(t)
      PROVE  Fresh'
  <2> DEFINE c == call[t]
  <2>1. /\ c \in Call /\ c.file \in File
        /\ announced[c.file] <= c.version /\ c.version <= source[c.file].version
    BY <1>8, <1>a DEF Store, Cacheable, CallFresh, Parsing
  <2>2. NeverStale'
    BY <1>8, <2>1 DEF Store, Typed, TypeOK, Fresh, NeverStale, files, history
  <2>3. Versions'
    BY <1>8 DEF Store, Fresh, Versions, files, history
  <2>4. \A u \in Task : CallFresh(call[u])'
    BY <1>8, <1>a, ReturnedFresh DEF Store, Typed, TypeOK, CallFresh, files, history
  <2>5. QED
    BY <2>2, <2>3, <2>4 DEF Fresh
<1>9. ASSUME NEW t \in Task, Discard(t)
      PROVE  Fresh'
  <2>1. Returned(call[t]) \in Call /\ CallFresh(Returned(call[t]))
    BY <1>a, ReturnedIsCall, ReturnedFresh
  <2>2. QED
    BY <1>9, <2>1, CallStepFresh DEF Discard
<1>10. ASSUME NEW t \in Task, NEW f \in File, NextFile(t, f)
       PROVE  Fresh'
  <2> DEFINE c == [call[t] EXCEPT !.file = f, !.queue = @ \ {f}]
  <2>1. c \in Call
    BY <1>a DEF Call
  <2>2. Lookup(t, c)
    BY <1>10 DEF NextFile
  <2> HIDE DEF c
  <2>3. QED
    BY <2>1, <2>2, LookupFresh
<1>11. ASSUME NEW t \in Task, Reparsed(t)
       PROVE  Fresh'
  <2> DEFINE c == [call[t] EXCEPT !.step = "affected", !.queue = call[t].changed,
                                  !.affected = call[t].changed]
  <2>1. c \in Call /\ CallFresh(c)
    BY <1>a, ZenonT(60) DEF Call, Steps, CallFresh
  <2>2. call' = [call EXCEPT ![t] = c] /\ UNCHANGED <<files, cache, history>>
    BY <1>11 DEF Reparsed, Typed, TypeOK
  <2> HIDE DEF c
  <2>3. QED
    BY <2>1, <2>2, CallStepFresh
<1>12. ASSUME NEW t \in Task, NEW f \in File, AddDependents(t, f)
       PROVE  Fresh'
  <2>1. Dependents(f) \in SUBSET File
    BY DEF Dependents, ReachesOver
  <2> DEFINE c == [call[t] EXCEPT
           !.queue = @ \ {f}, !.affected = @ \cup Dependents(f),
           !.step = IF call[t].queue = {f} THEN "return" ELSE "affected"]
  <2>2. call' = [call EXCEPT ![t] = c] /\ UNCHANGED <<files, cache, history>>
    BY <1>12 DEF AddDependents, Typed, TypeOK
  <2>3. c \in Call /\ CallFresh(c)
    BY <1>a, <2>1, ZenonT(60) DEF Call, Steps, CallFresh
  <2> HIDE DEF c
  <2>4. QED
    BY <2>2, <2>3, CallStepFresh
<1>13. ASSUME NEW t \in Task, Return(t)
       PROVE  Fresh'
  BY <1>13, IdleIsCall, ReturnedFresh, <1>a, CallStepFresh DEF Return
<1>14. CASE UNCHANGED vars
  BY <1>14 DEF vars, Fresh, NeverStale, Versions, CallFresh
<1>15. QED
  BY <1>1, <1>2, <1>3, <1>4, <1>5, <1>6, <1>7, <1>8, <1>9, <1>10, <1>11, <1>12,
     <1>13, <1>14 DEF Next, ParseStep, UpdateStep

LEMMA FreshInvariant == Spec => []Fresh
<1>1. Init => Fresh
  <2> SUFFICES ASSUME Init PROVE Fresh
    OBVIOUS
  <2>1. NeverStale /\ \A t \in Task : CallFresh(call[t])
    BY DEF Init, NeverStale, CallFresh, Idle
  <2>2. Versions
    BY DEF Init, Versions
  <2>3. QED
    BY <2>1, <2>2 DEF Fresh
<1>2. QED
  BY <1>1, NextFresh, TypeCorrect, PTL DEF Spec

(***************************************************************************)
(* A live entry never goes stale.                                          *)
(***************************************************************************)
THEOREM ViewNeverStale == Spec => []NeverStale
  BY FreshInvariant, PTL DEF Fresh

-----------------------------------------------------------------------------
(***************************************************************************)
(* The include graph.  Three actions write it.                             *)
(***************************************************************************)
CacheWritten ==
  \E t \in Task :
    \/ \E changes \in Batches : Update(t, changes)
    \/ \E evicted \in Evictions : Evict(t, evicted)
    \/ Store(t)

LEMMA OthersKeepCache ==
  ASSUME [Next]_vars
  PROVE  CacheWritten \/ UNCHANGED <<cache, history>>
<1>1. ASSUME NEW t \in Task, ParseStep(t) \/ UpdateStep(t), ~ Store(t)
      PROVE  UNCHANGED <<cache, history>>
  BY <1>1, Zenon DEF ParseStep, UpdateStep, LoadGeneration, Read, ResolveOne, Discard,
     NextFile, Lookup, Reparsed, AddDependents, Return
<1>2. QED
  BY <1>1 DEF Next, CacheWritten, Write, BeginParse, Lookup, vars, cache, history

Generations ==
  \A f \in File :
    /\ evictedAt[f] <= gen
    /\ parses[f] # NoParse => parses[f].since <= gen

Edges == GraphConsistent /\ EdgesLostOnlyToEvict /\ Generations

LEMMA NextEdges == Typed /\ Edges /\ [Next]_vars => Edges'
<1> SUFFICES ASSUME Typed, Edges, [Next]_vars PROVE Edges'
  OBVIOUS
<1> USE DEF Edges
<1>a. /\ gen \in Nat
      /\ \A f \in File : evictedAt[f] \in Nat
      /\ \A f \in File : parses[f] # NoParse => parses[f] \in Parse
      /\ \A f \in File : includes[f] \subseteq File /\ includers[f] \subseteq File
  BY DEF Typed, TypeOK
<1>1. ASSUME NEW t \in Task, NEW changes \in Batches, Update(t, changes)
      PROVE  Edges'
  <2>1. changes \in SUBSET File
    BY BatchesAssumption
  <2>2. GraphConsistent'
    BY <1>1, <1>a, <2>1
       DEF Update, GraphConsistent, ParsesWithout, IncludesWithout, IncludersWithout
  <2>3. EdgesLostOnlyToEvict'
    BY <1>1, <1>a, <2>1 DEF Update, EdgesLostOnlyToEvict, ParsesWithout, IncludesWithout
  <2>4. Generations'
    BY <1>1, <1>a, <2>1 DEF Update, Generations, ParsesWithout, Parse
  <2>5. QED
    BY <2>2, <2>3, <2>4
<1>2. ASSUME NEW t \in Task, NEW evicted \in Evictions, Evict(t, evicted)
      PROVE  Edges'
  <2>1. evicted \in SUBSET File
    BY BatchesAssumption
  <2>2. GraphConsistent'
    BY <1>2, <1>a, <2>1
       DEF Evict, GraphConsistent, ParsesWithout, IncludesWithout, IncludersWithout
  <2>3. EdgesLostOnlyToEvict'
    <3> SUFFICES ASSUME NEW f \in File, NEW g \in File, parses'[f] # NoParse,
                        g \in parses'[f].edges \ includes'[f]
                 PROVE  evictedAt'[g] > parses'[f].since
      BY DEF EdgesLostOnlyToEvict
    <3>1. f \notin evicted /\ parses'[f] = parses[f] /\ parses[f].since \in Nat
      BY <1>2, <1>a, <2>1 DEF Evict, ParsesWithout, Parse
    <3>2. CASE g \in includes[f]
      <4>1. g \in evicted
        BY <1>2, <3>1, <3>2 DEF Evict, IncludesWithout
      <4>2. evictedAt'[g] = gen + 1 /\ parses[f].since <= gen
        BY <1>2, <3>1, <4>1 DEF Evict, Generations
      <4>3. QED
        BY <1>a, <3>1, <4>2
    <3>3. CASE g \notin includes[f]
      <4>1. evictedAt[g] > parses[f].since
        BY <3>1, <3>3 DEF EdgesLostOnlyToEvict
      <4>2. evictedAt'[g] \in {evictedAt[g], gen + 1} /\ parses[f].since <= gen
        BY <1>2, <3>1 DEF Evict, Generations
      <4>3. QED
        BY <1>a, <3>1, <4>1, <4>2
    <3>4. QED
      BY <3>2, <3>3
  <2>4. Generations'
    BY <1>2, <1>a, <2>1 DEF Evict, Generations, ParsesWithout, Parse
  <2>5. QED
    BY <2>2, <2>3, <2>4
<1>3. ASSUME NEW t \in Task, Store(t)
      PROVE  Edges'
  <2> DEFINE u == call[t].file
             edges == call[t].edges
  <2>1. u \in File /\ edges \subseteq File /\ call[t].seen = gen
    BY <1>3 DEF Store, Cacheable, Typed, TypeOK, CallOK, Parsing, Call
  <2>2. /\ includes' = [includes EXCEPT ![u] = edges]
        /\ \A f \in File : includers'[f] =
             (includers[f] \ {w \in {u} : f \in includes[w]})
               \cup (IF f \in edges THEN {u} ELSE {})
        /\ parses'[u] # NoParse /\ parses'[u].edges = edges /\ parses'[u].since = gen
        /\ \A f \in File : f # u => parses'[f] = parses[f]
        /\ gen' = gen /\ evictedAt' = evictedAt
    <3>1. parses'[u] = [version |-> call[t].version, text |-> call[t].text,
                        edges |-> edges, since |-> call[t].seen]
      BY <1>3, <2>1 DEF Store, Typed, TypeOK
    <3>2. parses'[u] \in Parse
      BY <3>1, <1>3 DEF Parse, Call, Typed, TypeOK, Store
    <3>3. parses'[u] # NoParse
      BY <3>2, SentinelAssumption
    <3>4. QED
      BY <1>3, <2>1, <3>1, <3>3 DEF Store, Typed, TypeOK, IncludersWithout, history
  <2> HIDE DEF u, edges
  <2>3. GraphConsistent'
    <3> SUFFICES ASSUME NEW f \in File, NEW g \in File
                 PROVE  /\ g \in includes'[f] <=> f \in includers'[g]
                        /\ g \in includes'[f] => parses'[f] # NoParse /\ g \in parses'[f].edges
      BY DEF GraphConsistent
    <3>1. g \in includes[f] <=> f \in includers[g]
      BY DEF GraphConsistent
    <3>2. g \in includes[f] => parses[f] # NoParse /\ g \in parses[f].edges
      BY DEF GraphConsistent
    <3>3. includes'[f] = IF f = u THEN edges ELSE includes[f]
      BY <2>1, <2>2 DEF Typed, TypeOK
    <3>4. QED
      BY <2>1, <2>2, <3>1, <3>2, <3>3
  <2>4. EdgesLostOnlyToEvict'
    BY <1>a, <2>1, <2>2 DEF EdgesLostOnlyToEvict, Typed, TypeOK
  <2>5. Generations'
    BY <1>a, <2>1, <2>2 DEF Generations
  <2>6. QED
    BY <2>3, <2>4, <2>5
<1>4. CASE UNCHANGED <<cache, history>>
  BY <1>4 DEF cache, history, GraphConsistent, EdgesLostOnlyToEvict, Generations
<1>5. QED
  BY <1>1, <1>2, <1>3, <1>4, OthersKeepCache DEF CacheWritten

LEMMA EdgesInvariant == Spec => []Edges
<1>1. Init => Edges
  BY DEF Init, Edges, GraphConsistent, EdgesLostOnlyToEvict, Generations
<1>2. QED
  BY <1>1, NextEdges, TypeCorrect, PTL DEF Spec

(***************************************************************************)
(* includers is the inverse of includes.                                   *)
(***************************************************************************)
THEOREM ViewGraphConsistent == Spec => []GraphConsistent
  BY EdgesInvariant, PTL DEF Edges

(***************************************************************************)
(* Only an eviction separates the graph from the cached parses.            *)
(***************************************************************************)
THEOREM ViewEdgesLostOnlyToEvict == Spec => []EdgesLostOnlyToEvict
  BY EdgesInvariant, PTL DEF Edges

-----------------------------------------------------------------------------
(***************************************************************************)
(* Reachability over include edges.                                        *)
(***************************************************************************)
\* More edges reach more files.
LEMMA ReachesMonotone ==
  ASSUME NEW few, NEW many, \A f \in File : few[f] \subseteq many[f], NEW x \in File
  PROVE  ReachesOver(few, x) \subseteq ReachesOver(many, x)
  BY DEF ReachesOver

\* What is closed under the edges and holds those of x holds all x reaches.
LEMMA ReachesWithin ==
  ASSUME NEW edges, NEW x \in File, NEW S \in SUBSET File,
         edges[x] \subseteq S, \A f \in S : edges[f] \subseteq S
  PROVE  ReachesOver(edges, x) \subseteq S
  BY DEF ReachesOver

\* The files x reaches hold the edges of x and of each other.
LEMMA ReachesClosed ==
  ASSUME NEW edges, NEW x \in File, \A f \in File : edges[f] \subseteq File
  PROVE  /\ edges[x] \subseteq ReachesOver(edges, x)
         /\ \A f \in ReachesOver(edges, x) : edges[f] \subseteq ReachesOver(edges, x)
<1>1. edges[x] \subseteq ReachesOver(edges, x)
  BY DEF ReachesOver
<1>2. ASSUME NEW f \in ReachesOver(edges, x), NEW g \in edges[f]
      PROVE  g \in ReachesOver(edges, x)
  <2>1. f \in File /\ g \in File
    BY <1>2 DEF ReachesOver
  <2>2. ASSUME NEW S \in SUBSET File,
               edges[x] \subseteq S, \A h \in S : edges[h] \subseteq S
        PROVE  g \in S
    <3>1. f \in S
      BY <1>2, <2>2 DEF ReachesOver
    <3>2. QED
      BY <1>2, <2>2, <3>1
  <2>3. QED
    BY <2>1, <2>2 DEF ReachesOver
<1>3. QED
  BY <1>1, <1>2

(***************************************************************************)
(* An Update in progress.  While its generation is the view's, each file   *)
(* it changed is parsed, could not be read or is still to be parsed: a     *)
(* parse of its own is never discarded then.  And the files whose          *)
(* dependents it has added stay complete: of the edges that parses of      *)
(* earlier generations made, none is added, since every parse stored from  *)
(* then on is of this generation.                                          *)
(***************************************************************************)
ToParse(c) ==
  IF c.step \in Parsing THEN c.queue \cup {c.file}
  ELSE IF c.step = "next" THEN c.queue ELSE {}

\* The edges made by parses from before generation n.
EarlierEdges(n) ==
  [f \in File |-> {h \in includers[f] : parses[h] # NoParse /\ parses[h].since < n}]

ParsedSoFar(c) ==
  \A f \in c.changed : parses[f] # NoParse \/ f \in c.failed \/ f \in ToParse(c)

ReachedSoFar(c) ==
  c.step \in {"affected", "return"} =>
    \A x \in c.changed \ c.queue : ReachesOver(EarlierEdges(c.result), x) \subseteq c.affected

UpdateOK(c) ==
  c.changed # {} =>
    /\ c.guard = Unguarded
    /\ c.result <= gen
    /\ c.step \in {"read", "resolve", "store"} => c.result <= c.seen
    /\ c.step = "return" => c.queue = {}
    /\ c.step \in {"affected", "return"} => c.changed \subseteq c.affected
    /\ c.result = gen => ParsedSoFar(c) /\ ReachedSoFar(c)

Updates == \A t \in Task : UpdateOK(call[t])

\* A step that leaves the cache alone, or advances the generation, or stores
\* a parse of this generation, keeps the Update of every other task.
LEMMA UpdateKept ==
  ASSUME Typed, NEW c \in Call, UpdateOK(c),
         \/ gen' = gen + 1
         \/ /\ gen' = gen
            /\ \A f \in File : parses[f] # NoParse => parses'[f] # NoParse
            /\ \A f \in File : EarlierEdges(gen)'[f] \subseteq EarlierEdges(gen)[f]
  PROVE  UpdateOK(c)'
<1>a. gen \in Nat /\ c.result \in Nat /\ c.changed \subseteq File
  BY DEF Typed, TypeOK, Call
<1> SUFFICES ASSUME c.changed # {} PROVE UpdateOK(c)'
  BY DEF UpdateOK
<1>1. CASE gen' = gen + 1
  <2>1. c.result <= gen' /\ c.result # gen'
    BY <1>a, <1>1 DEF UpdateOK
  <2>2. QED
    BY <2>1 DEF UpdateOK
<1>2. CASE /\ gen' = gen
           /\ \A f \in File : parses[f] # NoParse => parses'[f] # NoParse
           /\ \A f \in File : EarlierEdges(gen)'[f] \subseteq EarlierEdges(gen)[f]
  <2>1. ParsedSoFar(c) => ParsedSoFar(c)'
    BY <1>a, <1>2 DEF ParsedSoFar, ToParse
  <2>2. ASSUME c.result = gen, ReachedSoFar(c) PROVE ReachedSoFar(c)'
    <3> SUFFICES ASSUME c.step \in {"affected", "return"}, NEW x \in c.changed \ c.queue
                 PROVE  ReachesOver(EarlierEdges(c.result)', x) \subseteq c.affected
      BY DEF ReachedSoFar, ReachesOver
    <3>1. x \in File
      BY <1>a
    <3>2. ReachesOver(EarlierEdges(c.result), x) \subseteq c.affected
      BY <2>2 DEF ReachedSoFar
    <3>3. \A f \in File : EarlierEdges(c.result)'[f] \subseteq EarlierEdges(c.result)[f]
      BY <1>2, <2>2
    <3>4. ReachesOver(EarlierEdges(c.result)', x) \subseteq ReachesOver(EarlierEdges(c.result), x)
      BY <3>1, <3>3, ReachesMonotone
    <3>5. QED
      BY <3>2, <3>4
  <2>3. QED
    BY <1>2, <2>1, <2>2 DEF UpdateOK
<1>3. QED
  BY <1>1, <1>2

\* A step that changes nothing but one call has only that call to care for.
LEMMA CallStepUpdates ==
  ASSUME Typed, Updates, NEW t \in Task, NEW c \in Call, UpdateOK(c),
         call' = [call EXCEPT ![t] = c], UNCHANGED cache
  PROVE  Updates'
<1>1. call \in [Task -> Call]
  BY DEF Typed, TypeOK
<1>2. ASSUME NEW u \in Task PROVE UpdateOK(call[u])'
  <2>1. PICK d \in Call : d = call'[u] /\ UpdateOK(d)
    BY <1>1 DEF Updates
  <2>2. QED
    BY <2>1 DEF UpdateOK, ParsedSoFar, ReachedSoFar, EarlierEdges, cache
<1>3. QED
  BY <1>2 DEF Updates

\* A step that stores a parse or advances the generation keeps the Update of
\* each task whose call it leaves alone.
LEMMA OthersKeepUpdates ==
  ASSUME Typed, Updates, NEW u \in Task, call'[u] = call[u],
         \/ gen' = gen + 1
         \/ /\ gen' = gen
            /\ \A f \in File : parses[f] # NoParse => parses'[f] # NoParse
            /\ \A f \in File : EarlierEdges(gen)'[f] \subseteq EarlierEdges(gen)[f]
  PROVE  UpdateOK(call[u])'
<1>1. PICK c \in Call : c = call[u] /\ UpdateOK(c)
  BY DEF Typed, TypeOK, Updates
<1>2. UpdateOK(c)'
  BY <1>1, UpdateKept
<1>3. QED
  BY <1>1, <1>2 DEF UpdateOK, ParsedSoFar, ReachedSoFar

\* When a Parse of an Update returns, its file is parsed or counts as failed.
LEMMA ReturnedUpdate ==
  ASSUME Typed, NEW c \in Call, UpdateOK(c), c.step \in Parsing, NEW d,
         d.changed = c.changed, d.queue = c.queue, d.result = c.result,
         c.failed \subseteq d.failed,
         (c.changed # {} /\ c.result = gen) => parses[c.file] # NoParse \/ c.file \in d.failed
  PROVE  UpdateOK(Returned(d))
<1>1. CASE c.changed = {}
  BY <1>1 DEF Returned, Idle, UpdateOK
<1>2. CASE c.changed # {}
  <2> DEFINE r == Returned(d)
  <2>1. /\ r.step = "next" /\ r.changed = c.changed /\ r.queue = c.queue
        /\ r.failed = d.failed /\ r.result = c.result /\ r.guard = Unguarded
    BY <1>2 DEF Returned, Idle
  <2> HIDE DEF r
  <2>2. ToParse(c) = c.queue \cup {c.file} /\ ToParse(r) = c.queue
    BY <2>1 DEF ToParse, Parsing
  <2>3. c.result = gen => ParsedSoFar(r)
    BY <1>2, <2>1, <2>2 DEF UpdateOK, ParsedSoFar
  <2>4. UpdateOK(r)
    BY <1>2, <2>1, <2>3 DEF UpdateOK, ReachedSoFar
  <2>5. QED
    BY <2>4 DEF r
<1>3. QED
  BY <1>1, <1>2

LEMMA LookupUpdates ==
  ASSUME Typed, Updates, NEW t \in Task, NEW c \in Call,
         UpdateOK([c EXCEPT !.step = "load"]), Lookup(t, c)
  PROVE  Updates'
<1> DEFINE loading == [c EXCEPT !.step = "load"]
           next == IF parses[c.file] # NoParse THEN Returned(c) ELSE loading
<1>1. Returned(c) \in Call /\ loading \in Call
  BY ReturnedIsCall DEF Call, Steps
<1>2. /\ loading.step \in Parsing /\ loading.file = c.file
      /\ loading.changed = c.changed /\ loading.queue = c.queue
      /\ loading.failed = c.failed /\ loading.result = c.result
  BY DEF Call, Parsing
<1>3. call' = [call EXCEPT ![t] = next] /\ UNCHANGED cache
  BY DEF Lookup
<1>4. UpdateOK(loading)
  OBVIOUS
<1> HIDE DEF loading
<1>5. parses[c.file] # NoParse => UpdateOK(Returned(c))
  BY <1>1, <1>2, <1>4, ReturnedUpdate
<1>6. next \in Call /\ UpdateOK(next)
  BY <1>1, <1>4, <1>5
<1> HIDE DEF next
<1>7. QED
  BY <1>3, <1>6, CallStepUpdates

LEMMA NextUpdates == Typed /\ Fresh /\ Updates /\ [Next]_vars => Updates'
<1> SUFFICES ASSUME Typed, Fresh, Updates, [Next]_vars PROVE Updates'
  OBVIOUS
<1>a. /\ gen \in Nat /\ call \in [Task -> Call]
      /\ \A t \in Task : call[t] \in Call /\ UpdateOK(call[t])
      /\ \A t \in Task : call[t].step \in Parsing => call[t].file \in File
  BY DEF Typed, TypeOK, CallOK, Updates
<1>1. ASSUME NEW f \in Writable, NEW text \in {Absent} \cup Document, Write(f, text)
      PROVE  Updates'
  <2>1. UNCHANGED <<cache, call>>
    BY <1>1 DEF Write
  <2>2. QED
    BY <1>a, <2>1 DEF Updates, UpdateOK, ParsedSoFar, ReachedSoFar, EarlierEdges, cache
<1>2. ASSUME NEW t \in Task, NEW f \in File, NEW guard \in 0..gen \cup {Unguarded},
             BeginParse(t, f, guard)
      PROVE  Updates'
  <2> DEFINE c == [Idle EXCEPT !.file = f, !.guard = guard]
  <2>1. c \in Call
    BY <1>a, guard \in Nat \cup {Unguarded}, IdleIsCall DEF Call
  <2>2. UpdateOK([c EXCEPT !.step = "load"])
    BY DEF UpdateOK, Idle
  <2>3. Lookup(t, c)
    BY <1>2 DEF BeginParse
  <2> HIDE DEF c
  <2>4. QED
    BY <2>1, <2>2, <2>3, LookupUpdates
<1>3. ASSUME NEW t \in Task, NEW changes \in Batches, Update(t, changes)
      PROVE  Updates'
  <2> DEFINE c == [Idle EXCEPT !.step = "next", !.changed = changes,
                               !.queue = changes, !.result = gen + 1]
  <2>1. call' = [call EXCEPT ![t] = c] /\ gen' = gen + 1
    BY <1>3 DEF Update
  <2>2. ASSUME NEW u \in Task, u # t PROVE UpdateOK(call[u])'
    BY <1>a, <2>1, <2>2, OthersKeepUpdates
  <2>3. UpdateOK(call[t])'
    <3>1. call'[t] = c
      BY <1>a, <2>1
    <3>2. /\ c.step = "next" /\ c.changed = changes /\ c.queue = changes
          /\ c.result = gen + 1 /\ c.guard = Unguarded
      BY DEF Idle
    <3> HIDE DEF c
    <3>3. QED
      BY <1>a, <2>1, <3>1, <3>2 DEF UpdateOK, ParsedSoFar, ReachedSoFar, ToParse, Parsing
  <2>4. QED
    BY <2>2, <2>3 DEF Updates
<1>4. ASSUME NEW t \in Task, NEW evicted \in Evictions, Evict(t, evicted)
      PROVE  Updates'
  <2>1. call' = call /\ gen' = gen + 1
    BY <1>4 DEF Evict
  <2>2. QED
    BY <2>1, OthersKeepUpdates DEF Updates
<1>5. ASSUME NEW t \in Task, LoadGeneration(t)
      PROVE  Updates'
  <2> DEFINE c == [call[t] EXCEPT !.step = "read", !.seen = gen]
  <2>1. c \in Call
    BY <1>a, ZenonT(40) DEF Call, Steps
  <2>2. call' = [call EXCEPT ![t] = c] /\ UNCHANGED cache /\ call[t].step = "load"
    BY <1>5, <1>a DEF LoadGeneration
  <2>3. /\ c.step = "read" /\ c.seen = gen /\ c.file = call[t].file
        /\ c.guard = call[t].guard /\ c.changed = call[t].changed
        /\ c.queue = call[t].queue /\ c.failed = call[t].failed
        /\ c.result = call[t].result
    BY <1>a DEF Call
  <2> HIDE DEF c
  <2>4. ToParse(c) = ToParse(call[t])
    BY <2>2, <2>3 DEF ToParse, Parsing
  <2>5. UpdateOK(c)
    BY <1>a, <2>2, <2>3, <2>4 DEF UpdateOK, ParsedSoFar, ReachedSoFar
  <2>6. QED
    BY <2>1, <2>2, <2>5, CallStepUpdates
<1>6. ASSUME NEW t \in Task, Read(t)
      PROVE  Updates'
  <2> DEFINE s == source[call[t].file]
             failed == [call[t] EXCEPT
               !.failed = IF call[t].changed = {} THEN {} ELSE @ \cup {call[t].file}]
             loaded == [call[t] EXCEPT
               !.step = IF s.text = {} THEN "store" ELSE "resolve",
               !.version = s.version, !.text = s.text, !.todo = s.text]
             next == IF s.text = Absent THEN Returned(failed) ELSE loaded
  <2>1. call[t].file \in File /\ call[t].step = "read"
    BY <1>6, <1>a DEF Read, Parsing
  <2>2. failed \in Call /\ Returned(failed) \in Call
    <3>1. failed \in Call
      BY <1>a, <2>1 DEF Call
    <3> HIDE DEF failed
    <3>2. QED
      BY <3>1, ReturnedIsCall
  <2>3. s.version \in Nat /\ s.text \in {Absent} \cup Document
    BY <2>1 DEF Typed, TypeOK
  <2>4. s.text # Absent => loaded \in Call
    <3> HIDE DEF s
    <3> QED
      BY <1>a, <2>1, <2>3, ZenonT(60) DEF Call, Document, Steps
  <2>5. UpdateOK(Returned(failed))
    <3>1. CASE call[t].changed = {}
      <4>1. failed.changed = {}
        BY <1>a, <3>1 DEF Call
      <4> HIDE DEF failed
      <4>2. QED
        BY <4>1 DEF Returned, Idle, UpdateOK
    <3>2. CASE call[t].changed # {}
      <4>1. /\ failed.changed = call[t].changed /\ failed.queue = call[t].queue
            /\ failed.result = call[t].result
            /\ failed.failed = call[t].failed \cup {call[t].file}
        BY <1>a, <3>2 DEF Call
      <4> HIDE DEF failed
      <4>2. call[t].step \in Parsing
        BY <2>1 DEF Parsing
      <4>3. QED
        BY <1>a, <4>1, <4>2, ReturnedUpdate
    <3>3. QED
      BY <3>1, <3>2
  <2>6. UpdateOK(loaded)
    <3>1. /\ loaded.step \in {"resolve", "store"} /\ loaded.seen = call[t].seen
          /\ loaded.file = call[t].file
          /\ loaded.guard = call[t].guard /\ loaded.changed = call[t].changed
          /\ loaded.queue = call[t].queue /\ loaded.failed = call[t].failed
          /\ loaded.result = call[t].result
      BY <1>a DEF Call
    <3> HIDE DEF loaded
    <3>2. ToParse(loaded) = ToParse(call[t])
      BY <2>1, <3>1 DEF ToParse, Parsing
    <3>3. QED
      BY <1>a, <2>1, <3>1, <3>2 DEF UpdateOK, ParsedSoFar, ReachedSoFar
  <2>7. call' = [call EXCEPT ![t] = next] /\ UNCHANGED cache
    BY <1>6 DEF Read
  <2> HIDE DEF s, failed, loaded
  <2>8. next \in Call /\ UpdateOK(next)
    BY <2>2, <2>4, <2>5, <2>6
  <2> HIDE DEF next
  <2>9. QED
    BY <2>7, <2>8, CallStepUpdates
<1>7. ASSUME NEW t \in Task, NEW n \in Name, NEW cancelled \in BOOLEAN,
             ResolveOne(t, n, cancelled)
      PROVE  Updates'
  <2> DEFINE place == Resolve(call[t].file, n, cancelled)
             c == [call[t] EXCEPT
               !.step = IF call[t].todo = {n} THEN "store" ELSE "resolve",
               !.todo = @ \ {n}, !.cancelled = cancelled, !.edges = @ \cup {place}]
  <2>1. place \in File
    BY <1>7, <1>a, ResolveIsFile DEF ResolveOne, Parsing
  <2>2. /\ call' = [call EXCEPT ![t] = c] /\ UNCHANGED cache
        /\ call[t].step = "resolve"
    BY <1>7, <1>a DEF ResolveOne
  <2> HIDE DEF place
  <2>3. c \in Call
    BY <1>a, <2>1, ZenonT(60) DEF Call, Steps
  <2>4. /\ c.step \in {"resolve", "store"} /\ c.seen = call[t].seen
        /\ c.file = call[t].file
        /\ c.guard = call[t].guard /\ c.changed = call[t].changed
        /\ c.queue = call[t].queue /\ c.failed = call[t].failed
        /\ c.result = call[t].result
    BY <1>a DEF Call
  <2> HIDE DEF c
  <2>5. ToParse(c) = ToParse(call[t])
    BY <2>2, <2>4 DEF ToParse, Parsing
  <2>6. UpdateOK(c)
    BY <1>a, <2>2, <2>4, <2>5 DEF UpdateOK, ParsedSoFar, ReachedSoFar
  <2>7. QED
    BY <2>2, <2>3, <2>6, CallStepUpdates
<1>8. ASSUME NEW t \in Task, Store(t)
      PROVE  Updates'
  <2> DEFINE c == call[t]
  <2>1. c \in Call /\ c.file \in File /\ c.step = "store" /\ c.seen = gen /\ UpdateOK(c)
    BY <1>8, <1>a DEF Store, Cacheable, Parsing
  <2>2. /\ call' = [call EXCEPT ![t] = Returned(c)] /\ gen' = gen
        /\ parses' = [parses EXCEPT ![c.file] = parses'[c.file]]
        /\ parses'[c.file] = [version |-> c.version, text |-> c.text,
                              edges |-> c.edges, since |-> c.seen]
        /\ \A f \in File : includers'[f] \subseteq includers[f] \cup {c.file}
    BY <1>8, <2>1 DEF Store, Typed, TypeOK, IncludersWithout
  <2>3. parses'[c.file] # NoParse /\ parses'[c.file].since = gen
    <3>1. parses'[c.file] \in Parse
      BY <2>1, <2>2 DEF Parse, Call
    <3>2. QED
      BY <2>1, <2>2, <3>1, SentinelAssumption
  <2>4. \A f \in File : f # c.file => parses'[f] = parses[f]
    BY <2>1, <2>2 DEF Typed, TypeOK
  <2>5. \A f \in File : parses[f] # NoParse => parses'[f] # NoParse
    BY <2>3, <2>4
  <2>6. \A f \in File : EarlierEdges(gen)'[f] \subseteq EarlierEdges(gen)[f]
    <3> SUFFICES ASSUME NEW f \in File, NEW h \in includers'[f],
                        parses'[h] # NoParse, parses'[h].since < gen
                 PROVE  h \in includers[f] /\ parses[h] # NoParse /\ parses[h].since < gen
      BY <2>2 DEF EarlierEdges
    <3>1. h # c.file
      BY <1>a, <2>3
    <3>2. h \in includers[f] /\ h \in File
      BY <2>2, <3>1 DEF Typed, TypeOK
    <3>3. QED
      BY <2>4, <3>1, <3>2
  <2>7. ASSUME NEW u \in Task, u # t PROVE UpdateOK(call[u])'
    <3>1. call'[u] = call[u]
      BY <1>a, <2>2, <2>7
    <3>2. QED
      BY <2>2, <2>5, <2>6, <3>1, OthersKeepUpdates
  <2>8. UpdateOK(call[t])'
    <3>1. call'[t] = Returned(c)
      BY <1>a, <2>2
    <3>2. CASE c.changed = {}
      BY <3>1, <3>2 DEF Returned, Idle, UpdateOK
    <3>3. CASE c.changed # {}
      <4> DEFINE r == Returned(c)
      <4>1. /\ r.step = "next" /\ r.changed = c.changed /\ r.queue = c.queue
            /\ r.failed = c.failed /\ r.result = c.result /\ r.guard = Unguarded
        BY <3>3 DEF Returned, Idle
      <4>2. call'[t] = r
        BY <3>1
      <4> HIDE DEF r
      <4>3. ToParse(c) = c.queue \cup {c.file} /\ ToParse(r) = c.queue
        BY <2>1, <4>1 DEF ToParse, Parsing
      <4>4. ASSUME c.result = gen, NEW f \in c.changed
            PROVE  parses'[f] # NoParse \/ f \in r.failed \/ f \in ToParse(r)
        <5>1. parses[f] # NoParse \/ f \in c.failed \/ f \in c.queue \/ f = c.file
          BY <2>1, <3>3, <4>3, <4>4 DEF UpdateOK, ParsedSoFar
        <5>2. f \in File
          BY <2>1 DEF Call
        <5>3. QED
          BY <2>3, <2>5, <4>1, <4>3, <5>1, <5>2
      <4>5. c.result <= gen
        BY <2>1, <3>3 DEF UpdateOK
      <4> HIDE DEF c
      <4>6. QED
        BY <2>2, <4>1, <4>2, <4>4, <4>5 DEF UpdateOK, ParsedSoFar, ReachedSoFar, ToParse
    <3>4. QED
      BY <3>2, <3>3
  <2>9. QED
    BY <2>7, <2>8 DEF Updates
<1>9. ASSUME NEW t \in Task, Discard(t)
      PROVE  Updates'
  <2>1. /\ call[t].step = "store" /\ ~Cacheable(call[t])
        /\ call' = [call EXCEPT ![t] = Returned(call[t])] /\ UNCHANGED cache
    BY <1>9 DEF Discard
  <2>2. ~ (call[t].changed # {} /\ call[t].result = gen)
    <3>1. call[t].seen <= gen /\ call[t].seen \in Nat
      BY <1>a, <2>1 DEF Fresh, CallFresh, Call
    <3>2. QED
      BY <1>a, <2>1, <3>1 DEF UpdateOK, Cacheable
  <2>3. call[t].step \in Parsing
    BY <2>1 DEF Parsing
  <2>4. UpdateOK(Returned(call[t]))
    BY <1>a, <2>2, <2>3, ReturnedUpdate
  <2>5. QED
    BY <1>a, <2>1, <2>4, ReturnedIsCall, CallStepUpdates
<1>10. ASSUME NEW t \in Task, NEW f \in File, NextFile(t, f)
       PROVE  Updates'
  <2> DEFINE c == [call[t] EXCEPT !.file = f, !.queue = @ \ {f}]
             d == [c EXCEPT !.step = "load"]
  <2>1. c \in Call
    BY <1>a DEF Call
  <2>2. Lookup(t, c) /\ call[t].step = "next"
    BY <1>10 DEF NextFile
  <2>3. /\ d.step = "load" /\ d.file = f /\ d.guard = call[t].guard
        /\ d.changed = call[t].changed /\ d.queue = call[t].queue \ {f}
        /\ d.failed = call[t].failed /\ d.result = call[t].result
    BY <1>a DEF Call
  <2>4. UpdateOK(d)
    <3> HIDE DEF d
    <3>1. ToParse(call[t]) \subseteq ToParse(d)
      BY <2>2, <2>3 DEF ToParse, Parsing
    <3>2. QED
      BY <1>a, <2>2, <2>3, <3>1 DEF UpdateOK, ParsedSoFar, ReachedSoFar
  <2> HIDE DEF c
  <2>5. QED
    BY <2>1, <2>2, <2>4, LookupUpdates
<1>11. ASSUME NEW t \in Task, Reparsed(t)
       PROVE  Updates'
  <2> DEFINE c == [call[t] EXCEPT !.step = "affected", !.queue = call[t].changed,
                                  !.affected = call[t].changed]
  <2>1. c \in Call
    BY <1>a, ZenonT(60) DEF Call, Steps
  <2>2. /\ call' = [call EXCEPT ![t] = c] /\ UNCHANGED cache
        /\ call[t].step = "next" /\ call[t].queue = {}
    BY <1>11, <1>a DEF Reparsed
  <2>3. /\ c.step = "affected" /\ c.guard = call[t].guard
        /\ c.changed = call[t].changed /\ c.queue = call[t].changed
        /\ c.affected = call[t].changed
        /\ c.failed = call[t].failed /\ c.result = call[t].result
    BY <1>a DEF Call
  <2> HIDE DEF c
  <2>4. ToParse(call[t]) = {}
    BY <2>2 DEF ToParse, Parsing
  <2>5. UpdateOK(c)
    BY <1>a, <2>2, <2>3, <2>4 DEF UpdateOK, ParsedSoFar, ReachedSoFar
  <2>6. QED
    BY <2>1, <2>2, <2>5, CallStepUpdates
<1>12. ASSUME NEW t \in Task, NEW f \in File, AddDependents(t, f)
       PROVE  Updates'
  <2> DEFINE added == Dependents(f)
             c == [call[t] EXCEPT
           !.queue = @ \ {f}, !.affected = @ \cup added,
           !.step = IF call[t].queue = {f} THEN "return" ELSE "affected"]
  <2>1. added \in SUBSET File
    BY DEF Dependents, ReachesOver
  <2>2. /\ call' = [call EXCEPT ![t] = c] /\ UNCHANGED cache
        /\ call[t].step = "affected"
    BY <1>12, <1>a DEF AddDependents
  <2> HIDE DEF added
  <2>3. c \in Call
    BY <1>a, <2>1, ZenonT(60) DEF Call, Steps
  <2>4. /\ c.step = (IF call[t].queue = {f} THEN "return" ELSE "affected")
        /\ c.guard = call[t].guard
        /\ c.changed = call[t].changed /\ c.queue = call[t].queue \ {f}
        /\ c.affected = call[t].affected \cup added
        /\ c.failed = call[t].failed /\ c.result = call[t].result
    BY <1>a DEF Call
  <2> HIDE DEF c
  <2>5. ToParse(call[t]) = {}
    BY <2>2 DEF ToParse, Parsing
  <2>6. ReachesOver(EarlierEdges(call[t].result), f) \subseteq added
    BY ReachesMonotone DEF EarlierEdges, Dependents, added
  <2>7. ReachedSoFar(call[t]) => ReachedSoFar(c)
    BY <2>2, <2>4, <2>6 DEF ReachedSoFar
  <2>8. ParsedSoFar(call[t]) => ParsedSoFar(c)
    BY <2>4, <2>5 DEF ParsedSoFar
  <2>9. UpdateOK(c)
    BY <1>a, <2>2, <2>4, <2>7, <2>8 DEF UpdateOK
  <2>10. QED
    BY <2>2, <2>3, <2>9, CallStepUpdates
<1>13. ASSUME NEW t \in Task, Return(t)
       PROVE  Updates'
  <2>1. UpdateOK(Idle)
    BY DEF UpdateOK, Idle
  <2>2. QED
    BY <1>13, <2>1, IdleIsCall, CallStepUpdates DEF Return
<1>14. CASE UNCHANGED vars
  BY <1>14 DEF vars, Updates, UpdateOK, ParsedSoFar, ReachedSoFar, EarlierEdges
<1>15. QED
  BY <1>1, <1>2, <1>3, <1>4, <1>5, <1>6, <1>7, <1>8, <1>9, <1>10, <1>11, <1>12,
     <1>13, <1>14 DEF Next, ParseStep, UpdateStep

LEMMA UpdatesInvariant == Spec => []Updates
<1>1. Init => Updates
  BY DEF Init, Updates, UpdateOK, Idle
<1>2. QED
  BY <1>1, NextUpdates, FreshInvariant, TypeCorrect, PTL DEF Spec

(***************************************************************************)
(* An Update that returns while its generation is still the view's has     *)
(* parsed every file it changed and could read, and affects every file     *)
(* that reaches a changed one over the edges of parses that are older than *)
(* it or its own, whatever other calls stored meanwhile (View.Update).     *)
(***************************************************************************)
THEOREM ViewAffectedComplete == Spec => []AffectedComplete
<1>1. ASSUME Typed, Updates, NEW t \in Task, call[t].step = "return",
             call[t].result = gen, NEW f \in call[t].changed
      PROVE  LET c == call[t]
                 settled == {h \in File : parses[h] # NoParse /\
                               (h \in c.changed \/ parses[h].since < c.result)}
                 over == [h \in File |-> includers[h] \cap settled]
             IN  /\ parses[f] = NoParse => f \in c.failed
                 /\ ReachesOver(over, f) \subseteq c.affected
  <2> DEFINE c == call[t]
             settled == {h \in File : parses[h] # NoParse /\
                           (h \in c.changed \/ parses[h].since < c.result)}
             over == [h \in File |-> includers[h] \cap settled]
             earlier == EarlierEdges(c.result)
             closed == c.changed \cup UNION {ReachesOver(earlier, x) : x \in c.changed}
  <2>1. /\ c \in Call /\ c.changed \subseteq File /\ c.changed # {}
        /\ \A h \in File : includers[h] \subseteq File
        /\ UpdateOK(c)
    BY <1>1 DEF Typed, TypeOK, Call, Updates
  <2>2. c.queue = {} /\ c.changed \subseteq c.affected /\ ParsedSoFar(c) /\ ReachedSoFar(c)
    BY <1>1, <2>1 DEF UpdateOK
  <2>3. parses[f] = NoParse => f \in c.failed
    BY <1>1, <2>2 DEF ParsedSoFar, ToParse, Parsing
  <2>4. closed \subseteq c.affected
    BY <1>1, <2>2 DEF ReachedSoFar
  <2>5. \A h \in File : over[h] \subseteq earlier[h] \cup c.changed /\ earlier[h] \subseteq File
    BY <2>1 DEF EarlierEdges
  <2>6. \A x \in c.changed : x \in File /\ ReachesOver(earlier, x) \subseteq File
    BY <2>1 DEF ReachesOver
  <2> HIDE DEF c, over, earlier
  <2>7. ASSUME NEW x \in c.changed
        PROVE  /\ earlier[x] \subseteq ReachesOver(earlier, x)
               /\ \A h \in ReachesOver(earlier, x) : earlier[h] \subseteq ReachesOver(earlier, x)
    BY <2>5, <2>6, ReachesClosed
  <2>8. \A h \in closed : over[h] \subseteq closed
    BY <2>5, <2>6, <2>7
  <2>9. closed \in SUBSET File /\ f \in closed /\ f \in File
    BY <1>1, <2>6 DEF c
  <2> HIDE DEF closed
  <2>10. ReachesOver(over, f) \subseteq closed
    BY <2>8, <2>9, ReachesWithin
  <2>11. QED
    BY <2>3, <2>4, <2>10 DEF c, over
<1>2. Typed /\ Updates => AffectedComplete
  BY <1>1 DEF AffectedComplete
<1>3. QED
  BY <1>2, UpdatesInvariant, TypeCorrect, PTL

-----------------------------------------------------------------------------
(***************************************************************************)
(* The view implements the abstract cache: every step is a change, an      *)
(* invalidation or a fill, or changes nothing the cache shows.             *)
(***************************************************************************)
LEMMA StepImplementsCache ==
  ASSUME Typed, Fresh, [Next]_vars
  PROVE  Cache!Next \/ UNCHANGED << [f \in File |-> source[f].version], announced,
           [f \in File |-> IF parses[f] = NoParse THEN NoParse ELSE parses[f].version] >>
<1> DEFINE version == [f \in File |-> source[f].version]
           cached == [f \in File |-> IF parses[f] = NoParse THEN NoParse
                                     ELSE parses[f].version]
<1> SUFFICES Cache!Next \/ (version' = version /\ announced' = announced /\ cached' = cached)
  OBVIOUS
<1>1. ASSUME NEW f \in Writable, NEW text \in {Absent} \cup Document, Write(f, text)
      PROVE  Cache!Change(f) /\ f \in File
  <2>1. f \in File /\ source[f].version \in Nat /\ source[f].version <= writes /\ writes \in Nat
    BY BatchesAssumption DEF Typed, TypeOK, Fresh, Versions
  <2>2. source'[f].version = writes + 1 /\ \A g \in File \ {f} : source'[g] = source[g]
    BY <1>1, <2>1 DEF Write, Typed, TypeOK
  <2>3. UNCHANGED <<announced, parses>>
    BY <1>1 DEF Write, cache, history
  <2>4. QED
    BY <2>1, <2>2, <2>3 DEF Cache!Change
<1>2. ASSUME NEW F \in SUBSET File, UNCHANGED source, parses' = ParsesWithout(F),
             announced' = [f \in File |-> IF f \in F THEN source[f].version ELSE announced[f]]
      PROVE  Cache!Invalidate(F)
  BY <1>2 DEF Cache!Invalidate, ParsesWithout
<1>3. ASSUME NEW t \in Task, Store(t)
      PROVE  Cache!Next
  <2> DEFINE v == call[t].version
  <2>0. PICK u \in File : u = call[t].file
    BY <1>3 DEF Store, Typed, TypeOK, CallOK, Call, Parsing
  <2>1. /\ u \in File /\ v \in Nat
        /\ announced[u] \in Nat /\ source[u].version \in Nat
        /\ announced[u] <= v /\ v <= source[u].version
    BY <1>3, <2>0 DEF Store, Cacheable, Typed, TypeOK, CallOK, Call, Parsing, Fresh, CallFresh
  <2>2. parses'[u] # NoParse /\ parses'[u].version = v
    <3>1. parses'[u] = [version |-> v, text |-> call[t].text,
                        edges |-> call[t].edges, since |-> call[t].seen]
      BY <1>3, <2>1, <2>0 DEF Store, Typed, TypeOK
    <3>2. parses'[u] \in Parse
      BY <3>1, <1>3 DEF Parse, Call, Typed, TypeOK, Store
    <3>3. QED
      BY <3>1, <3>2, SentinelAssumption
  <2>3. \A f \in File : f # u => parses'[f] = parses[f]
    BY <1>3, <2>1, <2>0 DEF Store, Typed, TypeOK
  <2>4. UNCHANGED <<announced, source>>
    BY <1>3 DEF Store, history, files
  <2> HIDE DEF v
  <2>5. cached' = [cached EXCEPT ![u] = v]
    BY <2>1, <2>2, <2>3
  <2>6. v \in announced[u]..version[u]
    BY <2>1
  <2>7. Cache!Fill(u)
    BY <2>4, <2>5, <2>6 DEF Cache!Fill
  <2>8. \E k \in File : Cache!Change(k) \/ Cache!Fill(k)
    BY <2>1, <2>7, Zenon
  <2>9. QED
    BY <2>8, Zenon DEF Cache!Next
<1>4. ASSUME UNCHANGED <<cache, history>>, UNCHANGED source
      PROVE  version' = version /\ announced' = announced /\ cached' = cached
  BY <1>4 DEF cache, history
<1>5. CASE \E f \in Writable, text \in {Absent} \cup Document : Write(f, text)
  BY <1>5, <1>1, Zenon DEF Cache!Next
<1>6. CASE CacheWritten
  <2>1. ASSUME NEW t \in Task, NEW changes \in Batches, Update(t, changes)
        PROVE  Cache!Next
    BY <2>1, <1>2, BatchesAssumption DEF Update, files, Cache!Next
  <2>2. ASSUME NEW t \in Task, NEW evicted \in Evictions, Evict(t, evicted)
        PROVE  Cache!Next
    BY <2>2, <1>2, BatchesAssumption DEF Evict, files, Cache!Next
  <2>4. QED
    BY <1>6, <2>1, <2>2, <1>3, Zenon DEF CacheWritten
<1>7. CASE /\ UNCHANGED <<cache, history>>
           /\ ~ \E f \in Writable, text \in {Absent} \cup Document : Write(f, text)
  <2>1. ASSUME NEW t \in Task, ParseStep(t) \/ UpdateStep(t)
        PROVE  UNCHANGED files
    BY <2>1, ZenonT(40) DEF ParseStep, UpdateStep, LoadGeneration, Read, ResolveOne, Store,
       Discard, NextFile, Lookup, Reparsed, AddDependents, Return
  <2>2. UNCHANGED files
    BY <1>7, <2>1 DEF Next, BeginParse, Lookup, Update, Evict, files, vars
  <2>3. UNCHANGED source
    BY <2>2 DEF files
  <2>4. QED
    BY <1>4, <1>7, <2>3
<1>8. QED
  BY <1>5, <1>6, <1>7, OthersKeepCache

(***************************************************************************)
(* View refines FileCache.                                                 *)
(***************************************************************************)
THEOREM ViewImplementsCache == Spec => ImplementsCache
<1>1. Init => Cache!Init
  <2> SUFFICES ASSUME Init PROVE Cache!Init
    OBVIOUS
  <2>1. \A f \in File : source[f].version = 0
    BY DEF Init
  <2>2. QED
    BY <2>1 DEF Init, Cache!Init
<1>3. Typed /\ Fresh /\ [Next]_vars =>
        [Cache!Next]_<< [f \in File |-> source[f].version], announced,
           [f \in File |-> IF parses[f] = NoParse THEN NoParse ELSE parses[f].version] >>
  BY StepImplementsCache
<1>4. QED
  BY <1>1, <1>3, FreshInvariant, TypeCorrect, PTL DEF Spec, ImplementsCache, Cache!Spec

=============================================================================
