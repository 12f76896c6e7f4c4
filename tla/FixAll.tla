------------------------------- MODULE FixAll -------------------------------
(***************************************************************************)
(* Pipeline.FixAll, as `thriftls check --fix` runs it: analyse the         *)
(* targets, apply the fixes of each to its file, and start over until a    *)
(* pass applies none or MaxPasses passes have run.                         *)
(*                                                                         *)
(* The fixes are the two that depend on other files: an include that no    *)
(* reference resolves into is deleted with its line, and the file that     *)
(* defines an undefined type is included.  A file is a sequence of lines,  *)
(* a line a sequence of statements.  A statement includes a file, or       *)
(* defines a name as a type or as something else and uses types.  FixApply *)
(* has the rules by which fixes of one file are combined; here they come   *)
(* to this: of two deletions of one line the second is skipped, and the    *)
(* insertions, which share one place, are all made.                        *)
(***************************************************************************)
EXTENDS Integers, FiniteSets, Sequences, SequencesExt

CONSTANTS
  File,        \* the files of the folder
  Name,        \* the names that are defined or used
  Initial,     \* the possible contents of the folder
  Targets,     \* the files to fix, as a sequence without repetition
  Broken,      \* the files whose parse reports errors, all along
  MaxPasses,   \* maxFixPasses
  AnyFile      \* in place of the file, of a use that names none

Include(f) == [kind |-> "include", file |-> f]
Def(kind, n, uses) == [kind |-> kind, name |-> n, uses |-> uses]
Use(n, via) == [name |-> n, via |-> via]

Statement == [kind : {"include"}, file : File]
             \cup [kind : {"type", "const"}, name : Name,
                   uses : SUBSET [name : Name, via : File \cup {AnyFile}]]

ASSUME FilesAssumption == AnyFile \notin File /\ Broken \subseteq File
ASSUME TargetsAssumption == Targets \in Seq(File) /\ MaxPasses \in Nat \ {0}
ASSUME FiniteAssumption == IsFiniteSet(File) /\ IsFiniteSet(Name)
ASSUME InitialAssumption == Initial \subseteq [File -> Seq(Seq(Statement))]

VARIABLES
  disk,         \* the content of every file
  view,         \* the content that the view's parse of it is of
  pc,           \* what comes next, or how the call ended
  pass,         \* the passes begun
  at,           \* the target that the pass is at
  report,       \* what the last analysis found in each target
  applied,      \* the fixes applied in this pass
  changes,      \* the files changed in this pass
  total,        \* the fixes applied
  changed,      \* the files that the summary lists as changed
  passSkipped,  \* the fixes skipped in this pass, by file
  skipped,      \* those that the summary lists
  original,     \* history: the content of every file at the start
  written       \* history: the files whose new content became durable

summary == <<total, changed, skipped>>
vars == <<disk, view, pc, pass, at, report, applied, changes, total, changed,
          passSkipped, skipped, original, written>>

-----------------------------------------------------------------------------
(***************************************************************************)
(* What the analysers find in file f, when v is the content of the files.  *)
(***************************************************************************)
Places(v, f) == UNION {{l} \X DOMAIN v[f][l] : l \in DOMAIN v[f]}
At(v, f, p) == v[f][p[1]][p[2]]
Above(p, q) == p[1] < q[1] \/ (p[1] = q[1] /\ p[2] < q[2])

Includes(v, f) == {p \in Places(v, f) : At(v, f, p).kind = "include"}
Defs(v, f) == {At(v, f, p) : p \in Places(v, f) \ Includes(v, f)}

\* definitionFiles: the files reached over includes, depth first.
Visit(v, f, order) ==
  LET visit[g \in File, o \in Seq(File)] ==
        FoldLeft(LAMBDA seen, s :
                   IF s.kind # "include" \/ Contains(seen, s.file) THEN seen
                   ELSE visit[s.file, Append(seen, s.file)],
                 o, FlattenSeq(v[g]))
  IN  visit[f, order]

Searched(v, f, use) ==
  IF use.via = AnyFile THEN Visit(v, f, <<f>>)
  ELSE IF \E p \in Includes(v, f) : At(v, f, p).file = use.via THEN <<use.via>>
  ELSE <<>>

\* The file that a type resolves to, if any: the first that defines it as one.
DefinesType(v, f, n) == \E d \in Defs(v, f) : d.kind = "type" /\ d.name = n
Resolve(v, f, use) ==
  LET found == SelectSeq(Searched(v, f, use), LAMBDA g : DefinesType(v, g, use.name))
  IN  IF found = <<>> THEN {} ELSE {Head(found)}

Uses(v, f) ==
  UNION {{<<p, use>> : use \in At(v, f, p).uses} : p \in Places(v, f) \ Includes(v, f)}

\* The uses of an undefined type, and the includes that no use resolves
\* into.  Of two includes of one file only the last can be used.
Undefined(v, f) == {u \in Uses(v, f) : Resolve(v, f, u[2]) = {}}
Unused(v, f) ==
  LET used == UNION {Resolve(v, f, u[2]) : u \in Uses(v, f)} \ {f}
  IN  {p \in Includes(v, f) :
         \/ At(v, f, p).file \notin used
         \/ \E q \in Includes(v, f) : Above(p, q) /\ At(v, f, q).file = At(v, f, p).file}

Report(v) ==
  [f \in ToSet(Targets) |-> [unused |-> Unused(v, f), undefined |-> Undefined(v, f)]]

-----------------------------------------------------------------------------
(***************************************************************************)
(* The fixes of a file.                                                    *)
(***************************************************************************)
\* A variant that is content with a file that reaches one that defines it.
Reaching(v, use) == {g \in File : Resolve(v, g, use) # {}}

\* FindInWorkspace: the files that define the name, as whatever.  Which one
\* it finds depends on which files are known by then; here it is any.
Definers(v, use) ==
  {g \in File : /\ use.via \in {AnyFile, g}
                /\ \E d \in Defs(v, g) : d.name = use.name}

\* Each undefined use gets the include of a file that defines it, unless
\* none does or the file itself is found.
Offers(v, f, undefined) ==
  {c \in [undefined -> File \cup {AnyFile}] :
     \A u \in undefined :
       IF Definers(v, u[2]) = {} THEN c[u] = AnyFile ELSE c[u] \in Definers(v, u[2])}
Inserted(f, choice) == {u \in DOMAIN choice : choice[u] \notin {AnyFile, f}}

LinesBelow(unused) == {p[1] + 1 : p \in unused}    \* a variant, off by one

\* The lines that LineSpan finds for the includes that are unused.
DeletedLines(unused) == {p[1] : p \in unused}

\* After the last include, or at the top.
InsertAfter(v, f) ==
  CHOOSE l \in 0..Len(v[f]) :
    /\ \A p \in Includes(v, f) : p[1] <= l
    /\ l = 0 \/ \E p \in Includes(v, f) : p[1] = l

\* The uses in the order in which they stand in the file.
Ordered(uses) ==
  CHOOSE s \in [1..Cardinality(uses) -> uses] :
    \A i, j \in DOMAIN s : /\ s[i] = s[j] => i = j
                          /\ Above(s[i][1], s[j][1]) => i < j

\* The lines without the deleted ones, with others inserted below line here.
Edited(lines, deleted, here, inserted) ==
  LET edited[n \in 0..Len(lines)] ==
        (IF n = 0 THEN <<>>
         ELSE IF n \in deleted THEN edited[n - 1]
         ELSE Append(edited[n - 1], lines[n]))
        \o (IF n = here THEN inserted ELSE <<>>)
  IN  edited[Len(lines)]

Fixed(v, f, unused, choice) ==
  LET order == Ordered(Inserted(f, choice))
  IN  Edited(v[f], DeletedLines(unused), InsertAfter(v, f),
             [i \in DOMAIN order |-> <<Include(choice[order[i]])>>])

Applies(f, unused, choice) ==
  Cardinality(DeletedLines(unused)) + Cardinality(Inserted(f, choice))

-----------------------------------------------------------------------------
Init ==
  /\ disk \in Initial
  /\ view = disk
  /\ pc = "run"
  /\ pass = 0
  /\ at = 1
  /\ report = Report(disk)
  /\ applied = 0
  /\ changes = {}
  /\ total = 0
  /\ changed = {}
  /\ passSkipped = {}
  /\ skipped = {}
  /\ original = disk
  /\ written = {}

\* The analyses of a pass read the view.
Run ==
  /\ pc = "run"
  /\ pass' = pass + 1
  /\ report' = Report(view)
  /\ applied' = 0
  /\ changes' = {}
  /\ passSkipped' = {}
  /\ at' = 1
  /\ pc' = "fix"
  /\ UNCHANGED <<disk, view, summary, original, written>>

\* An analyser returns an error.
RunFails ==
  /\ pc = "run"
  /\ pass' = pass + 1
  /\ pc' = "failed"
  /\ UNCHANGED <<disk, view, at, report, applied, changes, summary, passSkipped,
                 original, written>>

Fixes == pc = "fix" /\ at <= Len(Targets)

\* A file with parse errors is left alone.
SkipBroken ==
  /\ Fixes
  /\ Targets[at] \in Broken
  /\ passSkipped' = passSkipped \cup ({Targets[at]} \X report[Targets[at]].unused)
  /\ at' = at + 1
  /\ UNCHANGED <<disk, view, pc, pass, report, applied, changes, summary, original, written>>

\* The fixes of the file at hand, and its content with them applied.
Fix(f, unused, choice) ==
  /\ Fixes
  /\ f = Targets[at]
  /\ f \notin Broken
  /\ unused = report[f].unused
  /\ choice \in Offers(view, f, report[f].undefined)

NoFix(f, unused, choice) ==
  /\ Fix(f, unused, choice)
  /\ Applies(f, unused, choice) = 0
  /\ at' = at + 1
  /\ UNCHANGED <<disk, view, pc, pass, report, applied, changes, summary, passSkipped,
                 original, written>>

Persist(f, unused, choice) ==
  /\ Fix(f, unused, choice)
  /\ Applies(f, unused, choice) > 0
  /\ disk' = [disk EXCEPT ![f] = Fixed(view, f, unused, choice)]
  /\ written' = written \cup {f}
  /\ applied' = applied + Applies(f, unused, choice)
  /\ total' = total + Applies(f, unused, choice)
  /\ changes' = changes \cup {f}
  /\ changed' = changed \cup {f}
  /\ passSkipped' = passSkipped \cup
       ({f} \X {p \in unused : \E q \in unused : Above(q, p) /\ q[1] = p[1]})
  /\ at' = at + 1
  /\ UNCHANGED <<view, pc, pass, report, skipped, original>>

\* A variant that lists the file before its content is durable.
PersistListedFirst(f, unused, choice) ==
  /\ Fix(f, unused, choice)
  /\ Applies(f, unused, choice) > 0
  /\ changed' = changed \cup {f}
  /\ pc' = "failed"
  /\ UNCHANGED <<disk, view, pass, at, report, applied, changes, total, skipped,
                 passSkipped, original, written>>

\* persist returns an error: the call is over, and says what it did so far.
PersistFails(f, unused, choice) ==
  /\ Fix(f, unused, choice)
  /\ Applies(f, unused, choice) > 0
  /\ pc' = "failed"
  /\ UNCHANGED <<disk, view, pass, at, report, applied, changes, summary, passSkipped,
                 original, written>>

FixFile(f, unused, choice) ==
  \/ NoFix(f, unused, choice)
  \/ Persist(f, unused, choice)
  \/ PersistFails(f, unused, choice)

PassOver == pc = "fix" /\ at > Len(Targets)
SettledByOne == applied <= 1 \/ pass = MaxPasses    \* a variant, off by one
LastPass == applied = 0 \/ pass = MaxPasses

\* view.Update has the changed files parsed again.
Updated == [f \in File |-> IF f \in changes THEN disk[f] ELSE view[f]]

EndPass ==
  /\ PassOver
  /\ view' = Updated
  /\ skipped' = IF LastPass THEN passSkipped ELSE skipped
  /\ pc' = IF LastPass THEN "done" ELSE "run"
  /\ UNCHANGED <<disk, pass, at, report, applied, changes, total, changed, passSkipped,
                 original, written>>

Next ==
  \/ Run \/ RunFails \/ SkipBroken \/ EndPass
  \/ /\ Fixes
     /\ \E choice \in Offers(view, Targets[at], report[Targets[at]].undefined) :
          FixFile(Targets[at], report[Targets[at]].unused, choice)

Spec == Init /\ [][Next]_vars

-----------------------------------------------------------------------------
(***************************************************************************)
(* Properties.                                                             *)
(***************************************************************************)

\* However the call ends, the summary lists the files whose new content was
\* made durable, no other and none too few, and fixes are counted exactly if
\* there are such files (fixapply.go:164-166, check.go:203).
LandedIsReported ==
  pc \in {"done", "failed"} =>
    /\ changed = written
    /\ \A f \in File : disk[f] # original[f] => f \in changed
    /\ total = 0 <=> changed = {}

\* A call that ends because nothing was left to apply has reported what is
\* on the disk, and no target that can be fixed holds an unused include or an
\* undefined type that another file defines.
ConvergedClean ==
  pc = "done" /\ pass < MaxPasses =>
    /\ report = Report(disk)
    /\ \A f \in ToSet(Targets) \ Broken :
         /\ Unused(disk, f) = {}
         /\ \A u \in Undefined(disk, f) :
              Definers(disk, u[2]) = {} \/ f \in Definers(disk, u[2])

\* Fixes add and remove includes.  They never lose a definition (the include
\* is "a statement of its own", unused_include_check.go:56).
NothingLost == \A f \in File : Defs(disk, f) = Defs(original, f)

\* The passes end because there is nothing left to fix: "ten passes mean the
\* fixes oscillate, which is a fixer bug" (fixapply.go:16).
NeverOscillates == pc = "done" => pass < MaxPasses
=============================================================================
