------------------------------ MODULE FixApply ------------------------------
(***************************************************************************)
(* sema.Apply: which of the fixes of a file are applied, and to what       *)
(* content.  A fix is a sequence of edits; an edit replaces a span of the  *)
(* content, given by byte offsets, with a text.  What a text says does not *)
(* matter, only where it goes: edit j of fix i inserts the one item        *)
(* <<i, j>>, or nothing, and byte k of the content is the item <<0, k>>.   *)
(*                                                                         *)
(* The code walks over the fixes twice, once to check them and once to     *)
(* accept them, and then over the edits it accepted, from the last to the  *)
(* first.  Every round of a loop is a step.                                *)
(***************************************************************************)
EXTENDS Integers, Sequences

CONSTANTS
  Size,    \* the length of the content, in bytes
  Input    \* the sequences of fixes that Apply may be called with

Edit == [start : Int, end : Int, adds : BOOLEAN]
Fix == Seq(Edit)

ASSUME InputAssumption ==
  /\ Size \in Nat
  /\ Input \subseteq Seq(Fix)

VARIABLES
  fixes,      \* the argument
  pc,         \* the loop that runs, or how the call ended
  at,         \* the fix that the loop is at
  valid,      \* the fixes whose edits do not overlap each other
  accepted,   \* the fixes whose edits are taken
  skipped,    \* the fixes given up, in the order in which they were
  pending,    \* the accepted edits that are not in out yet
  out         \* the content returned

vars == <<fixes, pc, at, valid, accepted, skipped, pending, out>>

Content == [k \in 1..Size |-> <<0, k - 1>>]

\* An edit is named by its place: fix p[1], edit p[2].
EditsOf(i) == {<<i, j>> : j \in DOMAIN fixes[i]}
Start(p) == fixes[p[1]][p[2]].start
End(p) == fixes[p[1]][p[2]].end
Text(p) == IF fixes[p[1]][p[2]].adds THEN <<p>> ELSE <<>>

InRange(p) == 0 <= Start(p) /\ Start(p) <= End(p) /\ End(p) <= Size

\* Edits of one fix are stably sorted by start, and each must end before the
\* next one starts.  With Start <= End that is so of neighbours only if it
\* is so of any two.
SortsBefore(p, q) == Start(p) < Start(q) \/ (Start(p) = Start(q) /\ p[2] < q[2])
SelfOverlaps(i) == \E p, q \in EditsOf(i) : SortsBefore(p, q) /\ End(p) > Start(q)

Overlap(p, q) == Start(p) < End(q) /\ Start(q) < End(p)
Taken == UNION {EditsOf(i) : i \in accepted}

\* Variant: a fix that was skipped still holds the region it asked for.
ConflictsWithSkipped(i) ==
  \E k \in valid : k < i /\ \E p \in EditsOf(i), q \in EditsOf(k) : Overlap(p, q)

Conflicts(i) == \E p \in EditsOf(i), q \in Taken : Overlap(p, q)

\* The order of the accepted edits: by start; at one offset the insertions
\* come first; and then the order of the arguments.
Rank(p) == IF Start(p) = End(p) THEN 0 ELSE 1
ArgumentOrder(p, q) == p[1] < q[1] \/ (p[1] = q[1] /\ p[2] < q[2])

\* Variant: in the order of the arguments alone where two edits start together.
BeforeByArgument(p, q) ==
  Start(p) < Start(q) \/ (Start(p) = Start(q) /\ ArgumentOrder(p, q))

Before(p, q) ==
  \/ Start(p) < Start(q)
  \/ Start(p) = Start(q) /\ Rank(p) < Rank(q)
  \/ Start(p) = Start(q) /\ Rank(p) = Rank(q) /\ ArgumentOrder(p, q)

Replace(p) == SubSeq(out, 1, Start(p)) \o Text(p) \o SubSeq(out, End(p) + 1, Len(out))

Init ==
  /\ fixes \in Input
  /\ pc = "check"
  /\ at = 1
  /\ valid = {}
  /\ accepted = {}
  /\ skipped = <<>>
  /\ pending = {}
  /\ out = Content

-----------------------------------------------------------------------------
(***************************************************************************)
(* The first loop: every edit is in the content, or the call fails.        *)
(***************************************************************************)
Checks == pc = "check" /\ at <= Len(fixes)

Fail ==
  /\ Checks
  /\ \E p \in EditsOf(at) : ~InRange(p)
  /\ pc' = "failed"
  /\ out' = <<>>
  /\ UNCHANGED <<fixes, at, valid, accepted, skipped, pending>>

Reject ==
  /\ Checks
  /\ \A p \in EditsOf(at) : InRange(p)
  /\ SelfOverlaps(at)
  /\ skipped' = Append(skipped, at)
  /\ at' = at + 1
  /\ UNCHANGED <<fixes, pc, valid, accepted, pending, out>>

Admit ==
  /\ Checks
  /\ \A p \in EditsOf(at) : InRange(p)
  /\ ~SelfOverlaps(at)
  /\ valid' = valid \cup {at}
  /\ at' = at + 1
  /\ UNCHANGED <<fixes, pc, accepted, skipped, pending, out>>

Checked ==
  /\ pc = "check"
  /\ at > Len(fixes)
  /\ pc' = "accept"
  /\ at' = 1
  /\ UNCHANGED <<fixes, valid, accepted, skipped, pending, out>>

-----------------------------------------------------------------------------
(***************************************************************************)
(* The second loop: the first fix asking for a region wins.                *)
(***************************************************************************)

Accepts == pc = "accept" /\ at <= Len(fixes)

Pass ==
  /\ Accepts
  /\ at \notin valid
  /\ at' = at + 1
  /\ UNCHANGED <<fixes, pc, valid, accepted, skipped, pending, out>>

Skip ==
  /\ Accepts
  /\ at \in valid
  /\ Conflicts(at)
  /\ skipped' = Append(skipped, at)
  /\ at' = at + 1
  /\ UNCHANGED <<fixes, pc, valid, accepted, pending, out>>

Accept ==
  /\ Accepts
  /\ at \in valid
  /\ ~Conflicts(at)
  /\ accepted' = accepted \cup {at}
  /\ at' = at + 1
  /\ UNCHANGED <<fixes, pc, valid, skipped, pending, out>>

Accepted ==
  /\ pc = "accept"
  /\ at > Len(fixes)
  /\ pc' = "splice"
  /\ pending' = Taken
  /\ UNCHANGED <<fixes, at, valid, accepted, skipped, out>>

-----------------------------------------------------------------------------
(***************************************************************************)
(* The third loop: the last of the accepted edits first.                   *)
(***************************************************************************)
Splice(p) ==
  /\ pc = "splice"
  /\ \A q \in pending \ {p} : Before(q, p)
  /\ out' = Replace(p)
  /\ pending' = pending \ {p}
  /\ UNCHANGED <<fixes, pc, at, valid, accepted, skipped>>

Return ==
  /\ pc = "splice"
  /\ pending = {}
  /\ pc' = "done"
  /\ UNCHANGED <<fixes, at, valid, accepted, skipped, pending, out>>

Next ==
  \/ Fail \/ Reject \/ Admit \/ Checked
  \/ Pass \/ Skip \/ Accept \/ Accepted
  \/ \E p \in pending : Splice(p)
  \/ Return

Spec == Init /\ [][Next]_vars

-----------------------------------------------------------------------------
(***************************************************************************)
(* Properties.                                                             *)
(***************************************************************************)
Index == 1..Len(fixes)
Place == UNION {EditsOf(i) : i \in Index}
Item == {<<0, k>> : k \in 0..(Size - 1)} \cup Place

\* The types.  A loop does not run past the end of its sequence.
TypeOK ==
  /\ fixes \in Input
  /\ pc \in {"check", "accept", "splice", "done", "failed"}
  /\ at \in 1..(Len(fixes) + 1)
  /\ valid \in SUBSET Index
  /\ accepted \in SUBSET valid
  /\ skipped \in Seq(Index)
  /\ pending \in SUBSET Taken
  /\ out \in Seq(Item)

Walked == pc \in {"splice", "done"}

\* Accepted and skipped fixes partition the argument (edit.go:13), and no
\* fix is skipped without a cause: it overlaps itself, or an edit of a fix
\* before it that is applied.  What a skipped fix asks for is free for
\* those that follow it: a fix is taken whole or not at all (edit.go:9).
SkippedForCause ==
  Walked =>
    /\ \A a, b \in DOMAIN skipped : skipped[a] = skipped[b] => a = b
    /\ {skipped[a] : a \in DOMAIN skipped} = Index \ accepted
    /\ \A i \in Index \ accepted :
         \/ SelfOverlaps(i)
         \/ \E k \in accepted : k < i /\ \E p \in EditsOf(i), q \in EditsOf(k) : Overlap(p, q)

\* Two accepted edits never change the same byte, and none inserts into a
\* span that another one replaces.  In the order in which they are spliced,
\* each ends where the next one starts or before (edit.go:64-67).
AcceptedApart ==
  \A p, q \in Taken : Before(p, q) => End(p) <= Start(q)

\* "The reverse walk keeps earlier offsets valid" (edit.go:79): up to the
\* end of an edit still to be made, out is what the offsets were computed on.
EarlierOffsetsValid ==
  \A p \in pending : Len(out) >= End(p) /\ \A k \in 1..End(p) : out[k] = Content[k]

\* The order of items in a file in which all edits were made at once: where
\* they start; the insertions at an offset before the text that replaces
\* what is there, and that before the byte; insertions as they were given.
Offset(x) == IF x[1] = 0 THEN x[2] ELSE Start(x)
Kind(x) == IF x[1] = 0 THEN 2 ELSE Rank(x)
Precedes(x, y) ==
  \/ Offset(x) < Offset(y)
  \/ Offset(x) = Offset(y) /\ Kind(x) < Kind(y)
  \/ Offset(x) = Offset(y) /\ Kind(x) = Kind(y) /\ ArgumentOrder(x, y)

Made == Taken \ pending
Kept == {x \in {<<0, k>> : k \in 0..(Size - 1)} :
           ~\E p \in Made : Start(p) <= x[2] /\ x[2] < End(p)}
Added == {p \in Made : fixes[p[1]][p[2]].adds}

\* Splicing one edit after the other gives the content in which all of them
\* are made at once: the bytes that no edit replaces and the texts of the
\* edits, each exactly once and in the order of their offsets (edit.go:78-82).
MadeAtOnce ==
  Walked =>
    /\ {out[k] : k \in DOMAIN out} = Kept \cup Added
    /\ \A a, b \in DOMAIN out : a < b => Precedes(out[a], out[b])
=============================================================================
