----------------------------- MODULE MCFixApply -----------------------------
(* Instances of FixApply for TLC.                                          *)
EXTENDS FixApply

E(start, end, adds) == [start |-> start, end |-> end, adds |-> adds]

\* Every span of the content, as the insertion or the replacement it is, a
\* deletion, and the two ways in which a span may be out of range.
Spans == {<<a, b>> \in (0..Size) \X (0..Size) : a <= b}
Single == {<<E(s[1], s[2], TRUE)>> : s \in Spans} \cup {<<E(0, 1, FALSE)>>}
Wrong == {<<E(1, 0, TRUE)>>, <<E(Size, Size + 1, TRUE)>>}

\* Fixes of two edits: apart, in either order, touching, at one offset, one
\* inside the other; and a fix without edits.
Double ==
  { <<E(0, 0, TRUE), E(1, 2, TRUE)>>, <<E(2, 3, TRUE), E(0, 1, FALSE)>>,
    <<E(1, 1, TRUE), E(1, 1, TRUE)>>, <<E(1, 1, TRUE), E(1, 2, TRUE)>>,
    <<E(1, 2, TRUE), E(1, 1, TRUE)>>, <<E(0, 2, TRUE), E(1, 3, TRUE)>>,
    <<E(0, 3, FALSE), E(1, 1, TRUE)>> }

MCFix == Single \cup Double \cup Wrong \cup {<<>>}
MCInput == UNION {[1..n -> MCFix] : n \in 0..3}
=============================================================================
