------------------------------- MODULE MCView -------------------------------
(* Instances of View for TLC.                                              *)
EXTENDS View, TLC

CONSTANTS A, B, C, near

\* A includes B or, when B does not exist, C; B includes C; C includes A.
MCCandidates ==
  [p \in File \X Name |->
     CASE p[1] = A -> <<B, C>>
       [] p[1] = B -> <<C>>
       [] p[1] = C -> <<A>>]

\* At first every file includes, and B may not exist.
MCStarts == {[f \in File |-> IF f = B THEN text ELSE {near}] : text \in {Absent, {near}}}

MCBatches == {{B}, {A}}
MCEvictions == {{B}}

Symmetry == Permutations(Task)

=============================================================================
