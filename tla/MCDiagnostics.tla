---------------------------- MODULE MCDiagnostics ----------------------------
(* Instances of Diagnostics for TLC.                                       *)
EXTENDS Diagnostics

CONSTANTS A, B

\* A includes B.
MCIncluders == [f \in File |-> IF f = B THEN {A} ELSE {}]

=============================================================================
