------------------------------ MODULE FileCache ------------------------------
(***************************************************************************)
(* What a view promises about the parses it caches, without a word on how: *)
(* files change; an invalidation drops the cached values of some files and *)
(* rules out, from then on, every version older than the current one; and  *)
(* a file's cached value may appear or be replaced at any time by a value  *)
(* that is not ruled out.                                                  *)
(***************************************************************************)
EXTENDS Naturals

CONSTANTS
  Key,   \* the files
  None   \* no cached value

VARIABLES
  version,  \* the current version of each file
  floor,    \* the oldest version that may be cached
  cached    \* the version that is cached, or None

Init ==
  /\ version = [k \in Key |-> 0]
  /\ floor = [k \in Key |-> 0]
  /\ cached = [k \in Key |-> None]

Change(k) ==
  /\ version'[k] > version[k]
  /\ \A j \in Key \ {k} : version'[j] = version[j]
  /\ UNCHANGED <<floor, cached>>

Invalidate(K) ==
  /\ floor' = [k \in Key |-> IF k \in K THEN version[k] ELSE floor[k]]
  /\ cached' = [k \in Key |-> IF k \in K THEN None ELSE cached[k]]
  /\ UNCHANGED version

Fill(k) ==
  /\ \E v \in floor[k]..version[k] : cached' = [cached EXCEPT ![k] = v]
  /\ UNCHANGED <<version, floor>>

Next ==
  \/ \E k \in Key : Change(k) \/ Fill(k)
  \/ \E K \in SUBSET Key : Invalidate(K)

Spec == Init /\ [][Next]_<<version, floor, cached>>

=============================================================================
