----------------------------- MODULE Induction -----------------------------
(***************************************************************************)
(* Induction and recursion over the natural numbers, stated with sets and  *)
(* functions in place of operators, and what the proofs about recursive    *)
(* definitions need besides.  The induction theorems of the library take a *)
(* predicate as their parameter; that a well-founded relation has a        *)
(* minimal element in every set is stated there of sets.                   *)
(***************************************************************************)
EXTENDS Integers, FiniteSets, Sequences, FiniteSetsExt, FiniteSetTheorems, SequenceTheorems,
        WellFoundedInduction, TLAPS

\* A set that holds 0, and with every number its successor, holds them all.
LEMMA NatSetInduction ==
  ASSUME NEW S, 0 \in S, \A n \in Nat : n \in S => n + 1 \in S
  PROVE  Nat \subseteq S
<1> DEFINE T == Nat \ S
<1>1. SUFFICES ASSUME T # {} PROVE FALSE
  OBVIOUS
<1>2. PICK x \in T : \A y \in T : ~ (<<y, x>> \in OpToRel(<, Nat))
  BY <1>1, WFMin, NatLessThanWellFounded
<1>3. x # 0
  OBVIOUS
<1>4. x - 1 \in Nat /\ x - 1 < x
  BY <1>3
<1>5. x - 1 \notin T
  BY <1>2, <1>4 DEF OpToRel
<1>6. QED
  BY <1>4, <1>5

\* The same up to a bound.
LEMMA BoundedInduction ==
  ASSUME NEW N \in Nat, NEW S, 0 \in S, \A n \in 1..N : n - 1 \in S => n \in S
  PROVE  0..N \subseteq S
<1> DEFINE T == {n \in Nat : n <= N => n \in S}
<1>1. 0 \in T
  OBVIOUS
<1>2. ASSUME NEW n \in Nat, n \in T PROVE n + 1 \in T
  <2>1. CASE n + 1 <= N
    <3>1. n + 1 \in 1..N /\ (n + 1) - 1 = n /\ n \in S
      BY <1>2, <2>1
    <3>2. n + 1 \in S
      BY <3>1
    <3> QED
      BY <3>2
  <2>2. CASE ~(n + 1 <= N)
    BY <2>2
  <2> QED
    BY <2>1, <2>2
<1>3. Nat \subseteq T
  <2> HIDE DEF T
  <2> QED
    BY <1>1, <1>2, NatSetInduction
<1> QED
  BY <1>3

\* A set of numbers up to a bound has a least one and a greatest one.
LEMMA LeastAndGreatest ==
  ASSUME NEW N \in Nat, NEW S \in SUBSET (0..N), S # {}
  PROVE  /\ Min(S) \in S /\ \A n \in S : Min(S) <= n
         /\ Max(S) \in S /\ \A n \in S : n <= Max(S)
<1> DEFINE T == {n \in 0..N : \A R \in SUBSET (0..n) : R # {} =>
                   /\ \E m \in R : \A k \in R : m <= k
                   /\ \E m \in R : \A k \in R : k <= m}
<1>1. 0 \in T
  <2> SUFFICES ASSUME NEW R \in SUBSET (0..0), R # {}
               PROVE  /\ \E m \in R : \A k \in R : m <= k
                      /\ \E m \in R : \A k \in R : k <= m
    OBVIOUS
  <2>1. PICK m \in R : TRUE
    OBVIOUS
  <2>2. \A k \in R : k <= m /\ m <= k
    OBVIOUS
  <2> QED
    BY <2>2
<1>2. ASSUME NEW n \in 1..N, n - 1 \in T PROVE n \in T
  <2> SUFFICES ASSUME NEW R \in SUBSET (0..n), R # {}
               PROVE  /\ \E m \in R : \A k \in R : m <= k
                      /\ \E m \in R : \A k \in R : k <= m
    OBVIOUS
  <2> DEFINE Q == R \ {n}
  <2>1. Q \in SUBSET (0..(n - 1)) /\ \A k \in R : k = n \/ k \in Q
    OBVIOUS
  <2>2. CASE Q = {}
    <3>1. \A k \in R : k = n /\ k <= n /\ n <= k
      BY <2>1, <2>2
    <3>2. n \in R
      BY <3>1
    <3> QED
      BY <3>1, <3>2
  <2>3. CASE Q # {}
    <3>1. PICK a \in Q : \A k \in Q : a <= k
      BY <1>2, <2>1, <2>3
    <3>2. PICK b \in Q : \A k \in Q : k <= b
      BY <1>2, <2>1, <2>3
    <3>3. \A k \in R : a <= k
      BY <2>1, <3>1
    <3>4. \E m \in R : \A k \in R : k <= m
      <4>1. CASE n \in R
        BY <4>1
      <4>2. CASE n \notin R
        BY <2>1, <3>2, <4>2
      <4> QED
        BY <4>1, <4>2
    <3> QED
      BY <3>3, <3>4
  <2> QED
    BY <2>2, <2>3
<1>3. 0..N \subseteq T
  <2> HIDE DEF T
  <2> QED
    BY <1>1, <1>2, BoundedInduction
<1>4. /\ \E m \in S : \A k \in S : m <= k
      /\ \E m \in S : \A k \in S : k <= m
  BY <1>3
<1>5. Min(S) \in S /\ \A n \in S : Min(S) <= n
  BY <1>4 DEF Min
<1>6. Max(S) \in S /\ \A n \in S : n <= Max(S)
  BY <1>4 DEF Max
<1> QED
  BY <1>5, <1>6

\* The values of a recursion from the value a at 0 to the one at N, of which
\* each follows from the one before by the function g.
IsRecursion(F, S, N, a, g) ==
  /\ F \in [0..N -> S]
  /\ F[0] = a
  /\ \A n \in 1..N : F[n] = g[<<n, F[n - 1]>>]

LEMMA Recursion ==
  ASSUME NEW S, NEW a \in S, NEW N \in Nat, NEW g \in [(1..N) \X S -> S]
  PROVE  \E F : IsRecursion(F, S, N, a, g)
<1> DEFINE Up(m, F) == F[0] = a /\ \A n \in 1..m : F[n] = g[<<n, F[n - 1]>>]
           T == {m \in Nat : m <= N => \E F \in [0..m -> S] : Up(m, F)}
<1>1. 0 \in T
  <2> DEFINE F == [k \in 0..0 |-> a]
  <2>1. F \in [0..0 -> S] /\ Up(0, F)
    OBVIOUS
  <2> QED
    BY <2>1
<1>2. ASSUME NEW m \in Nat, m \in T PROVE m + 1 \in T
  <2>1. SUFFICES ASSUME m + 1 <= N PROVE \E F \in [0..(m + 1) -> S] : Up(m + 1, F)
    OBVIOUS
  <2>2. PICK F \in [0..m -> S] : Up(m, F)
    BY <1>2, <2>1
  <2> DEFINE G == [k \in 0..(m + 1) |-> IF k <= m THEN F[k] ELSE g[<<m + 1, F[m]>>]]
  <2>3. g[<<m + 1, F[m]>>] \in S
    BY <2>1
  <2>4. G \in [0..(m + 1) -> S]
    BY <2>3
  <2>5. G[0] = a
    BY <2>2
  <2>6. ASSUME NEW n \in 1..(m + 1) PROVE G[n] = g[<<n, G[n - 1]>>]
    <3>1. CASE n = m + 1
      BY <3>1
    <3>2. CASE n <= m
      BY <2>2, <3>2
    <3> QED
      BY <3>1, <3>2
  <2> QED
    BY <2>4, <2>5, <2>6
<1>3. Nat \subseteq T
  <2> HIDE DEF T
  <2> QED
    BY <1>1, <1>2, NatSetInduction
<1>4. \E F \in [0..N -> S] : Up(N, F)
  <2>1. N \in T
    BY <1>3
  <2> HIDE DEF Up
  <2> QED
    BY <2>1
<1> QED
  BY <1>4 DEF IsRecursion

-----------------------------------------------------------------------------
(***************************************************************************)
(* A loop as a function: it goes on from x to next[x], by which a measure  *)
(* falls, and answers with result[x] once x is in Stop.                    *)
(***************************************************************************)
Iterates(F, S, Stop, result, next) ==
  \A x \in S : F[x] = IF x \in Stop THEN result[x] ELSE F[next[x]]

\* It keeps I on its way to Q, and the measure falls.
Keeps(F, S, Stop, result, next, N, measure, I, Q) ==
  /\ Iterates(F, S, Stop, result, next)
  /\ N \in Nat /\ measure \in [S -> 0..N] /\ I \in SUBSET S
  /\ \A x \in I : x \in Stop => result[x] \in Q
  /\ \A x \in I : x \notin Stop => next[x] \in I /\ measure[next[x]] < measure[x]

LEMMA LoopInduction ==
  ASSUME NEW S, NEW F, NEW Stop, NEW result, NEW next, NEW N, NEW measure, NEW I, NEW Q,
         Keeps(F, S, Stop, result, next, N, measure, I, Q)
  PROVE  \A x \in I : F[x] \in Q
<1>1. /\ Iterates(F, S, Stop, result, next)
      /\ N \in Nat /\ measure \in [S -> 0..N] /\ I \in SUBSET S
      /\ \A x \in I : x \in Stop => result[x] \in Q
      /\ \A x \in I : x \notin Stop => next[x] \in I /\ measure[next[x]] < measure[x]
  BY DEF Keeps
<1>2. N \in Nat /\ I \in SUBSET S /\ \A x \in I : measure[x] \in 0..N
  BY <1>1
<1> DEFINE T == {n \in 0..N : \A x \in I : measure[x] <= n => F[x] \in Q}
<1>3. ASSUME NEW x \in I, \A y \in I : measure[y] < measure[x] => F[y] \in Q PROVE F[x] \in Q
  BY <1>1, <1>3 DEF Iterates
<1>4. 0 \in T
  <2>1. ASSUME NEW x \in I, measure[x] <= 0 PROVE F[x] \in Q
    <3>1. \A y \in I : ~(measure[y] < measure[x])
      BY <1>2, <2>1
    <3> QED
      BY <1>3, <3>1
  <2> QED
    BY <1>2, <2>1
<1>5. ASSUME NEW n \in 1..N, n - 1 \in T PROVE n \in T
  <2>1. ASSUME NEW x \in I, measure[x] <= n PROVE F[x] \in Q
    <3>1. ASSUME NEW y \in I, measure[y] < measure[x] PROVE F[y] \in Q
      <4>1. measure[y] \in 0..N /\ measure[x] \in 0..N
        BY <1>2
      <4>2. measure[y] <= n - 1
        BY <1>2, <2>1, <3>1, <4>1
      <4> QED
        BY <1>5, <4>2
    <3> QED
      BY <1>3, <3>1
  <2>2. n \in 0..N
    BY <1>2
  <2> QED
    BY <2>1, <2>2
<1>6. 0..N \subseteq T
  <2> HIDE DEF T
  <2> QED
    BY <1>2, <1>4, <1>5, BoundedInduction
<1>7. N \in 0..N /\ \A x \in I : measure[x] <= N
  BY <1>2
<1>8. N \in T
  BY <1>6, <1>7
<1> QED
  BY <1>7, <1>8

\* There is such a function.
LEMMA LoopExists ==
  ASSUME NEW S, NEW R, NEW Stop, NEW result \in [S -> R], NEW next \in [S -> S],
         NEW N \in Nat, NEW measure \in [S -> 0..N],
         \A x \in S : x \notin Stop => measure[next[x]] < measure[x]
  PROVE  \E F \in [S -> R] : Iterates(F, S, Stop, result, next)
<1> DEFINE L == [S -> R]
           Turn(f) == [x \in S |-> IF x \in Stop THEN result[x] ELSE f[next[x]]]
           g == [p \in (1..N + 1) \X L |-> Turn(p[2])]
<1>1. ASSUME NEW f \in L PROVE Turn(f) \in L
  OBVIOUS
<1>2. g \in [(1..N + 1) \X L -> L] /\ \A n \in 1..N + 1, f \in L : g[<<n, f>>] = Turn(f)
  <2> HIDE DEF L, Turn
  <2> QED
    BY <1>1
<1>3. N + 1 \in Nat /\ result \in L
  OBVIOUS
<1>4. PICK G : IsRecursion(G, L, N + 1, result, g)
  <2> HIDE DEF g, L
  <2> QED
    BY <1>2, <1>3, Recursion
<1>5. G[0] = result /\ \A n \in 0..N + 1 : G[n] \in L
  BY <1>4 DEF IsRecursion
<1>6. \A n \in 1..N + 1 : G[n] = Turn(G[n - 1])
  <2> HIDE DEF g, L, Turn
  <2>1. ASSUME NEW n \in 1..N + 1 PROVE G[n] = Turn(G[n - 1])
    <3>1. n - 1 \in 0..N + 1
      OBVIOUS
    <3>2. G[n] = g[<<n, G[n - 1]>>]
      BY <1>4 DEF IsRecursion
    <3> QED
      BY <1>2, <1>5, <3>1, <3>2
  <2> QED
    BY <2>1
<1>7. \A n \in 1..N + 1 : \A x \in S :
        G[n][x] = IF x \in Stop THEN result[x] ELSE G[n - 1][next[x]]
  <2>1. ASSUME NEW n \in 1..N + 1, NEW x \in S
        PROVE  G[n][x] = IF x \in Stop THEN result[x] ELSE G[n - 1][next[x]]
    <3> DEFINE f == G[n - 1]
    <3>1. G[n] = Turn(f)
      <4> HIDE DEF Turn
      <4> QED
        BY <1>6
    <3> HIDE DEF f, g
    <3>2. Turn(f)[x] = IF x \in Stop THEN result[x] ELSE f[next[x]]
      OBVIOUS
    <3> HIDE DEF Turn
    <3> QED
      BY <3>1, <3>2 DEF f
  <2> QED
    BY <2>1
<1>8. \A n \in 0..N + 1 : \A x \in S : x \in Stop => G[n][x] = result[x]
  <2>1. ASSUME NEW n \in 0..N + 1, NEW x \in S, x \in Stop PROVE G[n][x] = result[x]
    <3>1. n = 0 \/ n \in 1..N + 1
      OBVIOUS
    <3> HIDE DEF g, L
    <3> QED
      BY <1>5, <1>7, <2>1, <3>1
  <2> QED
    BY <2>1
<1> HIDE DEF g, L, Turn
<1> DEFINE T == {n \in 0..N : \A x \in S : measure[x] <= n =>
                   \A j \in n..N : G[j + 1][x] = G[j][x]}
<1>9. 0 \in T
  <2>1. ASSUME NEW x \in S, measure[x] <= 0, NEW j \in 0..N PROVE G[j + 1][x] = G[j][x]
    <3>1. x \in Stop
      <4>1. measure[x] \in 0..N /\ measure[next[x]] \in 0..N
        OBVIOUS
      <4>2. ~(measure[next[x]] < measure[x])
        BY <2>1, <4>1
      <4> QED
        BY <4>2
    <3>2. j \in 0..N + 1 /\ j + 1 \in 0..N + 1
      OBVIOUS
    <3> QED
      BY <1>8, <3>1, <3>2
  <2> QED
    BY <2>1
<1>10. ASSUME NEW n \in 1..N, n - 1 \in T PROVE n \in T
  <2>1. ASSUME NEW x \in S, measure[x] <= n, NEW j \in n..N PROVE G[j + 1][x] = G[j][x]
    <3>1. /\ j \in 0..N + 1 /\ j + 1 \in 0..N + 1 /\ j \in 1..N + 1 /\ j + 1 \in 1..N + 1
          /\ (j + 1) - 1 = j /\ j - 1 \in (n - 1)..N /\ (j - 1) + 1 = j
      OBVIOUS
    <3>2. CASE x \in Stop
      BY <1>8, <3>1, <3>2
    <3>3. CASE x \notin Stop
      <4>1. next[x] \in S /\ measure[next[x]] < measure[x]
        BY <3>3
      <4>2. measure[next[x]] \in 0..N /\ measure[x] \in 0..N
        BY <4>1
      <4>3. measure[next[x]] <= n - 1
        BY <2>1, <4>1, <4>2
      <4>4. G[(j - 1) + 1][next[x]] = G[j - 1][next[x]]
        BY <1>10, <3>1, <4>1, <4>3
      <4>5. G[j + 1][x] = G[(j + 1) - 1][next[x]] /\ G[j][x] = G[j - 1][next[x]]
        BY <1>7, <3>1, <3>3
      <4> QED
        BY <3>1, <4>4, <4>5
    <3> QED
      BY <3>2, <3>3
  <2>2. n \in 0..N
    OBVIOUS
  <2> QED
    BY <2>1, <2>2
<1>11. 0..N \subseteq T
  <2> HIDE DEF T
  <2> QED
    BY <1>9, <1>10, BoundedInduction
<1>12. ASSUME NEW x \in S PROVE G[N + 1][x] = G[N][x]
  <2>1. N \in T /\ N \in N..N
    BY <1>11
  <2>2. measure[x] <= N
    OBVIOUS
  <2> QED
    BY <2>1, <2>2
<1>13. Iterates(G[N], S, Stop, result, next)
  <2>1. N + 1 \in 1..N + 1 /\ (N + 1) - 1 = N
    OBVIOUS
  <2> QED
    BY <1>7, <1>12, <2>1 DEF Iterates
<1>14. G[N] \in [S -> R]
  <2>1. N \in 0..N + 1
    OBVIOUS
  <2> QED
    BY <1>5, <2>1 DEF L
<1> QED
  BY <1>13, <1>14

=============================================================================
