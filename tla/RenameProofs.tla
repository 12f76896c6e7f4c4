---------------------------- MODULE RenameProofs ----------------------------
(***************************************************************************)
(* Proofs about Names and Rename: a typedef stands for its target, the     *)
(* edits of a rename at a definition fit, the includes reported as cycles  *)
(* are those on one, the references found are all there are, and a rename  *)
(* at a definition keeps what every reference means.                       *)
(***************************************************************************)
EXTENDS Rename, Induction

-----------------------------------------------------------------------------
(***************************************************************************)
(* Typedef chains.                                                         *)
(***************************************************************************)
\* Where a chain starts.
ChainFrom(f, name) ==
  [file |-> f, type |-> IF name \in BasicType THEN <<>> ELSE name, known |-> TRUE, done |-> FALSE]

IsChain(h, p, f, name, N) ==
  h[0] = ChainFrom(f, name) /\ \A n \in 1..N : h[n] = Follow(p, h[n - 1])

\* There is a chain of any length.
LEMMA ChainExists ==
  ASSUME NEW p, NEW f, NEW name, NEW N \in Nat
  PROVE  \E h : h = [n \in 0..N |-> h[n]] /\ IsChain(h, p, f, name, N)
<1> DEFINE T == {m \in Nat : \E h : h = [n \in 0..m |-> h[n]] /\ IsChain(h, p, f, name, m)}
<1>1. 0 \in T
  <2> DEFINE h == [n \in 0..0 |-> ChainFrom(f, name)]
  <2>1. h = [n \in 0..0 |-> h[n]] /\ IsChain(h, p, f, name, 0)
    BY DEF IsChain
  <2> QED
    BY <2>1
<1>2. ASSUME NEW m \in Nat, m \in T PROVE m + 1 \in T
  <2>1. PICK h : h = [n \in 0..m |-> h[n]] /\ IsChain(h, p, f, name, m)
    BY <1>2
  <2> DEFINE k == [n \in 0..(m + 1) |-> IF n <= m THEN h[n] ELSE Follow(p, h[m])]
  <2>2. k[0] = ChainFrom(f, name)
    BY <2>1 DEF IsChain
  <2>3. ASSUME NEW n \in 1..(m + 1) PROVE k[n] = Follow(p, k[n - 1])
    <3>1. CASE n = m + 1
      BY <3>1
    <3>2. CASE n <= m
      <4>1. n \in 1..m /\ n - 1 \in 0..m /\ n \in 0..(m + 1) /\ n - 1 \in 0..(m + 1)
        BY <3>2
      <4>2. k[n] = h[n] /\ k[n - 1] = h[n - 1]
        BY <3>2, <4>1
      <4>3. h[n] = Follow(p, h[n - 1])
        BY <2>1, <4>1 DEF IsChain
      <4> QED
        BY <4>2, <4>3
    <3> QED
      BY <3>1, <3>2
  <2>4. k = [n \in 0..(m + 1) |-> k[n]] /\ IsChain(k, p, f, name, m + 1)
    BY <2>2, <2>3 DEF IsChain
  <2> QED
    BY <2>4
<1>3. Nat \subseteq T
  <2> HIDE DEF T
  <2> QED
    BY <1>1, <1>2, NatSetInduction
<1> QED
  BY <1>3

LEMMA UnderlyingRecursion ==
  ASSUME NEW p, NEW f, NEW name
  PROVE  \E h : /\ UnderlyingType(p, f, name) = h[MaxTypedefDepth]
                /\ IsChain(h, p, f, name, MaxTypedefDepth)
<1> DEFINE N == MaxTypedefDepth
           at[n \in 0 .. MaxTypedefDepth] ==
             IF n = 0 THEN [file |-> f, type |-> IF name \in BasicType THEN <<>> ELSE name,
                            known |-> TRUE, done |-> FALSE]
             ELSE Follow(p, at[n - 1])
           Step(h) == [n \in 0..N |-> IF n = 0 THEN ChainFrom(f, name) ELSE Follow(p, h[n - 1])]
           Eq(h) == h = Step(h)
<1>1. N \in Nat
  BY NamesAssumption
<1>2. PICK F : F = [n \in 0..N |-> F[n]] /\ IsChain(F, p, f, name, N)
  BY <1>1, ChainExists
<1>3. Eq(F)
  <2>1. F[0] = ChainFrom(f, name) /\ \A n \in 1..N : F[n] = Follow(p, F[n - 1])
    BY <1>2 DEF IsChain
  <2> HIDE DEF N
  <2>2. \A n \in 0..N : n = 0 \/ (n \in 1..N /\ n # 0)
    BY <1>1
  <2> QED
    BY <1>2, <2>1, <2>2
<1>4. Eq(CHOOSE h : Eq(h))
  <2> HIDE DEF Eq
  <2> QED
    BY <1>3
<1>5. Eq(at)
  BY <1>4 DEF ChainFrom
<1>6. UnderlyingType(p, f, name) = at[N]
  BY DEF UnderlyingType
<1> DEFINE e == at
<1>7. Eq(e) /\ UnderlyingType(p, f, name) = e[N]
  BY <1>5, <1>6
<1> HIDE DEF e
<1>8. e[0] = ChainFrom(f, name) /\ \A n \in 1..N : e[n] = Follow(p, e[n - 1])
  <2> HIDE DEF N
  <2>1. 0 \in 0..N /\ \A n \in 1..N : n \in 0..N /\ n # 0
    BY <1>1
  <2> QED
    BY <1>7, <2>1
<1>9. IsChain(e, p, f, name, N)
  BY <1>8 DEF IsChain
<1> HIDE DEF Step, Eq
<1> QED
  BY <1>7, <1>9

\* A state of the loop, and what is so of its type once it is done.
Shaped(at) == at \in [file : {at.file}, type : {at.type}, known : BOOLEAN, done : BOOLEAN]
Ends(p, at) ==
  at.done /\ at.known /\ at.type # <<>> =>
    ResolveType(p, at.file, at.type).kind \notin {"none", "typedef"}

LEMMA FollowKeeps ==
  ASSUME NEW p, NEW at, Shaped(at), Ends(p, at)
  PROVE  /\ Shaped(Follow(p, at)) /\ Ends(p, Follow(p, at))
         /\ at.done => Follow(p, at) = at
<1> DEFINE d == ResolveType(p, at.file, at.type)
           t == Follow(p, at)
<1>1. t = IF at.done \/ at.type = <<>> THEN [at EXCEPT !.done = TRUE]
          ELSE IF d.kind = "none" THEN [at EXCEPT !.done = TRUE, !.known = FALSE]
          ELSE IF d.kind # "typedef" THEN [at EXCEPT !.done = TRUE]
          ELSE [at EXCEPT !.type = TargetOf(p, d), !.file = d.place.file]
  BY DEF Follow
<1>2. d = ResolveType(p, at.file, at.type)
  OBVIOUS
<1> HIDE DEF t, d
<1>3. CASE at.done \/ at.type = <<>>
  <2>1. t = [at EXCEPT !.done = TRUE]
    BY <1>1, <1>3
  <2>2. Shaped(t) /\ t.file = at.file /\ t.type = at.type /\ t.known = at.known
    BY <2>1 DEF Shaped
  <2>3. at.done => t = at
    BY <2>1 DEF Shaped
  <2> QED
    BY <1>3, <2>2, <2>3 DEF Ends, t
<1>4. CASE ~(at.done \/ at.type = <<>>) /\ d.kind = "none"
  <2>1. t = [at EXCEPT !.done = TRUE, !.known = FALSE]
    BY <1>1, <1>4
  <2>2. Shaped(t) /\ ~t.known
    BY <2>1 DEF Shaped
  <2> QED
    BY <1>4, <2>2 DEF Ends, t
<1>5. CASE ~(at.done \/ at.type = <<>>) /\ d.kind # "none" /\ d.kind # "typedef"
  <2>1. t = [at EXCEPT !.done = TRUE]
    BY <1>1, <1>5
  <2>2. Shaped(t) /\ t.file = at.file /\ t.type = at.type
    BY <2>1 DEF Shaped
  <2>3. ResolveType(p, t.file, t.type).kind \notin {"none", "typedef"}
    BY <1>2, <1>5, <2>2
  <2> QED
    BY <1>5, <2>2, <2>3 DEF Ends, t
<1>6. CASE ~(at.done \/ at.type = <<>>) /\ d.kind = "typedef"
  <2>1. t = [at EXCEPT !.type = TargetOf(p, d), !.file = d.place.file]
    BY <1>1, <1>6
  <2>2. Shaped(t) /\ t.done = at.done
    BY <2>1 DEF Shaped
  <2> QED
    BY <1>6, <2>2 DEF Ends, t
<1> QED
  BY <1>3, <1>4, <1>5, <1>6

LEMMA ChainKeeps ==
  ASSUME NEW p, NEW f, NEW name, NEW N \in Nat, NEW h, IsChain(h, p, f, name, N)
  PROVE  \A n \in 0..N : Shaped(h[n]) /\ Ends(p, h[n])
<1> DEFINE T == {n \in 0..N : Shaped(h[n]) /\ Ends(p, h[n])}
<1>1. 0 \in T
  <2>1. h[0] = ChainFrom(f, name)
    BY DEF IsChain
  <2> DEFINE c == ChainFrom(f, name)
  <2>2. Shaped(c) /\ ~c.done
    BY DEF ChainFrom, Shaped
  <2> HIDE DEF c
  <2> QED
    BY <2>1, <2>2 DEF Ends, c
<1>2. ASSUME NEW n \in 1..N, n - 1 \in T PROVE n \in T
  <2>1. h[n] = Follow(p, h[n - 1]) /\ Shaped(h[n - 1]) /\ Ends(p, h[n - 1])
    BY <1>2 DEF IsChain
  <2>2. Shaped(h[n]) /\ Ends(p, h[n])
    BY <2>1, FollowKeeps
  <2> QED
    BY <2>2
<1>3. 0..N \subseteq T
  <2> HIDE DEF T
  <2> QED
    BY <1>1, <1>2, BoundedInduction
<1> QED
  BY <1>3

\* The chain from the target of a typedef is the chain from the typedef, one
\* turn later.
LEMMA TypedefShifts ==
  ASSUME NEW p, NEW f, NEW name,
         ResolveType(p, f, name).kind = "typedef"
  PROVE  LET def == ResolveType(p, f, name)
             end == UnderlyingType(p, f, name)
         IN  end.done => end = UnderlyingType(p, def.place.file, TargetOf(p, def))
<1> DEFINE def == ResolveType(p, f, name)
           df == def.place.file
           target == TargetOf(p, def)
           N == MaxTypedefDepth
<1>1. N \in Nat /\ N >= 1
  BY NamesAssumption
<1>2. PICK h : UnderlyingType(p, f, name) = h[N] /\ IsChain(h, p, f, name, N)
  BY UnderlyingRecursion
<1>3. PICK g : UnderlyingType(p, df, target) = g[N] /\ IsChain(g, p, df, target, N)
  BY UnderlyingRecursion
<1>4. def.kind = "typedef"
  OBVIOUS
<1>5. name # <<>> /\ name \notin BasicType
  BY DEF ResolveType, Nothing
<1>6. target = <<>> \/ target \notin BasicType
  BY DEF TargetOf
<1>7. def = ResolveType(p, f, name)
  OBVIOUS
<1>8. target = TargetOf(p, def) /\ df = def.place.file
  OBVIOUS
<1> HIDE DEF def, target, df, N
<1>9. h[0] = ChainFrom(f, name) /\ g[0] = ChainFrom(df, target)
  BY <1>2, <1>3 DEF IsChain
<1>10. h[1] = Follow(p, h[0])
  BY <1>1, <1>2 DEF IsChain
<1>11. h[0] = [file |-> f, type |-> name, known |-> TRUE, done |-> FALSE]
  BY <1>5, <1>9 DEF ChainFrom
<1>12. g[0] = [file |-> df, type |-> target, known |-> TRUE, done |-> FALSE]
  BY <1>6, <1>9 DEF ChainFrom
<1>13. h[1] = g[0]
  <2>1. ResolveType(p, h[0].file, h[0].type) = def /\ ~h[0].done /\ h[0].type # <<>>
    BY <1>5, <1>7, <1>11
  <2>2. h[1] = [h[0] EXCEPT !.type = target, !.file = df]
    BY <1>4, <1>8, <1>10, <2>1 DEF Follow
  <2>3. h[1] \in [file : {df}, type : {target}, known : {TRUE}, done : {FALSE}]
    <3> DEFINE a == h[0]
               b == h[1]
    <3>1. a = [file |-> f, type |-> name, known |-> TRUE, done |-> FALSE]
      BY <1>11
    <3>2. b = [a EXCEPT !.type = target, !.file = df]
      BY <2>2
    <3> HIDE DEF a, b
    <3>3. b \in [file : {df}, type : {target}, known : {TRUE}, done : {FALSE}]
      BY <3>1, <3>2
    <3> QED
      BY <3>3 DEF b
  <2>4. h[1].file = df /\ h[1].type = target /\ h[1].known = TRUE /\ h[1].done = FALSE
    BY <2>3
  <2>5. h[1] = [file |-> h[1].file, type |-> h[1].type, known |-> h[1].known, done |-> h[1].done]
    BY <2>3
  <2> QED
    BY <1>12, <2>4, <2>5
<1>14. \A n \in 0..(N - 1) : h[n + 1] = g[n]
  <2> DEFINE T == {n \in 0..(N - 1) : h[n + 1] = g[n]}
  <2>1. 0 \in T
    BY <1>1, <1>13
  <2>2. ASSUME NEW n \in 1..(N - 1), n - 1 \in T PROVE n \in T
    <3>1. n \in 1..N /\ n + 1 \in 1..N /\ (n + 1) - 1 = n /\ (n - 1) + 1 = n
      BY <1>1
    <3>2. h[n] = g[n - 1]
      BY <2>2, <3>1
    <3>3. h[n + 1] = Follow(p, h[n]) /\ g[n] = Follow(p, g[n - 1])
      BY <1>2, <1>3, <3>1 DEF IsChain
    <3> QED
      BY <1>1, <3>2, <3>3
  <2>3. 0..(N - 1) \subseteq T
    <3>1. N - 1 \in Nat
      BY <1>1
    <3> HIDE DEF T
    <3> QED
      BY <2>1, <2>2, <3>1, BoundedInduction
  <2> QED
    BY <2>3
<1>15. h[N] = g[N - 1]
  <2>1. N - 1 \in 0..(N - 1) /\ (N - 1) + 1 = N
    BY <1>1
  <2> QED
    BY <1>14, <2>1
<1>16. g[N] = Follow(p, g[N - 1])
  BY <1>1, <1>3 DEF IsChain
<1>17. h[N].done => Follow(p, h[N]) = h[N]
  <2>1. Shaped(h[N]) /\ Ends(p, h[N])
    <3>1. N \in 0..N
      BY <1>1
    <3> QED
      BY <1>1, <1>2, <3>1, ChainKeeps
  <2> QED
    BY <2>1, FollowKeeps
<1>18. h[N].done => h[N] = g[N]
  BY <1>15, <1>16, <1>17
<1>19. UnderlyingType(p, f, name).done =>
         UnderlyingType(p, f, name) = UnderlyingType(p, df, target)
  BY <1>2, <1>3, <1>18
<1> QED
  BY <1>19 DEF def, df, target

LEMMA UnderlyingEnds ==
  ASSUME NEW p, NEW f, NEW name
  PROVE  Ends(p, UnderlyingType(p, f, name))
<1> DEFINE N == MaxTypedefDepth
<1>1. N \in Nat /\ N \in 0..N
  BY NamesAssumption
<1>2. PICK h : UnderlyingType(p, f, name) = h[N] /\ IsChain(h, p, f, name, N)
  BY UnderlyingRecursion
<1> HIDE DEF N
<1> QED
  BY <1>1, <1>2, ChainKeeps

\* A typedef stands for its target wherever it is used, in every project:
\* an underlying type that is found is the one that the target has in the
\* file of the typedef, and it is no typedef.
THEOREM TypedefsStand == Spec => []TypedefsStandForTargets
<1>1. TypedefsStandForTargets
  <2> SUFFICES ASSUME NEW place \in RefPlaces(project),
                      RefAt(project, place).kind \in TypeSlots,
                      UnderlyingType(project, place.file, TextAt(project, place)).done
               PROVE  LET p == project
                          def == MeantBy(p, place)
                          end == UnderlyingType(p, place.file, TextAt(p, place))
                      IN  /\ def.kind = "typedef" =>
                               end = UnderlyingType(p, def.place.file, TargetOf(p, def))
                          /\ end.known /\ end.type # <<>> =>
                               ResolveType(p, end.file, end.type).kind \notin {"none", "typedef"}
    BY DEF TypedefsStandForTargets
  <2> DEFINE p == project
             f == place.file
             name == TextAt(p, place)
             end == UnderlyingType(p, f, name)
             ref == RefAt(p, place)
  <2>1. name = ref.name
    BY DEF RefPlaces, TextAt
  <2>2. MeantBy(p, place) = ResolveType(p, f, name)
    BY <2>1 DEF MeantBy, ResolveReference, TypeSlots
  <2>3. end.known /\ end.type # <<>> =>
          ResolveType(p, end.file, end.type).kind \notin {"none", "typedef"}
    BY UnderlyingEnds DEF Ends
  <2>4. ResolveType(p, f, name).kind = "typedef" =>
          end = UnderlyingType(p, ResolveType(p, f, name).place.file,
                               TargetOf(p, ResolveType(p, f, name)))
    BY TypedefShifts
  <2> QED
    BY <2>2, <2>3, <2>4
<1> QED
  BY <1>1, PTL

-----------------------------------------------------------------------------
(***************************************************************************)
(* Sequences of sequences.                                                 *)
(***************************************************************************)
IsFlatten(F, ss) ==
  /\ F[0] = <<>>
  /\ \A n \in 1..Len(ss) : F[n] = F[n - 1] \o ss[n]

LEMMA FlattenRecursion ==
  ASSUME NEW S, NEW ss \in Seq(Seq(S))
  PROVE  \E F \in [0..Len(ss) -> Seq(S)] : IsFlatten(F, ss) /\ FlattenSeq(ss) = F[Len(ss)]
<1> DEFINE N == Len(ss)
           L == Seq(S)
           Body(n, s) == s \o ss[n]
           f[i \in 1..Len(ss)] == IF i = 1 THEN ss[i] ELSE f[i - 1] \o ss[i]
           Step(h) == [i \in 1..Len(ss) |-> IF i = 1 THEN ss[i] ELSE h[i - 1] \o ss[i]]
           Eq(h) == h = Step(h)
           g == [q \in (1..N) \X L |-> Body(q[1], q[2])]
<1>1. N \in Nat /\ <<>> \in L /\ DOMAIN ss = 1..N /\ \A n \in 1..N : ss[n] \in L
  OBVIOUS
<1>2. ASSUME NEW n \in 1..N, NEW s \in L PROVE Body(n, s) \in L
  BY <1>1
<1>3. g \in [(1..N) \X L -> L] /\ \A n \in 1..N, s \in L : g[<<n, s>>] = Body(n, s)
  <2> HIDE DEF Body, L, N
  <2> QED
    BY <1>2
<1>4. PICK F : IsRecursion(F, L, N, <<>>, g)
  <2> HIDE DEF g, L, N
  <2> QED
    BY <1>1, <1>3, Recursion
<1>5. /\ F \in [0..N -> L] /\ F[0] = <<>>
      /\ \A n \in 1..N : F[n] = Body(n, F[n - 1])
  <2> HIDE DEF g, Body, L, N
  <2>1. /\ F \in [0..N -> L] /\ F[0] = <<>>
        /\ \A n \in 1..N : F[n] = g[<<n, F[n - 1]>>] /\ n - 1 \in 0..N
    BY <1>1, <1>4 DEF IsRecursion
  <2> QED
    BY <1>3, <2>1
<1>6. IsFlatten(F, ss)
  BY <1>5 DEF IsFlatten
<1> DEFINE H == [i \in 1..N |-> F[i]]
<1>7. Eq(H)
  <2>1. ASSUME NEW i \in 1..N
        PROVE  H[i] = IF i = 1 THEN ss[i] ELSE H[i - 1] \o ss[i]
    <3>1. CASE i = 1
      <4>1. F[1] = <<>> \o ss[1] /\ ss[1] \in Seq(S)
        BY <1>1, <1>5, <3>1
      <4> QED
        BY <3>1, <4>1
    <3>2. CASE i # 1
      <4>1. i - 1 \in 1..N
        BY <1>1, <3>2
      <4>2. H[i] = F[i] /\ H[i - 1] = F[i - 1]
        BY <4>1
      <4>3. F[i] = F[i - 1] \o ss[i]
        BY <1>5
      <4> QED
        BY <3>2, <4>2, <4>3
    <3> QED
      BY <3>1, <3>2
  <2> DEFINE V(i) == IF i = 1 THEN ss[i] ELSE H[i - 1] \o ss[i]
  <2>2. \A i \in 1..N : H[i] = V(i)
    BY <2>1
  <2>3. H = [i \in 1..N |-> V(i)]
    <3>1. H = [i \in 1..N |-> H[i]]
      OBVIOUS
    <3> HIDE DEF H, V, N
    <3> QED
      BY <2>2, <3>1
  <2> QED
    BY <2>3
<1>8. Eq(CHOOSE h : Eq(h))
  <2> HIDE DEF Eq
  <2> QED
    BY <1>7
<1>9. Eq(f)
  BY <1>8
<1>10. CASE N = 0
  <2>1. FlattenSeq(ss) = ss /\ ss = <<>>
    BY <1>1, <1>10 DEF FlattenSeq
  <2> QED
    BY <1>5, <1>6, <1>10, <2>1
<1>11. CASE N # 0
  <2>1. FlattenSeq(ss) = f[N]
    BY <1>11 DEF FlattenSeq
  <2> DEFINE e == f
  <2>2. Eq(e) /\ FlattenSeq(ss) = e[N]
    BY <1>9, <2>1
  <2> HIDE DEF e
  <2>3. /\ N # 0 => e[1] = ss[1]
        /\ \A i \in 1..N : i # 1 => e[i] = e[i - 1] \o ss[i]
    <3> DEFINE V(i) == IF i = 1 THEN ss[i] ELSE e[i - 1] \o ss[i]
    <3>1. e = [i \in 1..N |-> V(i)]
      BY <2>2
    <3> HIDE DEF V, N
    <3>2. \A i \in 1..N : e[i] = V(i)
      BY <3>1
    <3>3. N # 0 => 1 \in 1..N
      BY <1>1
    <3> QED
      BY <3>2, <3>3 DEF V
  <2> DEFINE T == {n \in 0..N : n = 0 \/ e[n] = F[n]}
  <2>4. 0 \in T
    BY <1>1
  <2>5. ASSUME NEW n \in 1..N, n - 1 \in T PROVE n \in T
    <3>1. CASE n = 1
      <4>1. F[1] = <<>> \o ss[1] /\ ss[1] \in Seq(S)
        BY <1>1, <1>5, <3>1
      <4> QED
        BY <1>11, <2>3, <3>1, <4>1
    <3>2. CASE n # 1
      <4>1. e[n - 1] = F[n - 1] /\ n # 0
        BY <2>5, <3>2
      <4>2. F[n] = F[n - 1] \o ss[n]
        BY <1>5
      <4>3. e[n] = e[n - 1] \o ss[n]
        BY <2>3, <3>2
      <4>4. e[n] = F[n]
        BY <4>1, <4>2, <4>3
      <4>5. n \in 0..N
        OBVIOUS
      <4> QED
        BY <4>4, <4>5
    <3> QED
      BY <3>1, <3>2
  <2>6. 0..N \subseteq T
    <3> HIDE DEF T, N
    <3> QED
      BY <1>1, <2>4, <2>5, BoundedInduction
  <2>7. e[N] = F[N]
    BY <1>1, <1>11, <2>6
  <2> QED
    BY <1>5, <1>6, <2>2, <2>7
<1> QED
  BY <1>10, <1>11

\* No two elements are at one place.
Apart(s) == \A j, k \in DOMAIN s : j # k => s[j].place # s[k].place
Elsewhere(s, t) == \A x \in DOMAIN s, y \in DOMAIN t : s[x].place # t[y].place
AllApart(ss) ==
  /\ \A n \in DOMAIN ss : Apart(ss[n])
  /\ \A m, n \in DOMAIN ss : m # n => Elsewhere(ss[m], ss[n])

LEMMA ApartConcat ==
  ASSUME NEW S, NEW a \in Seq(S), NEW b \in Seq(S), Apart(a), Apart(b), Elsewhere(a, b)
  PROVE  Apart(a \o b)
<1> DEFINE c == a \o b
           la == Len(a)
           lb == Len(b)
<1>1. /\ la \in Nat /\ lb \in Nat
      /\ DOMAIN a = 1..la /\ DOMAIN b = 1..lb /\ DOMAIN c = 1..(la + lb)
      /\ \A i \in 1..(la + lb) : c[i] = IF i <= la THEN a[i] ELSE b[i - la]
  OBVIOUS
<1> HIDE DEF c, la, lb
<1>2. ASSUME NEW j \in 1..(la + lb), NEW k \in 1..(la + lb), j < k
      PROVE  c[j].place # c[k].place
  <2>1. CASE k <= la
    <3>1. j \in 1..la /\ k \in 1..la /\ j # k /\ c[j] = a[j] /\ c[k] = a[k]
      BY <1>1, <1>2, <2>1
    <3> QED
      BY <1>1, <3>1 DEF Apart
  <2>2. CASE ~(j <= la)
    <3>1. j - la \in 1..lb /\ k - la \in 1..lb /\ j - la # k - la
      BY <1>1, <1>2, <2>2
    <3>2. c[j] = b[j - la] /\ c[k] = b[k - la]
      BY <1>1, <1>2, <2>2
    <3> QED
      BY <1>1, <3>1, <3>2 DEF Apart
  <2>3. CASE j <= la /\ ~(k <= la)
    <3>1. j \in 1..la /\ k - la \in 1..lb
      BY <1>1, <2>3
    <3>2. c[j] = a[j] /\ c[k] = b[k - la]
      BY <1>1, <2>3
    <3> QED
      BY <1>1, <3>1, <3>2 DEF Elsewhere
  <2> QED
    BY <1>1, <2>1, <2>2, <2>3
<1>3. \A j, k \in 1..(la + lb) : j # k => c[j].place # c[k].place
  <2> SUFFICES ASSUME NEW j \in 1..(la + lb), NEW k \in 1..(la + lb), j # k
               PROVE  c[j].place # c[k].place
    OBVIOUS
  <2>1. j < k \/ k < j
    BY <1>1
  <2> QED
    BY <1>2, <2>1
<1>4. Apart(c)
  BY <1>1, <1>3 DEF Apart
<1> QED
  BY <1>4 DEF c

\* What a flattened sequence holds: the elements of the sequences in it, and
\* none of them twice.
LEMMA FlattenProperties ==
  ASSUME NEW S, NEW ss \in Seq(Seq(S))
  PROVE  /\ FlattenSeq(ss) \in Seq(S)
         /\ \A i \in DOMAIN FlattenSeq(ss) :
              \E j \in DOMAIN ss : \E x \in DOMAIN ss[j] : FlattenSeq(ss)[i] = ss[j][x]
         /\ \A j \in DOMAIN ss : \A x \in DOMAIN ss[j] :
              \E i \in DOMAIN FlattenSeq(ss) : FlattenSeq(ss)[i] = ss[j][x]
         /\ AllApart(ss) => Apart(FlattenSeq(ss))
<1> DEFINE N == Len(ss)
<1>1. N \in Nat /\ DOMAIN ss = 1..N /\ \A n \in 1..N : ss[n] \in Seq(S)
  OBVIOUS
<1>2. PICK F \in [0..N -> Seq(S)] : IsFlatten(F, ss) /\ FlattenSeq(ss) = F[N]
  BY FlattenRecursion
<1> HIDE DEF N
<1>3. F[0] = <<>> /\ \A n \in 1..N : F[n] = F[n - 1] \o ss[n]
  BY <1>2 DEF IsFlatten, N
<1> DEFINE Holds(n) == \A i \in DOMAIN F[n] : \E j \in 1..n : \E x \in DOMAIN ss[j] : F[n][i] = ss[j][x]
           Held(n) == \A j \in 1..n : \A x \in DOMAIN ss[j] : \E i \in DOMAIN F[n] : F[n][i] = ss[j][x]
           T == {n \in 0..N : Holds(n) /\ Held(n) /\ (AllApart(ss) => Apart(F[n]))}
<1>4. 0 \in T
  BY <1>1, <1>3 DEF Apart
<1>5. ASSUME NEW n \in 1..N, n - 1 \in T PROVE n \in T
  <2> DEFINE a == F[n - 1]
             b == ss[n]
             c == F[n]
  <2>1. a \in Seq(S) /\ b \in Seq(S) /\ c = a \o b /\ n - 1 \in 0..N
    <3>1. n - 1 \in 0..N
      BY <1>1
    <3> QED
      BY <1>1, <1>3, <3>1
  <2>2. Holds(n - 1) /\ Held(n - 1) /\ (AllApart(ss) => Apart(a))
    BY <1>5
  <2>3. /\ \A i \in DOMAIN a : \E j \in 1..(n - 1) : \E x \in DOMAIN ss[j] : a[i] = ss[j][x]
        /\ \A j \in 1..(n - 1) : \A x \in DOMAIN ss[j] : \E i \in DOMAIN a : a[i] = ss[j][x]
        /\ AllApart(ss) => Apart(a)
    BY <2>2
  <2>4. b = ss[n]
    OBVIOUS
  <2> HIDE DEF a, b, c
  <2>5. /\ \A i \in DOMAIN c : \/ i \in DOMAIN a /\ c[i] = a[i]
                               \/ \E x \in DOMAIN b : c[i] = b[x]
        /\ \A i \in DOMAIN a : i \in DOMAIN c /\ c[i] = a[i]
        /\ \A x \in DOMAIN b : \E i \in DOMAIN c : c[i] = b[x]
    <3> DEFINE la == Len(a)
               lb == Len(b)
    <3>1. /\ la \in Nat /\ lb \in Nat
          /\ DOMAIN a = 1..la /\ DOMAIN b = 1..lb /\ DOMAIN c = 1..(la + lb)
          /\ \A i \in 1..(la + lb) : c[i] = IF i <= la THEN a[i] ELSE b[i - la]
      BY <2>1
    <3> HIDE DEF la, lb
    <3>2. ASSUME NEW i \in 1..(la + lb)
          PROVE  \/ i \in 1..la /\ c[i] = a[i]
                 \/ \E x \in 1..lb : c[i] = b[x]
      <4>1. CASE i <= la
        BY <3>1, <4>1
      <4>2. CASE ~(i <= la)
        <5>1. i - la \in 1..lb /\ c[i] = b[i - la]
          BY <3>1, <4>2
        <5> QED
          BY <5>1
      <4> QED
        BY <4>1, <4>2
    <3>3. ASSUME NEW i \in 1..la PROVE i \in 1..(la + lb) /\ c[i] = a[i]
      BY <3>1
    <3>4. ASSUME NEW x \in 1..lb PROVE \E i \in 1..(la + lb) : c[i] = b[x]
      <4>1. la + x \in 1..(la + lb) /\ ~(la + x <= la) /\ (la + x) - la = x
        BY <3>1
      <4>2. c[la + x] = b[x]
        BY <3>1, <4>1
      <4> QED
        BY <4>1, <4>2
    <3> QED
      BY <3>1, <3>2, <3>3, <3>4
  <2>6. \A i \in DOMAIN c : \E j \in 1..n : \E x \in DOMAIN ss[j] : c[i] = ss[j][x]
    <3> SUFFICES ASSUME NEW i \in DOMAIN c
                 PROVE  \E j \in 1..n : \E x \in DOMAIN ss[j] : c[i] = ss[j][x]
      OBVIOUS
    <3>1. CASE i \in DOMAIN a /\ c[i] = a[i]
      <4>1. PICK j \in 1..(n - 1) : \E x \in DOMAIN ss[j] : a[i] = ss[j][x]
        BY <2>3, <3>1
      <4>2. j \in 1..n
        BY <1>1
      <4> QED
        BY <3>1, <4>1, <4>2
    <3>2. CASE \E x \in DOMAIN b : c[i] = b[x]
      <4>1. n \in 1..n
        BY <1>1
      <4> QED
        BY <2>4, <3>2, <4>1
    <3> QED
      BY <2>5, <3>1, <3>2
  <2>7. \A j \in 1..n : \A x \in DOMAIN ss[j] : \E i \in DOMAIN c : c[i] = ss[j][x]
    <3> SUFFICES ASSUME NEW j \in 1..n, NEW x \in DOMAIN ss[j]
                 PROVE  \E i \in DOMAIN c : c[i] = ss[j][x]
      OBVIOUS
    <3>1. CASE j = n
      BY <2>4, <2>5, <3>1
    <3>2. CASE j # n
      <4>1. j \in 1..(n - 1)
        BY <1>1, <3>2
      <4>2. PICK i \in DOMAIN a : a[i] = ss[j][x]
        BY <2>3, <4>1
      <4> QED
        BY <2>5, <4>2
    <3> QED
      BY <3>1, <3>2
  <2>8. c = F[n]
    BY DEF c
  <2>9. n \in 0..N
    BY <1>1
  <2>10. ASSUME AllApart(ss) PROVE Apart(c)
    <3>1. Apart(a) /\ Apart(b)
      BY <1>1, <2>3, <2>4, <2>10 DEF AllApart
    <3>2. ASSUME NEW i \in DOMAIN a, NEW y \in DOMAIN b PROVE a[i].place # b[y].place
      <4>1. PICK j \in 1..(n - 1) : \E x \in DOMAIN ss[j] : a[i] = ss[j][x]
        BY <2>3
      <4>2. PICK x \in DOMAIN ss[j] : a[i] = ss[j][x]
        BY <4>1
      <4>3. j \in 1..N /\ j # n
        BY <1>1
      <4>4. Elsewhere(ss[j], ss[n])
        BY <1>1, <2>10, <4>3 DEF AllApart
      <4> QED
        BY <2>4, <4>2, <4>4 DEF Elsewhere
    <3>3. Elsewhere(a, b)
      BY <3>2 DEF Elsewhere
    <3> QED
      BY <2>1, <3>1, <3>3, ApartConcat
  <2> QED
    BY <2>6, <2>7, <2>8, <2>9, <2>10
<1>6. 0..N \subseteq T
  <2> HIDE DEF T
  <2> QED
    BY <1>1, <1>4, <1>5, BoundedInduction
<1>7. Holds(N) /\ Held(N) /\ (AllApart(ss) => Apart(F[N]))
  <2>1. N \in T
    BY <1>1, <1>6
  <2> QED
    BY <2>1
<1>8. F[N] \in Seq(S)
  BY <1>1
<1> DEFINE c == F[N]
<1>9. /\ c \in Seq(S)
      /\ \A i \in DOMAIN c : \E j \in DOMAIN ss : \E x \in DOMAIN ss[j] : c[i] = ss[j][x]
      /\ \A j \in DOMAIN ss : \A x \in DOMAIN ss[j] : \E i \in DOMAIN c : c[i] = ss[j][x]
      /\ AllApart(ss) => Apart(c)
  BY <1>1, <1>7, <1>8
<1>10. FlattenSeq(ss) = c
  BY <1>2
<1> HIDE DEF c
<1> QED
  BY <1>9, <1>10

-----------------------------------------------------------------------------
(***************************************************************************)
(* Who includes a file, over any includes.                                 *)
(***************************************************************************)
Grown(p, s) == s \cup UNION {Includers(p, g) : g \in s}
IsWithin(h, p, f, N) == h[0] = Includers(p, f) /\ \A n \in 1..N : h[n] = Grown(p, h[n - 1])

\* Dependents grows from the includers of the file.
LEMMA DependentsRecursion ==
  ASSUME NEW p, NEW f, IsFiniteSet(DOMAIN p)
  PROVE  LET N == Cardinality(DOMAIN p)
         IN  \E h \in [0..N -> SUBSET DOMAIN p] : Dependents(p, f) = h[N] /\ IsWithin(h, p, f, N)
<1> DEFINE N == Cardinality(DOMAIN p)
           L == SUBSET DOMAIN p
           Body(n, s) == Grown(p, s)
           within[n \in 0 .. Cardinality(DOMAIN p)] ==
             IF n = 0 THEN Includers(p, f)
             ELSE within[n - 1] \cup UNION {Includers(p, g) : g \in within[n - 1]}
           Step(h) == [n \in 0..N |-> IF n = 0 THEN Includers(p, f) ELSE Body(n, h[n - 1])]
           Eq(h) == h = Step(h)
           g == [q \in (1..N) \X L |-> Body(q[1], q[2])]
<1>1. N \in Nat /\ Includers(p, f) \in L
  BY FS_CardinalityType DEF Includers
<1>2. ASSUME NEW n \in 1..N, NEW s \in L PROVE Body(n, s) \in L
  BY DEF Grown, Includers
<1>3. g \in [(1..N) \X L -> L] /\ \A n \in 1..N, s \in L : g[<<n, s>>] = Body(n, s)
  <2> HIDE DEF Body, L, N
  <2> QED
    BY <1>2
<1>4. PICK F : IsRecursion(F, L, N, Includers(p, f), g)
  <2> HIDE DEF g, L, N
  <2> QED
    BY <1>1, <1>3, Recursion
<1>5. Eq(F)
  <2> HIDE DEF g, Body, L, N
  <2>1. /\ F \in [0..N -> L] /\ F[0] = Includers(p, f)
        /\ \A n \in 1..N : F[n] = g[<<n, F[n - 1]>>] /\ n - 1 \in 0..N /\ n # 0
    BY <1>1, <1>4 DEF IsRecursion
  <2>2. \A n \in 1..N : F[n] = Body(n, F[n - 1]) /\ n # 0
    BY <1>3, <2>1
  <2>3. \A n \in 0..N : n = 0 \/ n \in 1..N
    BY <1>1
  <2> QED
    BY <2>1, <2>2, <2>3
<1>6. Eq(CHOOSE h : Eq(h))
  <2> HIDE DEF Eq
  <2> QED
    BY <1>5
<1>7. Eq(within)
  BY <1>6 DEF Grown
<1>8. Dependents(p, f) = within[N]
  BY DEF Dependents
<1> DEFINE e == within
<1>9. Eq(e) /\ Dependents(p, f) = e[N]
  BY <1>7, <1>8
<1> HIDE DEF e
<1>10. /\ e[0] = Includers(p, f)
       /\ \A n \in 1..N : e[n] = Body(n, e[n - 1])
  <2> HIDE DEF Body, N
  <2>1. \A n \in 1..N : n \in 0..N /\ n # 0
    OBVIOUS
  <2>2. 0 \in 0..N
    BY <1>1
  <2> QED
    BY <1>9, <2>1, <2>2
<1>11. IsWithin(e, p, f, N)
  BY <1>10 DEF IsWithin
<1>12. e \in [0..N -> L]
  <2> DEFINE T == {n \in 0..N : e[n] \in L}
  <2>1. 0 \in T
    BY <1>1, <1>10
  <2>2. ASSUME NEW n \in 1..N, n - 1 \in T PROVE n \in T
    <3>1. e[n] = Body(n, e[n - 1]) /\ e[n - 1] \in L
      BY <1>10, <2>2
    <3> HIDE DEF Body, L
    <3> QED
      BY <1>2, <3>1
  <2>3. 0..N \subseteq T
    <3> HIDE DEF T, N
    <3> QED
      BY <1>1, <2>1, <2>2, BoundedInduction
  <2>4. e = [n \in 0..N |-> e[n]]
    <3> HIDE DEF Body
    <3> QED
      BY <1>9
  <2> HIDE DEF L, N
  <2> QED
    BY <2>3, <2>4
<1> HIDE DEF Step, Body, Eq
<1> QED
  BY <1>9, <1>11, <1>12

\* The files that reach a file over n + 1 includes or fewer: another include
\* finds more of them, or there are n + 1 already, or all have been found.
LEMMA DependentsLayers ==
  ASSUME NEW p, NEW f, IsFiniteSet(DOMAIN p)
  PROVE  LET N == Cardinality(DOMAIN p)
         IN  \E h \in [0..N -> SUBSET DOMAIN p] :
               /\ Dependents(p, f) = h[N] /\ IsWithin(h, p, f, N)
               /\ \A n \in 0..N : Grown(p, h[n]) = h[n] \/ Cardinality(h[n]) >= n + 1
<1> DEFINE N == Cardinality(DOMAIN p)
           D == Dependents(p, f)
<1>1. N \in Nat
  BY FS_CardinalityType
<1>2. PICK h \in [0..N -> SUBSET DOMAIN p] : D = h[N] /\ IsWithin(h, p, f, N)
  BY DependentsRecursion
<1>3. h[0] = Includers(p, f) /\ \A n \in 1..N : h[n] = Grown(p, h[n - 1])
  BY <1>2 DEF IsWithin
<1> HIDE DEF N, D
<1>4. \A n \in 0..N : IsFiniteSet(h[n]) /\ h[n] \subseteq DOMAIN p
  BY <1>2, FS_Subset
<1> DEFINE T == {n \in 0..N : \/ Grown(p, h[n]) = h[n]
                               \/ Cardinality(h[n]) >= n + 1}
<1>5. 0 \in T
  <2>1. CASE h[0] = {}
    <3>1. Grown(p, {}) = {}
      BY DEF Grown
    <3>2. Grown(p, h[0]) = h[0] /\ 0 \in 0..N
      BY <1>1, <2>1, <3>1
    <3> QED
      BY <3>2
  <2>2. CASE h[0] # {}
    <3>1. IsFiniteSet(h[0])
      BY <1>1, <1>4
    <3>2. Cardinality(h[0]) \in Nat /\ Cardinality(h[0]) # 0
      BY <2>2, <3>1, FS_CardinalityType, FS_EmptySet
    <3>3. Cardinality(h[0]) >= 0 + 1
      BY <3>2
    <3> QED
      BY <1>1, <3>3
  <2> QED
    BY <2>1, <2>2
<1>6. ASSUME NEW n \in 1..N, n - 1 \in T PROVE n \in T
  <2> DEFINE a == h[n - 1]
             b == h[n]
  <2>1. b = Grown(p, a) /\ IsFiniteSet(a) /\ IsFiniteSet(b)
    <3>1. n - 1 \in 0..N /\ n \in 0..N
      BY <1>1
    <3> QED
      BY <1>3, <1>4, <3>1
  <2>2. Grown(p, a) = a \/ Cardinality(a) >= n
    BY <1>6
  <2> HIDE DEF a, b
  <2>3. Grown(p, b) = b \/ Cardinality(b) >= n + 1
    <3>1. CASE b = a
      BY <2>1, <3>1
    <3>2. CASE b # a
      <4>1. a \subseteq b
        BY <2>1 DEF Grown
      <4>2. Cardinality(a) <= Cardinality(b) /\ Cardinality(a) # Cardinality(b)
        BY <2>1, <3>2, <4>1, FS_Subset
      <4>3. Cardinality(a) \in Nat /\ Cardinality(b) \in Nat
        BY <2>1, FS_CardinalityType
      <4>4. Cardinality(a) >= n
        BY <2>1, <2>2, <3>2
      <4> QED
        BY <4>2, <4>3, <4>4
    <3> QED
      BY <3>1, <3>2
  <2> QED
    BY <2>3 DEF a, b
<1>7. 0..N \subseteq T
  <2> HIDE DEF T
  <2> QED
    BY <1>1, <1>5, <1>6, BoundedInduction
<1>8. \A n \in 0..N : Grown(p, h[n]) = h[n] \/ Cardinality(h[n]) >= n + 1
  BY <1>7
<1> QED
  BY <1>2, <1>8 DEF D, N

\* The files that depend on a file: its includers, and theirs, and no other.
LEMMA DependentsProperties ==
  ASSUME NEW p, NEW f, IsFiniteSet(DOMAIN p)
  PROVE  /\ Dependents(p, f) \subseteq DOMAIN p
         /\ IsFiniteSet(Dependents(p, f))
         /\ Includers(p, f) \subseteq Dependents(p, f)
         /\ \A g \in Dependents(p, f) : Includers(p, g) \subseteq Dependents(p, f)
         /\ \A C : (Includers(p, f) \subseteq C /\ \A g \in C : Includers(p, g) \subseteq C)
                     => Dependents(p, f) \subseteq C
<1> DEFINE N == Cardinality(DOMAIN p)
           D == Dependents(p, f)
<1>1. N \in Nat
  BY FS_CardinalityType
<1>2. PICK h \in [0..N -> SUBSET DOMAIN p] :
        /\ D = h[N] /\ IsWithin(h, p, f, N)
        /\ \A n \in 0..N : Grown(p, h[n]) = h[n] \/ Cardinality(h[n]) >= n + 1
  BY DependentsLayers
<1>3. h[0] = Includers(p, f) /\ \A n \in 1..N : h[n] = Grown(p, h[n - 1])
  BY <1>2 DEF IsWithin
<1> HIDE DEF N, D
<1>4. \A n \in 0..N : IsFiniteSet(h[n]) /\ h[n] \subseteq DOMAIN p
  BY <1>2, FS_Subset
<1>8. N \in 0..N
  BY <1>1
<1>9. Grown(p, D) = D
  <2>1. Grown(p, h[N]) = h[N] \/ Cardinality(h[N]) >= N + 1
    BY <1>2, <1>8
  <2>2. Cardinality(h[N]) <= N
    BY <1>4, <1>8, FS_Subset DEF N
  <2>3. Cardinality(h[N]) \in Nat
    BY <1>4, <1>8, FS_CardinalityType
  <2>4. ~(Cardinality(h[N]) >= N + 1)
    BY <1>1, <2>2, <2>3
  <2> QED
    BY <1>2, <2>1, <2>4
<1>10. D \subseteq DOMAIN p /\ IsFiniteSet(D)
  BY <1>2, <1>4, <1>8
<1>11. \A g \in D : Includers(p, g) \subseteq D
  BY <1>9 DEF Grown
<1>12. Includers(p, f) \subseteq D
  <2> DEFINE U == {n \in 0..N : Includers(p, f) \subseteq h[n]}
  <2>1. 0 \in U
    BY <1>1, <1>3
  <2>2. ASSUME NEW n \in 1..N, n - 1 \in U PROVE n \in U
    BY <1>3, <2>2 DEF Grown
  <2>3. 0..N \subseteq U
    <3> HIDE DEF U
    <3> QED
      BY <1>1, <2>1, <2>2, BoundedInduction
  <2> QED
    BY <1>2, <1>8, <2>3
<1>13. ASSUME NEW C, Includers(p, f) \subseteq C, \A g \in C : Includers(p, g) \subseteq C
       PROVE  D \subseteq C
  <2> DEFINE U == {n \in 0..N : h[n] \subseteq C}
  <2>1. 0 \in U
    BY <1>1, <1>3, <1>13
  <2>2. ASSUME NEW n \in 1..N, n - 1 \in U PROVE n \in U
    <3>1. h[n] = Grown(p, h[n - 1]) /\ h[n - 1] \subseteq C
      BY <1>3, <2>2
    <3>2. h[n] \subseteq C
      BY <1>13, <3>1 DEF Grown
    <3> QED
      BY <3>2
  <2>3. 0..N \subseteq U
    <3> HIDE DEF U
    <3> QED
      BY <1>1, <2>1, <2>2, BoundedInduction
  <2> QED
    BY <1>2, <1>8, <2>3
<1> QED
  BY <1>10, <1>11, <1>12, <1>13 DEF D

\* A set as a sequence: every element of it, once.
LEMMA SetToSeqProperties ==
  ASSUME NEW S, IsFiniteSet(S)
  PROVE  /\ SetToSeq(S) \in [1..Cardinality(S) -> S]
         /\ Cardinality(S) \in Nat
         /\ \A i, j \in 1..Cardinality(S) : SetToSeq(S)[i] = SetToSeq(S)[j] => i = j
         /\ \A x \in S : \E i \in 1..Cardinality(S) : SetToSeq(S)[i] = x
<1> DEFINE n == Cardinality(S)
           s == SetToSeq(S)
<1>1. n \in Nat /\ ExistsBijection(1..n, S)
  BY FS_CardinalityType
<1>2. \E f \in [1..n -> S] : IsInjective(f)
  BY <1>1 DEF ExistsBijection, Bijection, Injection
<1>3. s \in [1..n -> S] /\ IsInjective(s)
  BY <1>2 DEF SetToSeq
<1> HIDE DEF n, s
<1>4. \A i, j \in 1..n : s[i] = s[j] => i = j
  BY <1>3 DEF IsInjective
<1> DEFINE R == {s[i] : i \in 1..n}
<1>5. R = S
  <2>1. s \in Bijection(1..n, R)
    BY <1>3 DEF Bijection, Injection, Surjection, IsInjective
  <2>2. ExistsBijection(1..n, R)
    BY <2>1 DEF ExistsBijection
  <2>3. IsFiniteSet(1..n) /\ Cardinality(1..n) = n
    BY <1>1, FS_Interval
  <2>4. Cardinality(R) = n
    BY <2>2, <2>3, FS_Bijection
  <2>5. R \in SUBSET S
    BY <1>3
  <2>6. Cardinality(S) = Cardinality(R)
    BY <2>4 DEF n
  <2> HIDE DEF R
  <2> QED
    BY <2>5, <2>6, FS_Subset
<1>6. \A x \in S : \E i \in 1..n : s[i] = x
  BY <1>5
<1> QED
  BY <1>1, <1>3, <1>4, <1>6 DEF n, s

-----------------------------------------------------------------------------
(***************************************************************************)
(* What References and ReferencesTo find.                                  *)
(***************************************************************************)
\* The files that are searched: each once.
Lists(s, S) == \A g \in S : \E k \in DOMAIN s : s[k] = g

LEMMA SearchFilesProperties ==
  ASSUME NEW p, NEW f, IsFiniteSet(DOMAIN p)
  PROVE  /\ SearchFiles(p, f) \in Seq({f} \cup DOMAIN p)
         /\ \A j, k \in DOMAIN SearchFiles(p, f) :
              SearchFiles(p, f)[j] = SearchFiles(p, f)[k] => j = k
         /\ Lists(SearchFiles(p, f), {f} \cup Dependents(p, f))
<1> DEFINE D == Dependents(p, f) \ {f}
           n == Cardinality(D)
           s == SetToSeq(D)
           t == <<f>> \o s
<1>1. IsFiniteSet(D) /\ D \subseteq DOMAIN p /\ f \notin D
  BY DependentsProperties, FS_Subset
<1>2. t = SearchFiles(p, f)
  BY DEF SearchFiles
<1>3. {f} \cup Dependents(p, f) = {f} \cup D
  OBVIOUS
<1> HIDE DEF D
<1>4. /\ n \in Nat /\ s \in [1..n -> D]
      /\ \A i, j \in 1..n : s[i] = s[j] => i = j
      /\ \A x \in D : \E i \in 1..n : s[i] = x
  BY <1>1, SetToSeqProperties
<1> HIDE DEF n, s
<1>5. s \in Seq(D) /\ Len(s) = n
  BY <1>4
<1>6. /\ DOMAIN t = 1..(n + 1) /\ t \in Seq({f} \cup D)
      /\ t[1] = f /\ \A i \in 1..n : t[i + 1] = s[i]
  <2>1. <<f>> \in Seq({f} \cup D) /\ s \in Seq({f} \cup D)
    BY <1>5
  <2> DEFINE a == <<f>>
  <2>2. a \in Seq({f} \cup D) /\ Len(a) = 1 /\ a[1] = f
    BY <2>1
  <2> HIDE DEF a
  <2>3. /\ a \o s \in Seq({f} \cup D) /\ DOMAIN (a \o s) = 1..(1 + n)
        /\ \A i \in 1..(1 + n) : (a \o s)[i] = IF i <= 1 THEN a[i] ELSE s[i - 1]
    <3> DEFINE A == {f} \cup D
    <3>1. a \in Seq(A) /\ s \in Seq(A)
      BY <2>1, <2>2
    <3> HIDE DEF A
    <3>2. a \o s \in Seq(A)
      BY <3>1
    <3>3. /\ DOMAIN (a \o s) = 1..(1 + n)
          /\ \A i \in 1..(1 + n) : (a \o s)[i] = IF i <= 1 THEN a[i] ELSE s[i - 1]
      <4>1. /\ DOMAIN (a \o s) = 1..(Len(a) + Len(s))
            /\ \A i \in 1..(Len(a) + Len(s)) :
                 (a \o s)[i] = IF i <= Len(a) THEN a[i] ELSE s[i - Len(a)]
        BY <3>1
      <4>2. Len(a) = 1 /\ Len(s) = n
        BY <1>5, <2>2
      <4> QED
        BY <4>1, <4>2
    <3> QED
      BY <3>2, <3>3 DEF A
  <2>4. t = a \o s
    BY DEF a
  <2> HIDE DEF t
  <2>5. 1 + n = n + 1
    BY <1>4
  <2>6. t[1] = f
    BY <1>4, <2>2, <2>3, <2>4
  <2>7. ASSUME NEW i \in 1..n PROVE t[i + 1] = s[i]
    <3>1. i + 1 \in 1..(1 + n) /\ ~(i + 1 <= 1) /\ (i + 1) - 1 = i
      BY <1>4
    <3> QED
      BY <2>3, <2>4, <3>1
  <2> QED
    BY <2>3, <2>4, <2>5, <2>6, <2>7
<1> HIDE DEF t
<1>7. ASSUME NEW j \in 1..(n + 1), NEW k \in 1..(n + 1), t[j] = t[k], j < k PROVE FALSE
  <2>1. CASE j = 1
    <3>1. k - 1 \in 1..n /\ (k - 1) + 1 = k
      BY <1>4, <1>7, <2>1
    <3>2. t[k] = s[k - 1] /\ s[k - 1] \in D
      BY <1>4, <1>6, <3>1
    <3> QED
      BY <1>1, <1>6, <1>7, <2>1, <3>2
  <2>2. CASE j # 1
    <3>1. /\ j - 1 \in 1..n /\ (j - 1) + 1 = j
          /\ k - 1 \in 1..n /\ (k - 1) + 1 = k /\ j - 1 # k - 1
      BY <1>4, <1>7, <2>2
    <3>2. t[j] = s[j - 1] /\ t[k] = s[k - 1]
      BY <1>6, <3>1
    <3> QED
      BY <1>4, <1>7, <3>1, <3>2
  <2> QED
    BY <2>1, <2>2
<1>8. \A j, k \in DOMAIN t : t[j] = t[k] => j = k
  <2> SUFFICES ASSUME NEW j \in 1..(n + 1), NEW k \in 1..(n + 1), t[j] = t[k] PROVE j = k
    BY <1>6
  <2>1. j < k \/ k < j \/ j = k
    BY <1>4
  <2> QED
    BY <1>7, <2>1
<1>9. \A g \in {f} \cup D : \E k \in DOMAIN t : t[k] = g
  <2> SUFFICES ASSUME NEW g \in {f} \cup D PROVE \E k \in 1..(n + 1) : t[k] = g
    BY <1>6
  <2>1. CASE g = f
    BY <1>4, <1>6, <2>1
  <2>2. CASE g \in D
    <3>1. PICK i \in 1..n : s[i] = g
      BY <1>4, <2>2
    <3>2. i + 1 \in 1..(n + 1) /\ t[i + 1] = g
      BY <1>4, <1>6, <3>1
    <3> QED
      BY <3>2
  <2> QED
    BY <2>1, <2>2
<1>10. t \in Seq({f} \cup DOMAIN p)
  <2> DEFINE A == {f} \cup D
             B == {f} \cup DOMAIN p
  <2>1. A \subseteq B
    BY <1>1
  <2>2. t \in Seq(A)
    BY <1>6
  <2> HIDE DEF A, B
  <2>3. t \in Seq(B)
    BY <2>1, <2>2
  <2> QED
    BY <2>3 DEF B
<1>11. Lists(t, {f} \cup Dependents(p, f))
  BY <1>3, <1>9 DEF Lists
<1> QED
  BY <1>2, <1>8, <1>10, <1>11

\* The include graph of a project, of files that are known.
IsGraph(p) ==
  /\ DOMAIN p \subseteq Files
  /\ \A f \in DOMAIN p : p[f].includes \in Seq(Files)

\* A project whose files hold sequences of nodes, and these of references.
HasReferences(refs) ==
  /\ \E r \in Nat : DOMAIN refs = 1..r
  /\ \A i \in DOMAIN refs : refs[i] \in [kind : SlotKinds, name : {refs[i].name}]
HoldsNodes(content) ==
  /\ content \in [includes : {content.includes}, nodes : {content.nodes}]
  /\ \E m \in Nat : DOMAIN content.nodes = 1..m
  /\ \A n \in DOMAIN content.nodes : HasReferences(content.nodes[n].refs)
IsProject(p) ==
  /\ IsFiniteSet(DOMAIN p)
  /\ IsGraph(p)
  /\ \A f \in DOMAIN p : HoldsNodes(p[f])

Found(p, f, n, i) == [place |-> Place(f, n, "ref", i), ref |-> p[f].nodes[n].refs[i]]

\* References lists every reference of a file once.
LEMMA ReferencesListed ==
  ASSUME NEW p, IsProject(p), NEW f \in DOMAIN p
  PROVE  /\ \E S : References(p, f) \in Seq(S)
         /\ Apart(References(p, f))
         /\ \A k \in DOMAIN References(p, f) :
              \E n \in DOMAIN p[f].nodes : \E i \in DOMAIN p[f].nodes[n].refs :
                References(p, f)[k] = Found(p, f, n, i)
         /\ \A n \in DOMAIN p[f].nodes : \A i \in DOMAIN p[f].nodes[n].refs :
              \E k \in DOMAIN References(p, f) : References(p, f)[k] = Found(p, f, n, i)
<1> DEFINE nodes == p[f].nodes
           S == {Found(p, f, q[1], q[2]) : q \in (DOMAIN nodes) \X Nat}
           Row(n) == [i \in DOMAIN nodes[n].refs |-> Found(p, f, n, i)]
           ss == [n \in DOMAIN nodes |-> Row(n)]
           R == References(p, f)
<1>1. PICK m \in Nat : DOMAIN nodes = 1..m
  BY DEF IsProject, HoldsNodes
<1>2. \A n \in DOMAIN nodes : \E r \in Nat : DOMAIN nodes[n].refs = 1..r
  BY DEF IsProject, HoldsNodes, HasReferences
<1>3. R = FlattenSeq(ss)
  BY DEF References, Found
<1> HIDE DEF nodes, R
<1>4. ASSUME NEW n \in DOMAIN nodes PROVE Row(n) \in Seq(S)
  <2>1. PICK r \in Nat : DOMAIN nodes[n].refs = 1..r
    BY <1>2
  <2>2. ASSUME NEW i \in 1..r PROVE Found(p, f, n, i) \in S
    <3> DEFINE q == <<n, i>>
    <3>1. q \in (DOMAIN nodes) \X Nat /\ q[1] = n /\ q[2] = i
      OBVIOUS
    <3> HIDE DEF q
    <3> QED
      BY <3>1
  <2> HIDE DEF S
  <2>3. Row(n) \in [1..r -> S]
    BY <2>1, <2>2
  <2> HIDE DEF Row
  <2> QED
    BY <2>3, SeqDef
<1>5. ss \in Seq(Seq(S))
  <2> HIDE DEF Row, S
  <2>1. ss \in [1..m -> Seq(S)]
    BY <1>1, <1>4
  <2> HIDE DEF ss
  <2> QED
    BY <1>1, <2>1, SeqDef
<1>6. AllApart(ss)
  <2>1. \A n, i : Found(p, f, n, i).place.node = n /\ Found(p, f, n, i).place.at = i
    BY DEF Found, Place
  <2>2. ASSUME NEW n \in DOMAIN nodes PROVE Apart(Row(n))
    BY <2>1 DEF Apart
  <2>3. ASSUME NEW k \in DOMAIN nodes, NEW n \in DOMAIN nodes, k # n
        PROVE  Elsewhere(Row(k), Row(n))
    BY <2>1, <2>3 DEF Elsewhere
  <2> HIDE DEF Row
  <2> QED
    BY <2>2, <2>3 DEF AllApart
<1>7. /\ DOMAIN ss = DOMAIN nodes
      /\ \A n \in DOMAIN nodes : /\ DOMAIN ss[n] = DOMAIN nodes[n].refs
                                 /\ \A i \in DOMAIN nodes[n].refs : ss[n][i] = Found(p, f, n, i)
  OBVIOUS
<1> HIDE DEF ss, S
<1>8. /\ R \in Seq(S) /\ Apart(R)
      /\ \A k \in DOMAIN R : \E n \in DOMAIN nodes : \E i \in DOMAIN nodes[n].refs :
           R[k] = Found(p, f, n, i)
      /\ \A n \in DOMAIN nodes : \A i \in DOMAIN nodes[n].refs : \E k \in DOMAIN R :
           R[k] = Found(p, f, n, i)
  <2>1. /\ R \in Seq(S)
        /\ \A i \in DOMAIN R : \E j \in DOMAIN ss : \E x \in DOMAIN ss[j] : R[i] = ss[j][x]
        /\ \A j \in DOMAIN ss : \A x \in DOMAIN ss[j] : \E i \in DOMAIN R : R[i] = ss[j][x]
        /\ Apart(R)
    BY <1>3, <1>5, <1>6, FlattenProperties
  <2>2. ASSUME NEW k \in DOMAIN R
        PROVE  \E n \in DOMAIN nodes : \E i \in DOMAIN nodes[n].refs : R[k] = Found(p, f, n, i)
    <3>1. PICK n \in DOMAIN nodes : \E i \in DOMAIN nodes[n].refs : R[k] = ss[n][i]
      BY <1>7, <2>1
    <3> QED
      BY <1>7, <3>1
  <2>3. ASSUME NEW n \in DOMAIN nodes, NEW i \in DOMAIN nodes[n].refs
        PROVE  \E k \in DOMAIN R : R[k] = Found(p, f, n, i)
    BY <1>7, <2>1
  <2> QED
    BY <2>1, <2>2, <2>3
<1> QED
  BY <1>8 DEF R, nodes

\* A reference gives one hit at its place, or none.
LEMMA HitsOfOne ==
  ASSUME NEW p, NEW place, NEW ref, NEW def, NEW kinds
  PROVE  \/ HitsOf(p, place, ref, def, kinds) = <<>>
         \/ \E hit : HitsOf(p, place, ref, def, kinds) = <<hit>> /\ hit.place = place
<1>1. \A from, to, text : Hit(place, from, to, text).place = place
  BY DEF Hit
<1> QED
  BY <1>1 DEF HitsOf

\* The hits in some references are at places of theirs, each at another.
HitsFrom(p, refs, def, kinds, h) ==
  \A j \in DOMAIN h : \E k \in DOMAIN refs :
    /\ h[j].place = refs[k].place
    /\ HitsOf(p, refs[k].place, refs[k].ref, def, kinds) = <<h[j]>>
HitsAll(p, refs, def, kinds, h) ==
  \A k \in DOMAIN refs : \A hit :
    HitsOf(p, refs[k].place, refs[k].ref, def, kinds) = <<hit>> =>
      \E j \in DOMAIN h : h[j] = hit

LEMMA HitsApart ==
  ASSUME NEW p, NEW S, NEW refs \in Seq(S), Apart(refs), NEW def, NEW kinds
  PROVE  /\ \E V : HitsIn(p, refs, def, kinds) \in Seq(V)
         /\ Apart(HitsIn(p, refs, def, kinds))
         /\ HitsFrom(p, refs, def, kinds, HitsIn(p, refs, def, kinds))
         /\ HitsAll(p, refs, def, kinds, HitsIn(p, refs, def, kinds))
<1> DEFINE H(k) == HitsOf(p, refs[k].place, refs[k].ref, def, kinds)
           ss == [k \in DOMAIN refs |-> H(k)]
           V == UNION {{H(k)[j] : j \in DOMAIN H(k)} : k \in DOMAIN refs}
           R == HitsIn(p, refs, def, kinds)
<1>1. \A k : H(k) = <<>> \/ \E hit : H(k) = <<hit>> /\ hit.place = refs[k].place
  BY HitsOfOne
<1>2. R = FlattenSeq(ss)
  BY DEF HitsIn
<1> HIDE DEF H, R
<1>3. ASSUME NEW k \in DOMAIN refs PROVE H(k) \in Seq(V)
  <2>1. \A j \in DOMAIN H(k) : H(k)[j] \in V
    OBVIOUS
  <2> HIDE DEF V
  <2>2. CASE H(k) = <<>>
    BY <2>2
  <2>3. CASE \E hit : H(k) = <<hit>>
    <3>1. PICK hit : H(k) = <<hit>>
      BY <2>3
    <3>2. hit \in V
      BY <2>1, <3>1
    <3> QED
      BY <3>1, <3>2
  <2> QED
    BY <1>1, <2>2, <2>3
<1>4. DOMAIN refs = 1..Len(refs) /\ Len(refs) \in Nat
  OBVIOUS
<1>5. ss \in Seq(Seq(V))
  <2> HIDE DEF V
  <2>1. ss \in [1..Len(refs) -> Seq(V)]
    BY <1>3, <1>4
  <2> HIDE DEF ss
  <2> QED
    BY <1>4, <2>1, SeqDef
<1>6. ASSUME NEW k \in DOMAIN refs, NEW j \in DOMAIN H(k)
      PROVE  j = 1 /\ H(k)[j].place = refs[k].place /\ H(k) = <<H(k)[j]>>
  <2>1. PICK hit : H(k) = <<hit>> /\ hit.place = refs[k].place
    BY <1>1, <1>6
  <2> QED
    BY <2>1
<1>7. AllApart(ss)
  <2>1. ASSUME NEW k \in DOMAIN refs PROVE Apart(H(k))
    BY <1>6 DEF Apart
  <2>2. ASSUME NEW j \in DOMAIN refs, NEW k \in DOMAIN refs, j # k
        PROVE  Elsewhere(H(j), H(k))
    <3>1. refs[j].place # refs[k].place
      BY <2>2 DEF Apart
    <3> QED
      BY <1>6, <3>1 DEF Elsewhere
  <2> QED
    BY <2>1, <2>2 DEF AllApart
<1>8. DOMAIN ss = DOMAIN refs /\ \A k \in DOMAIN refs : ss[k] = H(k)
  OBVIOUS
<1> HIDE DEF ss, V
<1>9. /\ R \in Seq(V) /\ Apart(R)
      /\ \A i \in DOMAIN R : \E j \in DOMAIN ss : \E x \in DOMAIN ss[j] : R[i] = ss[j][x]
      /\ \A j \in DOMAIN ss : \A x \in DOMAIN ss[j] : \E i \in DOMAIN R : R[i] = ss[j][x]
  BY <1>2, <1>5, <1>7, FlattenProperties
<1>10. ASSUME NEW i \in DOMAIN R
       PROVE  \E k \in DOMAIN refs : R[i].place = refs[k].place /\ H(k) = <<R[i]>>
  <2>1. PICK k \in DOMAIN refs : \E x \in DOMAIN H(k) : R[i] = H(k)[x]
    BY <1>8, <1>9
  <2> QED
    BY <1>6, <2>1
<1>11. ASSUME NEW k \in DOMAIN refs, NEW hit, H(k) = <<hit>> PROVE \E i \in DOMAIN R : R[i] = hit
  <2>1. 1 \in DOMAIN H(k) /\ H(k)[1] = hit
    BY <1>11
  <2> QED
    BY <1>8, <1>9, <2>1
<1>12. HitsFrom(p, refs, def, kinds, R) /\ HitsAll(p, refs, def, kinds, R)
  BY <1>10, <1>11 DEF HitsFrom, HitsAll, H
<1> QED
  BY <1>9, <1>12 DEF R

\* ReferencesTo finds each reference at most once.
AtReferences(p, s) ==
  \A j \in DOMAIN s :
    \E f \in DOMAIN p : \E n \in DOMAIN p[f].nodes : \E i \in DOMAIN p[f].nodes[n].refs :
      s[j].place = Place(f, n, "ref", i)

HitAt(p, def, kinds, f, n, i) ==
  HitsOf(p, Place(f, n, "ref", i), p[f].nodes[n].refs[i], def, kinds)

\* Every hit is one in a reference, and the other way around in the files
\* that are searched.
HitsAtReferences(p, def, kinds, s) ==
  \A j \in DOMAIN s :
    \E f \in DOMAIN p : \E n \in DOMAIN p[f].nodes : \E i \in DOMAIN p[f].nodes[n].refs :
      s[j].place = Place(f, n, "ref", i) /\ HitAt(p, def, kinds, f, n, i) = <<s[j]>>
HitsOfReferences(p, def, kinds, s) ==
  \A f \in DOMAIN p : f \in {def.place.file} \cup Dependents(p, def.place.file) =>
    \A n \in DOMAIN p[f].nodes : \A i \in DOMAIN p[f].nodes[n].refs : \A hit :
      HitAt(p, def, kinds, f, n, i) = <<hit>> => \E j \in DOMAIN s : s[j] = hit

LEMMA ReferencesApart ==
  ASSUME NEW p, IsProject(p), NEW def, NEW kinds
  PROVE  /\ \E V : ReferencesTo(p, def, kinds) \in Seq(V)
         /\ Apart(ReferencesTo(p, def, kinds))
         /\ AtReferences(p, ReferencesTo(p, def, kinds))
         /\ HitsAtReferences(p, def, kinds, ReferencesTo(p, def, kinds))
         /\ HitsOfReferences(p, def, kinds, ReferencesTo(p, def, kinds))
<1> DEFINE files == SearchFiles(p, def.place.file)
           H(g) == IF g \in DOMAIN p THEN HitsIn(p, References(p, g), def, kinds) ELSE <<>>
           ss == [k \in DOMAIN files |-> H(files[k])]
           V == UNION {{H(files[k])[j] : j \in DOMAIN H(files[k])} : k \in DOMAIN files}
           R == ReferencesTo(p, def, kinds)
           At(g, hit) == \E n \in DOMAIN p[g].nodes : \E i \in DOMAIN p[g].nodes[n].refs :
                           hit.place = Place(g, n, "ref", i) /\ HitAt(p, def, kinds, g, n, i) = <<hit>>
           All(g, s) == \A n \in DOMAIN p[g].nodes : \A i \in DOMAIN p[g].nodes[n].refs : \A hit :
                          HitAt(p, def, kinds, g, n, i) = <<hit>> => \E j \in DOMAIN s : s[j] = hit
<1>1. /\ DOMAIN files = 1..Len(files) /\ Len(files) \in Nat
      /\ \A j, k \in DOMAIN files : files[j] = files[k] => j = k
      /\ \A g \in {def.place.file} \cup Dependents(p, def.place.file) :
           \E k \in DOMAIN files : files[k] = g
  <2>1. /\ files \in Seq({def.place.file} \cup DOMAIN p)
        /\ \A j, k \in DOMAIN files : files[j] = files[k] => j = k
        /\ \A g \in {def.place.file} \cup Dependents(p, def.place.file) :
             \E k \in DOMAIN files : files[k] = g
    <3> DEFINE F == def.place.file
    <3> HIDE DEF F
    <3>1. IsFiniteSet(DOMAIN p)
      BY DEF IsProject
    <3>2. SearchFiles(p, F) \in Seq({F} \cup DOMAIN p)
      BY <3>1, SearchFilesProperties
    <3>3. \A j, k \in DOMAIN SearchFiles(p, F) :
            SearchFiles(p, F)[j] = SearchFiles(p, F)[k] => j = k
      BY <3>1, SearchFilesProperties
    <3>4. Lists(SearchFiles(p, F), {F} \cup Dependents(p, F))
      BY <3>1, SearchFilesProperties
    <3> QED
      BY <3>2, <3>3, <3>4 DEF F, Lists
  <2> HIDE DEF files
  <2> QED
    BY <2>1
<1>2. R = FlattenSeq(ss)
  BY DEF ReferencesTo
<1>3. ASSUME NEW g \in DOMAIN p
      PROVE  /\ \E W : H(g) \in Seq(W)
             /\ Apart(H(g))
             /\ \A j \in DOMAIN H(g) : At(g, H(g)[j])
             /\ All(g, H(g))
  <2> DEFINE refs == References(p, g)
  <2>1. PICK S : refs \in Seq(S)
    BY ReferencesListed
  <2>2. /\ Apart(refs)
        /\ \A k \in DOMAIN refs : \E n \in DOMAIN p[g].nodes :
             \E i \in DOMAIN p[g].nodes[n].refs : refs[k] = Found(p, g, n, i)
        /\ \A n \in DOMAIN p[g].nodes : \A i \in DOMAIN p[g].nodes[n].refs :
             \E k \in DOMAIN refs : refs[k] = Found(p, g, n, i)
    BY ReferencesListed
  <2>3. H(g) = HitsIn(p, refs, def, kinds)
    OBVIOUS
  <2> DEFINE h == HitsIn(p, refs, def, kinds)
  <2> HIDE DEF refs, H
  <2>4. /\ \E W : h \in Seq(W)
        /\ Apart(h)
        /\ HitsFrom(p, refs, def, kinds, h)
        /\ HitsAll(p, refs, def, kinds, h)
    BY <2>1, <2>2, HitsApart
  <2> HIDE DEF h
  <2>5. ASSUME NEW j \in DOMAIN h PROVE At(g, h[j])
    <3>1. PICK k \in DOMAIN refs :
            /\ h[j].place = refs[k].place
            /\ HitsOf(p, refs[k].place, refs[k].ref, def, kinds) = <<h[j]>>
      BY <2>4 DEF HitsFrom
    <3>2. PICK n \in DOMAIN p[g].nodes : \E i \in DOMAIN p[g].nodes[n].refs : refs[k] = Found(p, g, n, i)
      BY <2>2
    <3>3. PICK i \in DOMAIN p[g].nodes[n].refs : refs[k] = Found(p, g, n, i)
      BY <3>2
    <3>4. h[j].place = Place(g, n, "ref", i) /\ HitAt(p, def, kinds, g, n, i) = <<h[j]>>
      BY <3>1, <3>3 DEF Found, HitAt
    <3> QED
      BY <3>4
  <2>6. ASSUME NEW n \in DOMAIN p[g].nodes, NEW i \in DOMAIN p[g].nodes[n].refs, NEW hit,
               HitAt(p, def, kinds, g, n, i) = <<hit>>
        PROVE  \E j \in DOMAIN h : h[j] = hit
    <3>1. PICK k \in DOMAIN refs : refs[k] = Found(p, g, n, i)
      BY <2>2
    <3>2. HitsOf(p, refs[k].place, refs[k].ref, def, kinds) = <<hit>>
      BY <2>6, <3>1 DEF Found, HitAt
    <3> QED
      BY <2>4, <3>2 DEF HitsAll
  <2>7. H(g) = h
    BY <2>3 DEF h
  <2> QED
    BY <2>4, <2>5, <2>6, <2>7
<1>4. \A g : g \notin DOMAIN p => H(g) = <<>>
  OBVIOUS
<1> HIDE DEF H, R, files
<1>5. ASSUME NEW k \in DOMAIN files PROVE H(files[k]) \in Seq(V)
  <2> DEFINE h == H(files[k])
  <2>1. \A j \in DOMAIN h : h[j] \in V
    OBVIOUS
  <2>2. h = <<>> \/ \E W : h \in Seq(W)
    BY <1>3, <1>4
  <2> HIDE DEF V, h
  <2>3. h \in Seq(V)
    <3>1. CASE h = <<>>
      BY <3>1
    <3>2. CASE \E W : h \in Seq(W)
      BY <2>1, <3>2
    <3> QED
      BY <2>2, <3>1, <3>2
  <2> QED
    BY <2>3 DEF h
<1>6. ss \in Seq(Seq(V))
  <2> HIDE DEF V
  <2>1. ss \in [1..Len(files) -> Seq(V)]
    BY <1>1, <1>5
  <2> HIDE DEF ss
  <2> QED
    BY <1>1, <2>1, SeqDef
<1>7. ASSUME NEW k \in DOMAIN files, NEW j \in DOMAIN H(files[k])
      PROVE  files[k] \in DOMAIN p /\ At(files[k], H(files[k])[j])
  <2>1. files[k] \in DOMAIN p
    BY <1>4, <1>7
  <2> QED
    BY <1>3, <2>1
<1>8. AllApart(ss)
  <2>1. ASSUME NEW k \in DOMAIN files PROVE Apart(H(files[k]))
    <3>1. Apart(<<>>)
      BY DEF Apart
    <3> QED
      BY <1>3, <1>4, <3>1
  <2>2. ASSUME NEW j \in DOMAIN files, NEW k \in DOMAIN files, j # k
        PROVE  Elsewhere(H(files[j]), H(files[k]))
    <3>1. files[j] # files[k]
      BY <1>1, <2>2
    <3>2. \A g, hit : At(g, hit) => hit.place.file = g
      BY DEF Place
    <3> HIDE DEF At
    <3> QED
      BY <1>7, <3>1, <3>2 DEF Elsewhere
  <2> QED
    BY <2>1, <2>2 DEF AllApart
<1>9. DOMAIN ss = DOMAIN files /\ \A k \in DOMAIN files : ss[k] = H(files[k])
  OBVIOUS
<1> HIDE DEF ss, V, At, All
<1>10. /\ R \in Seq(V) /\ Apart(R)
       /\ \A i \in DOMAIN R : \E j \in DOMAIN ss : \E x \in DOMAIN ss[j] : R[i] = ss[j][x]
       /\ \A j \in DOMAIN ss : \A x \in DOMAIN ss[j] : \E i \in DOMAIN R : R[i] = ss[j][x]
  BY <1>2, <1>6, <1>8, FlattenProperties
<1>11. ASSUME NEW i \in DOMAIN R PROVE \E f \in DOMAIN p : At(f, R[i])
  <2>1. PICK k \in DOMAIN files : \E x \in DOMAIN H(files[k]) : R[i] = H(files[k])[x]
    BY <1>9, <1>10
  <2> QED
    BY <1>7, <2>1
<1>12. AtReferences(p, R)
  BY <1>11 DEF AtReferences, At
<1>13. ASSUME NEW f \in DOMAIN p, f \in {def.place.file} \cup Dependents(p, def.place.file)
       PROVE  All(f, R)
  <2>1. PICK k \in DOMAIN files : files[k] = f
    BY <1>1, <1>13
  <2>2. All(f, H(f)) /\ \A x \in DOMAIN H(f) : \E i \in DOMAIN R : R[i] = H(f)[x]
    BY <1>3, <1>9, <1>10, <2>1
  <2> QED
    BY <2>2 DEF All
<1>14. HitsAtReferences(p, def, kinds, R)
  BY <1>11 DEF HitsAtReferences, At
<1>15. HitsOfReferences(p, def, kinds, R)
  BY <1>13 DEF HitsOfReferences, All
<1> QED
  BY <1>10, <1>12, <1>14, <1>15 DEF R

-----------------------------------------------------------------------------
(***************************************************************************)
(* The edits of a rename at a definition.                                  *)
(***************************************************************************)
\* Hits that stand at places of references, one at each, and one besides at
\* another place make edits that fit.
LEMMA EditsOfHitsFit ==
  ASSUME NEW V, NEW found \in Seq(V), Apart(found), NEW place, NEW p, NEW new,
         \A k \in DOMAIN found : found[k].place.slot = "ref",
         place.slot # "ref"
  PROVE  Fits(Edits(WithCursor(p, place, found, place.file), new))
<1> DEFINE n == Len(found)
           hits == WithCursor(p, place, found, place.file)
           row == [k \in DOMAIN found |-> [hit |-> found[k], file |-> found[k].place.file]]
           last == [hit |-> Hit(place, 1, Len(TextAt(p, place)), <<>>), file |-> place.file]
           edits == Edits(hits, new)
<1>1. n \in Nat /\ DOMAIN found = 1..n
  OBVIOUS
<1>2. hits = Append(row, last) /\ last.file = place.file /\ last.hit.place = place
  BY DEF WithCursor, Hit
<1> HIDE DEF last
<1>3. DOMAIN row = 1..n /\ \A k \in 1..n : row[k].hit = found[k] /\ row[k].file = found[k].place.file
  BY <1>1
<1>4. \E W : row \in Seq(W)
  <2> DEFINE W == {row[k] : k \in 1..n}
  <2> HIDE DEF row
  <2>1. row = [k \in 1..n |-> row[k]]
    BY <1>1 DEF row
  <2>2. row \in [1..n -> W]
    BY <2>1
  <2> HIDE DEF W
  <2>3. row \in Seq(W)
    BY <1>1, <2>2, SeqDef
  <2> QED
    BY <2>3
<1> HIDE DEF row, n, hits
<1>5. /\ DOMAIN hits = 1..(n + 1) /\ hits[n + 1] = last
      /\ \A k \in 1..n : hits[k] = row[k]
  <2>1. PICK W : row \in Seq(W)
    BY <1>4
  <2>2. Len(row) = n
    BY <1>1, <1>3, <2>1
  <2>3. DOMAIN hits = 1..(Len(row) + 1) /\ hits[Len(row) + 1] = last
        /\ \A k \in 1..Len(row) : hits[k] = row[k]
    BY <1>2, <2>1
  <2> QED
    BY <2>2, <2>3
<1>6. /\ DOMAIN edits = 1..(n + 1)
      /\ \A k \in 1..(n + 1) : edits[k].file = hits[k].file /\ edits[k].place = hits[k].hit.place
  BY <1>5 DEF Edits
<1> HIDE DEF edits
<1>7. /\ \A k \in 1..n : edits[k].place = found[k].place /\ edits[k].file = found[k].place.file
      /\ edits[n + 1].place = place /\ edits[n + 1].file = place.file
  <2>1. n + 1 \in 1..(n + 1) /\ \A k \in 1..n : k \in 1..(n + 1)
    BY <1>1
  <2> QED
    BY <1>2, <1>3, <1>5, <1>6, <2>1
<1>8. \A k \in 1..(n + 1) : k \in 1..n \/ k = n + 1
  BY <1>1
<1>9. ASSUME NEW j \in 1..(n + 1), NEW k \in 1..(n + 1), j # k
      PROVE  edits[j].place # edits[k].place
  <2>1. \A i \in 1..n : edits[i].place # place
    BY <1>1, <1>7
  <2>2. CASE j \in 1..n /\ k \in 1..n
    BY <1>1, <1>7, <1>9, <2>2 DEF Apart
  <2> QED
    BY <1>7, <1>8, <1>9, <2>1, <2>2
<1>10. Fits(edits)
  BY <1>6, <1>7, <1>8, <1>9 DEF Fits, Overlaps
<1> QED
  BY <1>10 DEF edits, hits

LEMMA ProjectsAreProjects == \A p \in Projects : IsProject(p)
<1> SUFFICES ASSUME NEW p \in Projects PROVE IsProject(p)
  OBVIOUS
<1> DEFINE Ref == [kind : SlotKinds, name : Seq(STRING) \ {<<>>}]
           ANode == [kind : STRING, name : STRING, members : Seq(STRING), refs : Seq(Ref)]
<1>1. IsFiniteSet(DOMAIN p)
  BY ProjectsAssumption, FS_Subset
<1>2. ASSUME NEW f \in DOMAIN p PROVE HoldsNodes(p[f])
  <2> DEFINE c == p[f]
  <2>1. c \in [includes : Seq(Files), nodes : Seq(ANode)]
    BY ProjectsAssumption
  <2> HIDE DEF c, ANode
  <2>2. /\ c \in [includes : {c.includes}, nodes : {c.nodes}]
        /\ DOMAIN c.nodes = 1..Len(c.nodes) /\ Len(c.nodes) \in Nat
        /\ \A n \in DOMAIN c.nodes : c.nodes[n] \in ANode
    BY <2>1
  <2>3. ASSUME NEW n \in DOMAIN c.nodes PROVE HasReferences(c.nodes[n].refs)
    <3> DEFINE refs == c.nodes[n].refs
    <3>1. refs \in Seq(Ref)
      BY <2>2 DEF ANode
    <3> HIDE DEF refs, Ref
    <3>2. /\ DOMAIN refs = 1..Len(refs) /\ Len(refs) \in Nat
          /\ \A i \in DOMAIN refs : refs[i] \in Ref
      BY <3>1
    <3>3. \A ref \in Ref : ref \in [kind : SlotKinds, name : {ref.name}]
      BY DEF Ref
    <3>4. HasReferences(refs)
      BY <3>2, <3>3 DEF HasReferences
    <3> QED
      BY <3>4 DEF refs
  <2>4. HoldsNodes(c)
    BY <2>2, <2>3 DEF HoldsNodes
  <2> QED
    BY <2>4 DEF c
<1>3. IsGraph(p)
  <2>1. ASSUME NEW f \in DOMAIN p PROVE p[f].includes \in Seq(Files)
    <3>1. p[f] \in [includes : Seq(Files), nodes : Seq(ANode)]
      BY ProjectsAssumption
    <3> HIDE DEF ANode
    <3> QED
      BY <3>1
  <2> QED
    BY <2>1, ProjectsAssumption DEF IsGraph
<1> QED
  BY <1>1, <1>2, <1>3 DEF IsProject

\* Edits change the names in a project and nothing else.
LEMMA MadeIsProject ==
  ASSUME NEW p, IsProject(p), NEW edits
  PROVE  IsProject(Made(p, edits))
<1> DEFINE text(f, n, slot, i) == Rewritten(p, edits, Place(f, n, slot, i))
           refs(f, n) == [i \in DOMAIN p[f].nodes[n].refs |->
                            [p[f].nodes[n].refs[i] EXCEPT !.name = text(f, n, "ref", i)]]
           node(f, n) == Node(p[f].nodes[n].kind, text(f, n, "name", 0)[1],
                              [i \in DOMAIN p[f].nodes[n].members |-> text(f, n, "member", i)[1]],
                              refs(f, n))
           q == Made(p, edits)
<1>1. q = [f \in DOMAIN p |-> [p[f] EXCEPT !.nodes = [n \in DOMAIN @ |-> node(f, n)]]]
  BY DEF Made
<1>2. \A f, n : node(f, n).refs = refs(f, n)
  BY DEF Node
<1> HIDE DEF node, q, text
<1>3. DOMAIN q = DOMAIN p
  BY <1>1
<1>4. ASSUME NEW f \in DOMAIN p, NEW n \in DOMAIN p[f].nodes
      PROVE  HasReferences(refs(f, n))
  <2> DEFINE old == p[f].nodes[n].refs
             new == refs(f, n)
  <2>1. HasReferences(old)
    BY DEF IsProject, HoldsNodes
  <2>2. DOMAIN new = DOMAIN old /\ \A i \in DOMAIN old : new[i] = [old[i] EXCEPT !.name = text(f, n, "ref", i)]
    OBVIOUS
  <2> HIDE DEF old, new
  <2>3. ASSUME NEW i \in DOMAIN old PROVE new[i] \in [kind : SlotKinds, name : {new[i].name}]
    <3> DEFINE a == old[i]
               b == new[i]
               t == text(f, n, "ref", i)
    <3>1. a \in [kind : SlotKinds, name : {a.name}] /\ b = [a EXCEPT !.name = t]
      BY <2>1, <2>2 DEF HasReferences
    <3> HIDE DEF a, b, t
    <3>2. b \in [kind : SlotKinds, name : {b.name}]
      BY <3>1
    <3> QED
      BY <3>2 DEF b
  <2>4. HasReferences(new)
    BY <2>1, <2>2, <2>3 DEF HasReferences
  <2> QED
    BY <2>4 DEF new
<1> HIDE DEF refs
<1>5. ASSUME NEW f \in DOMAIN p PROVE HoldsNodes(q[f])
  <2> DEFINE a == p[f]
             b == q[f]
             nodes == [n \in DOMAIN a.nodes |-> node(f, n)]
  <2>1. HoldsNodes(a)
    BY DEF IsProject
  <2>2. b = [a EXCEPT !.nodes = nodes]
    BY <1>1
  <2>3. DOMAIN nodes = DOMAIN a.nodes /\ \A n \in DOMAIN a.nodes : HasReferences(nodes[n].refs)
    BY <1>2, <1>4
  <2> HIDE DEF a, b, nodes
  <2>4. b \in [includes : {b.includes}, nodes : {b.nodes}] /\ b.nodes = nodes
    BY <2>1, <2>2 DEF HoldsNodes
  <2>5. HoldsNodes(b)
    BY <2>1, <2>3, <2>4 DEF HoldsNodes
  <2> QED
    BY <2>5 DEF b
<1>6. IsGraph(q)
  <2>1. ASSUME NEW f \in DOMAIN p PROVE q[f].includes = p[f].includes
    <3> DEFINE nodes == [n \in DOMAIN p[f].nodes |-> node(f, n)]
    <3>1. HoldsNodes(p[f]) /\ q[f] = [p[f] EXCEPT !.nodes = nodes]
      BY <1>1 DEF IsProject
    <3> HIDE DEF nodes
    <3> QED
      BY <3>1 DEF HoldsNodes
  <2> QED
    BY <1>3, <2>1 DEF IsGraph, IsProject
<1>7. IsProject(q)
  BY <1>3, <1>5, <1>6 DEF IsProject
<1> QED
  BY <1>7 DEF q

\* Projects stay projects, whatever is renamed in them.
LEMMA ProjectTyped == Spec => []IsProject(project)
<1>1. Init => IsProject(project)
  BY ProjectsAreProjects DEF Init
<1>2. IsProject(project) /\ [Next]_vars => IsProject(project)'
  BY MadeIsProject DEF Next, vars, AskReferences, AskRename, Apply
<1> QED
  BY <1>1, <1>2, PTL DEF Spec

\* The edits of a rename that is asked for at definitions lie in the files
\* they were computed on and do not overlap, in every project, however its
\* files include each other and whatever was renamed before.
THEOREM EditsFitAtDefinitions ==
  ASSUME RenameAt \subseteq {"definition"}
  PROVE  Spec => []EditsFit
<1>1. Init => EditsFit
  BY DEF Init, EditsFit, Silent
<1>2. ASSUME IsProject(project), EditsFit, [Next]_vars PROVE EditsFit'
  <2>1. ASSUME NEW place \in Places(project), AskReferences(place) PROVE EditsFit'
    BY <2>1 DEF AskReferences, EditsFit
  <2>2. ASSUME NEW place \in Places(project), NEW new \in NewNames, AskRename(place, new)
        PROVE  EditsFit'
    <3> DEFINE p == project
               def == IF place.slot = "member" THEN Member(p, place.file, place.node, place.at)
                      ELSE Definition(p, place.file, place.node)
               kinds == RefKindsFor(def.kind) \cup IF def.kind = "enum" THEN {"value"} ELSE {}
               found == ReferencesTo(p, def, kinds)
    <3>1. Target(p, place) = "definition"
      BY <2>2 DEF AskRename
    <3>2. place.slot # "ref"
      <4> SUFFICES ASSUME place.slot = "ref" PROVE FALSE
        OBVIOUS
      <4>1. RefAt(p, place).kind \in SlotKinds
        <5>1. PICK f \in DOMAIN p : \E n \in DOMAIN p[f].nodes :
                place \in {Place(f, n, "name", 0)}
                          \cup {Place(f, n, "member", i) : i \in DOMAIN p[f].nodes[n].members}
                          \cup {Place(f, n, "ref", i) : i \in DOMAIN p[f].nodes[n].refs}
          BY DEF Places
        <5>2. PICK n \in DOMAIN p[f].nodes :
                place \in {Place(f, n, "name", 0)}
                          \cup {Place(f, n, "member", i) : i \in DOMAIN p[f].nodes[n].members}
                          \cup {Place(f, n, "ref", i) : i \in DOMAIN p[f].nodes[n].refs}
          BY <5>1
        <5>3. PICK i \in DOMAIN p[f].nodes[n].refs : place = Place(f, n, "ref", i)
          BY <5>2 DEF Place
        <5>4. RefAt(p, place) = p[f].nodes[n].refs[i]
          BY <5>3 DEF RefAt, NodeAt, Place
        <5>5. HasReferences(p[f].nodes[n].refs)
          BY <1>2 DEF IsProject, HoldsNodes
        <5> QED
          BY <5>4, <5>5 DEF HasReferences
      <4> QED
        BY <3>1, <4>1 DEF Target, SlotKinds
    <3>3. Hits(p, place) = WithCursor(p, place, found, place.file)
      <4>1. Search(p, place) = found
        BY <3>1 DEF Search, SearchDefinition
      <4> QED
        BY <3>1, <4>1 DEF Hits
    <3> HIDE DEF def, kinds
    <3>4. /\ \E V : found \in Seq(V)
          /\ Apart(found)
          /\ AtReferences(p, found)
      BY <1>2, ReferencesApart
    <3> HIDE DEF found
    <3>5. ASSUME NEW j \in DOMAIN found PROVE found[j].place.slot = "ref"
      <4>1. PICK f \in DOMAIN p : \E n \in DOMAIN p[f].nodes :
              \E i \in DOMAIN p[f].nodes[n].refs : found[j].place = Place(f, n, "ref", i)
        BY <3>4 DEF AtReferences
      <4>2. PICK n, i : found[j].place = Place(f, n, "ref", i)
        BY <4>1
      <4> QED
        BY <4>2 DEF Place
    <3>6. Fits(Edits(Hits(p, place), new))
      BY <3>2, <3>3, <3>4, <3>5, EditsOfHitsFit
    <3>7. answer' = [to |-> "rename", at |-> place, edits |-> Edits(Hits(p, place), new)]
      BY <2>2 DEF AskRename
    <3> QED
      BY <3>6, <3>7 DEF EditsFit
  <2>3. CASE Apply
    BY <2>3 DEF Apply, EditsFit, Silent
  <2>4. CASE UNCHANGED vars
    BY <1>2, <2>4 DEF vars, EditsFit
  <2> QED
    BY <1>2, <2>1, <2>2, <2>3, <2>4 DEF Next
<1> QED
  BY <1>1, <1>2, ProjectTyped, PTL DEF Spec

-----------------------------------------------------------------------------
(***************************************************************************)
(* Cycles: getIncludes collects what a file leads to, and a path leads     *)
(* from a file to another exactly if it is among the other's dependents.   *)
(***************************************************************************)
\* What a file is noted with, and the notes on every file.
Notes == [Files -> Seq(Files)]
Calls == [Files -> [Notes -> Notes]]
Appended(c, g, h) == [c EXCEPT ![g] = Append(@, h)]
OneNoted(call, g, h, c) ==
  IF Appended(c, g, h)[h] # <<>> THEN Appended(c, g, h) ELSE call[h][Appended(c, g, h)]
IsNoting(e, call, g, includes, noted) ==
  /\ e \in [0..Len(includes) -> Notes]
  /\ e[0] = noted
  /\ \A i \in 1..Len(includes) : e[i] = OneNoted(call, g, includes[i], e[i - 1])

LEMMA AppendedTyped ==
  ASSUME NEW c \in Notes, NEW g \in Files, NEW h \in Files
  PROVE  /\ Appended(c, g, h) \in Notes
         /\ Appended(c, g, h)[g] = Append(c[g], h)
         /\ \A x \in Files : x # g => Appended(c, g, h)[x] = c[x]
BY DEF Appended, Notes

\* The loop of getIncludes over the includes of a file.
LEMMA NotedRecursion ==
  ASSUME NEW p, NEW g \in Files, NEW call \in Calls, NEW noted \in Notes,
         p[g].includes \in Seq(Files)
  PROVE  \E e : IsNoting(e, call, g, p[g].includes, noted)
                /\ Noted(p, call, g, noted) = e[Len(p[g].includes)]
<1> DEFINE N == Len(p[g].includes)
           L == Notes
           Body(n, s) == OneNoted(call, g, p[g].includes[n], s)
           after[i \in 0 .. Len(p[g].includes)] ==
             LET h == p[g].includes[i]
                 more == [after[i - 1] EXCEPT ![g] = Append(@, h)]
             IN  IF i = 0 THEN noted
                 ELSE IF more[h] # <<>> THEN more
                 ELSE call[h][more]
           Step(h) == [n \in 0..N |-> IF n = 0 THEN noted ELSE Body(n, h[n - 1])]
           Eq(h) == h = Step(h)
           b == [q \in (1..N) \X L |-> Body(q[1], q[2])]
<1>1. N \in Nat /\ noted \in L /\ \A n \in 1..N : p[g].includes[n] \in Files
  OBVIOUS
<1>2. ASSUME NEW n \in 1..N, NEW s \in L PROVE Body(n, s) \in L
  <2> DEFINE h == p[g].includes[n]
  <2>1. h \in Files
    BY <1>1
  <2> HIDE DEF h
  <2>2. OneNoted(call, g, h, s) \in Notes
    BY <2>1, AppendedTyped DEF OneNoted, Calls
  <2> QED
    BY <2>2 DEF h
<1>3. b \in [(1..N) \X L -> L] /\ \A n \in 1..N, s \in L : b[<<n, s>>] = Body(n, s)
  <2> HIDE DEF Body, L, N
  <2> QED
    BY <1>2
<1>4. PICK F : IsRecursion(F, L, N, noted, b)
  <2> HIDE DEF b, L, N
  <2> QED
    BY <1>1, <1>3, Recursion
<1>5. /\ F \in [0..N -> L] /\ F[0] = noted
      /\ \A n \in 1..N : F[n] = Body(n, F[n - 1])
  <2> HIDE DEF b, Body, L, N
  <2>1. /\ F \in [0..N -> L] /\ F[0] = noted
        /\ \A n \in 1..N : F[n] = b[<<n, F[n - 1]>>] /\ n - 1 \in 0..N
    BY <1>1, <1>4 DEF IsRecursion
  <2> QED
    BY <1>3, <2>1
<1>6. Eq(F)
  <2> HIDE DEF b, Body, L, N
  <2>3. \A n \in 0..N : n = 0 \/ n \in 1..N
    BY <1>1
  <2>4. \A n \in 1..N : n # 0
    OBVIOUS
  <2> QED
    BY <1>5, <2>3, <2>4
<1>7. Eq(CHOOSE h : Eq(h))
  <2> HIDE DEF Eq
  <2> QED
    BY <1>6
<1>8. Eq(after)
  BY <1>7 DEF OneNoted, Appended
<1>9. Noted(p, call, g, noted) = after[N]
  BY DEF Noted
<1> DEFINE e == after
<1>10. Eq(e) /\ Noted(p, call, g, noted) = e[N]
  BY <1>8, <1>9
<1> HIDE DEF e
<1>11. /\ e[0] = noted
       /\ \A n \in 1..N : e[n] = Body(n, e[n - 1])
  <2> HIDE DEF Body, N
  <2>1. \A n \in 1..N : n \in 0..N /\ n # 0
    OBVIOUS
  <2>2. 0 \in 0..N
    BY <1>1
  <2> QED
    BY <1>10, <2>1, <2>2
<1>12. e \in [0..N -> L]
  <2> DEFINE T == {n \in 0..N : e[n] \in L}
  <2>1. 0 \in T
    BY <1>1, <1>11
  <2>2. ASSUME NEW n \in 1..N, n - 1 \in T PROVE n \in T
    <3>1. e[n] = Body(n, e[n - 1]) /\ e[n - 1] \in L
      BY <1>11, <2>2
    <3> HIDE DEF Body, L
    <3> QED
      BY <1>2, <3>1
  <2>3. 0..N \subseteq T
    <3> HIDE DEF T, N
    <3> QED
      BY <1>1, <2>1, <2>2, BoundedInduction
  <2>4. e = [n \in 0..N |-> e[n]]
    <3> HIDE DEF Body
    <3> QED
      BY <1>10
  <2> HIDE DEF L, N
  <2> QED
    BY <2>3, <2>4
<1> HIDE DEF Step, Body, Eq
<1>13. IsNoting(e, call, g, p[g].includes, noted)
  BY <1>11, <1>12 DEF IsNoting, Body
<1> QED
  BY <1>10, <1>13

Collected(p, call) ==
  [g \in Files |-> [noted \in Notes |->
     IF g \notin DOMAIN p THEN noted ELSE Noted(p, call, g, noted)]]
IsCollecting(e, p, N) ==
  /\ e \in [0..N -> Calls]
  /\ e[0] = [g \in Files |-> [noted \in Notes |-> noted]]
  /\ \A n \in 1..N : e[n] = Collected(p, e[n - 1])

LEMMA NotedTyped ==
  ASSUME NEW p, NEW g \in Files, NEW call \in Calls, NEW noted \in Notes,
         p[g].includes \in Seq(Files)
  PROVE  Noted(p, call, g, noted) \in Notes
<1>1. PICK e : IsNoting(e, call, g, p[g].includes, noted)
               /\ Noted(p, call, g, noted) = e[Len(p[g].includes)]
  BY NotedRecursion
<1>2. Len(p[g].includes) \in 0..Len(p[g].includes)
  OBVIOUS
<1> QED
  BY <1>1, <1>2 DEF IsNoting

\* getIncludes, of which a call is what the calls one level down make of it.
LEMMA CollectRecursion ==
  ASSUME NEW p, IsGraph(p), IsFiniteSet(Files)
  PROVE  \E e : /\ IsCollecting(e, p, Cardinality(Files) + 1)
                /\ \A f, c : GetIncludes(p, f, c) = e[Cardinality(Files) + 1][f][c]
<1> DEFINE N == Cardinality(Files) + 1
           L == Calls
           Body(n, s) == Collected(p, s)
           base == [g \in Files |-> [noted \in Notes |-> noted]]
           collect[n \in 0 .. Cardinality(Files) + 1] ==
             [g \in Files |-> [noted \in [Files -> Seq(Files)] |->
                IF n = 0 \/ g \notin DOMAIN p THEN noted ELSE Noted(p, collect[n - 1], g, noted)]]
           Form(n, h) == [g \in Files |-> [noted \in Notes |->
                IF n = 0 \/ g \notin DOMAIN p THEN noted ELSE Noted(p, h[n - 1], g, noted)]]
           Step(h) == [n \in 0..N |-> Form(n, h)]
           Eq(h) == h = Step(h)
           b == [q \in (1..N) \X L |-> Body(q[1], q[2])]
<1>1. N \in Nat /\ base \in L
  BY FS_CardinalityType DEF Calls
<1>2. ASSUME NEW n \in 1..N, NEW s \in L PROVE Body(n, s) \in L
  <2>1. ASSUME NEW g \in Files, NEW noted \in Notes, g \in DOMAIN p
        PROVE  Noted(p, s, g, noted) \in Notes
    BY <2>1, NotedTyped DEF IsGraph
  <2> QED
    BY <2>1 DEF Collected, Calls
<1>3. b \in [(1..N) \X L -> L] /\ \A n \in 1..N, s \in L : b[<<n, s>>] = Body(n, s)
  <2> HIDE DEF Body, L, N
  <2> QED
    BY <1>2
<1>4. PICK F : IsRecursion(F, L, N, base, b)
  <2> HIDE DEF b, L, N, base
  <2> QED
    BY <1>1, <1>3, Recursion
<1>5. /\ F \in [0..N -> L] /\ F[0] = base
      /\ \A n \in 1..N : F[n] = Body(n, F[n - 1])
  <2> HIDE DEF b, Body, L, N, base
  <2>1. /\ F \in [0..N -> L] /\ F[0] = base
        /\ \A n \in 1..N : F[n] = b[<<n, F[n - 1]>>] /\ n - 1 \in 0..N
    BY <1>1, <1>4 DEF IsRecursion
  <2> QED
    BY <1>3, <2>1
<1>6. \A h : Form(0, h) = base
  OBVIOUS
<1>7. \A h : \A n \in 1..N : Form(n, h) = Body(n, h[n - 1])
  <2> SUFFICES ASSUME NEW h, NEW n \in 1..N PROVE Form(n, h) = Body(n, h[n - 1])
    OBVIOUS
  <2> n # 0
    BY <1>1
  <2> QED
    BY DEF Collected
<1>8. \A n \in 0..N : n = 0 \/ n \in 1..N
  <2> HIDE DEF N
  <2> QED
    BY <1>1
<1>9. Eq(F)
  <2> HIDE DEF b, Body, L, N, base, Form
  <2>1. \A n \in 0..N : F[n] = Form(n, F)
    BY <1>5, <1>6, <1>7, <1>8
  <2> QED
    BY <1>5, <2>1
<1>10. Eq(CHOOSE h : Eq(h))
  <2> HIDE DEF Eq
  <2> QED
    BY <1>9
<1>11. Eq(collect)
  BY <1>10 DEF Notes
<1>12. \A f, c : GetIncludes(p, f, c) = collect[N][f][c]
  BY DEF GetIncludes
<1> DEFINE e == collect
<1>13. Eq(e) /\ \A f, c : GetIncludes(p, f, c) = e[N][f][c]
  BY <1>11, <1>12
<1> HIDE DEF e
<1>14. /\ e[0] = base
       /\ \A n \in 1..N : e[n] = Body(n, e[n - 1])
  <2> HIDE DEF Body, N, Form, base
  <2>1. \A n \in 1..N : n \in 0..N
    OBVIOUS
  <2>2. 0 \in 0..N
    BY <1>1
  <2>3. \A n \in 0..N : e[n] = Form(n, e)
    BY <1>13
  <2> QED
    BY <1>6, <1>7, <2>1, <2>2, <2>3
<1> HIDE DEF Form, base
<1>15. e \in [0..N -> L]
  <2> DEFINE T == {n \in 0..N : e[n] \in L}
  <2>1. 0 \in T
    BY <1>1, <1>14
  <2>2. ASSUME NEW n \in 1..N, n - 1 \in T PROVE n \in T
    <3>1. e[n] = Body(n, e[n - 1]) /\ e[n - 1] \in L
      BY <1>14, <2>2
    <3> HIDE DEF Body, L
    <3> QED
      BY <1>2, <3>1
  <2>3. 0..N \subseteq T
    <3> HIDE DEF T, N
    <3> QED
      BY <1>1, <2>1, <2>2, BoundedInduction
  <2>4. e = [n \in 0..N |-> e[n]]
    BY <1>13
  <2> HIDE DEF L, N
  <2> QED
    BY <2>3, <2>4
<1>16. IsCollecting(e, p, N)
  <2> HIDE DEF N
  <2> QED
    BY <1>14, <1>15 DEF IsCollecting, base
<1> QED
  BY <1>13, <1>16

\* The files that a file leads to: itself, and those it depends on.
Reach(p, g) == {x \in Files : x = g \/ g \in Dependents(p, x)}
Listed(p, x) == IF x \in DOMAIN p THEN p[x].includes ELSE <<>>

LEMMA ReachProperties ==
  ASSUME NEW p, IsGraph(p), IsFiniteSet(Files), NEW g \in Files
  PROVE  /\ g \in Reach(p, g)
         /\ \A h \in Reach(p, g) : Reach(p, h) \subseteq Reach(p, g)
         /\ \A k \in DOMAIN Listed(p, g) : Listed(p, g)[k] \in Reach(p, g)
         /\ \A C : g \in C /\ (\A y \in C \cap DOMAIN p : ToSet(p[y].includes) \subseteq C)
                     => Reach(p, g) \subseteq C
<1>1. IsFiniteSet(DOMAIN p)
  BY FS_Subset DEF IsGraph
<1>2. \A x : /\ Includers(p, x) \subseteq Dependents(p, x)
             /\ \A y \in Dependents(p, x) : Includers(p, y) \subseteq Dependents(p, x)
             /\ \A C : (Includers(p, x) \subseteq C /\ \A y \in C : Includers(p, y) \subseteq C)
                         => Dependents(p, x) \subseteq C
             /\ Dependents(p, x) \subseteq DOMAIN p
  BY <1>1, DependentsProperties
<1>3. \A x, y : y \in Dependents(p, x) => Dependents(p, y) \subseteq Dependents(p, x)
  BY <1>2
<1>4. ASSUME NEW h \in Reach(p, g) PROVE Reach(p, h) \subseteq Reach(p, g)
  BY <1>3 DEF Reach
<1>5. ASSUME NEW k \in DOMAIN Listed(p, g) PROVE Listed(p, g)[k] \in Reach(p, g)
  <2>1. g \in DOMAIN p /\ Listed(p, g) = p[g].includes /\ p[g].includes \in Seq(Files)
    BY DEF Listed, IsGraph
  <2>2. p[g].includes[k] \in Files /\ Contains(p[g].includes, p[g].includes[k])
    BY <2>1 DEF Contains
  <2>3. g \in Includers(p, p[g].includes[k])
    BY <2>1, <2>2 DEF Includers
  <2> QED
    BY <1>2, <2>1, <2>2, <2>3 DEF Reach
<1>6. ASSUME NEW C, g \in C, \A y \in C \cap DOMAIN p : ToSet(p[y].includes) \subseteq C,
             NEW x \in Reach(p, g)
      PROVE  x \in C
  <2>1. SUFFICES ASSUME x \notin C PROVE FALSE
    OBVIOUS
  <2>2. ASSUME NEW z, z \notin C PROVE Includers(p, z) \subseteq DOMAIN p \ C
    <3>1. ASSUME NEW y \in Includers(p, z) PROVE y \in DOMAIN p /\ y \notin C
      <4>1. y \in DOMAIN p /\ z \in ToSet(p[y].includes)
        BY DEF Includers, Contains, ToSet
      <4> QED
        BY <1>6, <2>2, <4>1
    <3> QED
      BY <3>1
  <2>3. Dependents(p, x) \subseteq DOMAIN p \ C
    <3>1. \A y \in DOMAIN p \ C : Includers(p, y) \subseteq DOMAIN p \ C
      BY <2>2
    <3> QED
      BY <1>2, <2>1, <2>2, <3>1
  <2> QED
    BY <1>6, <2>1, <2>3 DEF Reach
<1>7. g \in Reach(p, g)
  BY DEF Reach
<1> QED
  BY <1>4, <1>5, <1>6, <1>7

\* What getIncludes does for a file g: it adds the includes of g to what is
\* noted of g, notes those of other files that g leads to and that have no
\* note, and goes on from each of them until it has.  It has got Partly there
\* after i includes of g.
Settled(p, c, y) == c[y] # <<>> \/ Listed(p, y) = <<>>
Noticed(p, g, c, x) ==
  /\ x \in Reach(p, g)
  /\ c[x] = Listed(p, x)
  /\ \A k \in DOMAIN Listed(p, x) : Settled(p, c, Listed(p, x)[k])
Partly(p, g, b, c, i) ==
  /\ c \in Notes
  /\ \A x \in Files \ {g} : b[x] # <<>> => c[x] = b[x]
  /\ \A x \in Files \ {g} : c[x] # b[x] => Noticed(p, g, c, x)
  /\ c[g] = b[g] \o SubSeq(Listed(p, g), 1, i)
  /\ \A k \in 1..i : Settled(p, c, Listed(p, g)[k])
Explored(p, g, b, c) == Partly(p, g, b, c, Len(Listed(p, g)))
Unnoted(c) == {x \in Files : c[x] = <<>>}
Explores(p, call, n) ==
  \A h \in Files, c \in Notes :
    Cardinality(Unnoted(c) \ {h}) < n => Explored(p, h, c, call[h][c])

LEMMA UnnotedFinite ==
  ASSUME IsFiniteSet(Files), NEW c
  PROVE  /\ IsFiniteSet(Unnoted(c)) /\ Cardinality(Unnoted(c)) \in Nat
         /\ \A g : IsFiniteSet(Unnoted(c) \ {g}) /\ Cardinality(Unnoted(c) \ {g}) \in Nat
<1>1. IsFiniteSet(Unnoted(c)) /\ \A g : IsFiniteSet(Unnoted(c) \ {g})
  BY FS_Subset DEF Unnoted
<1> QED
  BY <1>1, FS_CardinalityType

LEMMA ListedTyped ==
  ASSUME NEW p, IsGraph(p), NEW x
  PROVE  /\ Listed(p, x) \in Seq(Files) /\ Len(Listed(p, x)) \in Nat
         /\ DOMAIN Listed(p, x) = 1..Len(Listed(p, x))
         /\ \A k \in DOMAIN Listed(p, x) : Listed(p, x)[k] \in Files
         /\ SubSeq(Listed(p, x), 1, Len(Listed(p, x))) = Listed(p, x)
<1>1. Listed(p, x) \in Seq(Files)
  BY DEF Listed, IsGraph
<1> QED
  BY <1>1, SubSeqFull

\* What a call has done, file by file.
LEMMA ExploredMeans ==
  ASSUME NEW p, IsGraph(p), NEW g \in Files, NEW b, NEW c
  PROVE  Explored(p, g, b, c) <=>
           /\ c \in Notes
           /\ \A x \in Files \ {g} : b[x] # <<>> => c[x] = b[x]
           /\ \A x \in Files \ {g} : c[x] # b[x] => Noticed(p, g, c, x)
           /\ c[g] = b[g] \o Listed(p, g)
           /\ \A k \in DOMAIN Listed(p, g) : Settled(p, c, Listed(p, g)[k])
BY ListedTyped DEF Explored, Partly

\* One include of g, if the calls do what they have to when fewer than n other
\* files have no note.
LEMMA PartlyStep ==
  ASSUME NEW p, IsGraph(p), IsFiniteSet(Files), NEW call, NEW n \in Nat, Explores(p, call, n),
         NEW g \in Files, g \in DOMAIN p, NEW b \in Notes, Cardinality(Unnoted(b) \ {g}) <= n,
         NEW i \in 1..Len(p[g].includes), NEW c, Partly(p, g, b, c, i - 1)
  PROVE  Partly(p, g, b, OneNoted(call, g, p[g].includes[i], c), i)
<1> DEFINE L == p[g].includes
           h == L[i]
           m == Appended(c, g, h)
<1>1. /\ L \in Seq(Files) /\ i \in Nat /\ Len(L) \in Nat /\ i >= 1 /\ i <= Len(L) /\ h \in Files
      /\ Listed(p, g) = L
  BY DEF IsGraph, Listed
<1>2. /\ c \in Notes
      /\ \A x \in Files \ {g} : b[x] # <<>> => c[x] = b[x]
      /\ \A x \in Files \ {g} : c[x] # b[x] => Noticed(p, g, c, x)
      /\ c[g] = b[g] \o SubSeq(L, 1, i - 1)
      /\ \A k \in 1..(i - 1) : Settled(p, c, L[k])
  BY <1>1 DEF Partly
<1> HIDE DEF h
<1>3. /\ m \in Notes
      /\ m[g] = Append(c[g], h)
      /\ \A x \in Files : x # g => m[x] = c[x]
  BY <1>1, <1>2, AppendedTyped
<1>4. m[g] = b[g] \o SubSeq(L, 1, i) /\ m[g] # <<>>
  <2> DEFINE part == SubSeq(L, 1, i - 1)
  <2>1. SubSeq(L, 1, i) = part \o <<L[i]>>
    BY <1>1, SubSeqRecursiveSecond
  <2>2. c[g] \in Seq(Files) /\ b[g] \in Seq(Files)
    BY <1>2 DEF Notes
  <2>3. part \in Seq(Files)
    <3>1. 1 \in Int /\ i - 1 \in Int /\ 1..i - 1 \subseteq 1..Len(L)
      BY <1>1
    <3> HIDE DEF L
    <3>2. \A j \in 1..Len(L) : L[j] \in Files
      <4>1. L \in Seq(Files)
        BY <1>1
      <4> QED
        BY <4>1
    <3>3. \A j \in 1..i - 1 : L[j] \in Files
      BY <3>1, <3>2
    <3> DEFINE end == i - 1
    <3>4. 1 \in Int /\ end \in Int /\ \A j \in 1..end : L[j] \in Files
      BY <3>1, <3>3
    <3> HIDE DEF end
    <3>5. SubSeq(L, 1, end) \in Seq(Files)
      BY <3>4, SubSeqProperties
    <3> QED
      BY <3>5 DEF end
  <2> HIDE DEF part
  <2>4. \A s \in Seq(Files) : Append(s, h) # <<>> /\ Append(s, h) = s \o <<h>>
    <3>1. h \in Files
      BY <1>1
    <3> QED
      BY <3>1, AppendProperties, AppendIsConcat
  <2> DEFINE one == <<h>>
  <2>5. one \in Seq(Files)
    BY <1>1
  <2> HIDE DEF one
  <2>6. (b[g] \o part) \o one = b[g] \o (part \o one)
    <3> DEFINE S == Seq(Files)
    <3> HIDE DEF S
    <3>1. \A r, s, t \in S : (r \o s) \o t = r \o (s \o t)
      BY ConcatAssociative DEF S
    <3>2. b[g] \in S /\ part \in S /\ one \in S
      BY <2>2, <2>3, <2>5 DEF S
    <3> QED
      BY <3>1, <3>2, Zenon
  <2> QED
    BY <1>2, <1>3, <2>1, <2>2, <2>4, <2>6 DEF h, part, one
<1>5. ASSUME NEW y, y \in Files, Settled(p, c, y) PROVE Settled(p, m, y)
  BY <1>3, <1>4, <1>5 DEF Settled
<1>6. \A x : \A k \in DOMAIN Listed(p, x) : Listed(p, x)[k] \in Files
  BY ListedTyped
<1>7. ASSUME NEW a, a \in Notes,
             \A x \in Files : m[x] # <<>> => a[x] = m[x],
             \A x \in Files : a[x] # m[x] => Noticed(p, h, a, x),
             Settled(p, a, h)
      PROVE  Partly(p, g, b, a, i)
  <2>1. \A y \in Files : Settled(p, m, y) => Settled(p, a, y)
    BY <1>7 DEF Settled
  <2>2. a[g] = b[g] \o SubSeq(L, 1, i)
    BY <1>4, <1>7
  <2>3. ASSUME NEW x \in Files \ {g}, b[x] # <<>> PROVE a[x] = b[x]
    BY <1>2, <1>3, <1>7, <2>3
  <2>4. ASSUME NEW x \in Files \ {g}, a[x] # b[x] PROVE Noticed(p, g, a, x)
    <3>1. CASE a[x] # m[x]
      <4>1. Noticed(p, h, a, x)
        BY <1>7, <3>1
      <4>2. h \in Reach(p, g)
        BY <1>1, ReachProperties DEF h
      <4>3. Reach(p, h) \subseteq Reach(p, g)
        BY <4>2, ReachProperties
      <4> QED
        BY <4>1, <4>3 DEF Noticed
    <3>2. CASE a[x] = m[x]
      <4>1. c[x] # b[x] /\ a[x] = c[x]
        BY <1>3, <2>4, <3>2
      <4>2. Noticed(p, g, c, x)
        BY <1>2, <4>1
      <4>3. \A k \in DOMAIN Listed(p, x) : Settled(p, a, Listed(p, x)[k])
        BY <1>5, <1>6, <2>1, <4>2 DEF Noticed
      <4> QED
        BY <4>1, <4>2, <4>3 DEF Noticed
    <3> QED
      BY <3>1, <3>2
  <2>5. ASSUME NEW k \in 1..i PROVE Settled(p, a, L[k])
    <3>1. CASE k = i
      BY <1>7, <3>1 DEF h
    <3>2. CASE k # i
      <4>1. k \in 1..(i - 1) /\ L[k] \in Files
        BY <1>1, <3>2
      <4> QED
        BY <1>2, <1>5, <2>1, <4>1
    <3> QED
      BY <3>1, <3>2
  <2> QED
    BY <1>1, <1>7, <2>2, <2>3, <2>4, <2>5 DEF Partly
<1> DEFINE a == OneNoted(call, g, h, c)
<1>8. CASE m[h] # <<>>
  <2>1. a = m /\ Settled(p, m, h)
    BY <1>8 DEF OneNoted, Settled
  <2> QED
    BY <1>3, <1>7, <2>1 DEF h
<1>9. CASE m[h] = <<>>
  <2>1. a = call[h][m]
    BY <1>9 DEF OneNoted
  <2>2. Cardinality(Unnoted(m) \ {h}) < n
    <3>1. Unnoted(m) \subseteq Unnoted(b) \ {g}
      BY <1>2, <1>3, <1>4 DEF Unnoted
    <3>2. h \in Unnoted(m)
      BY <1>1, <1>9 DEF Unnoted
    <3>3. /\ IsFiniteSet(Unnoted(m)) /\ Cardinality(Unnoted(m)) \in Nat
          /\ IsFiniteSet(Unnoted(b) \ {g}) /\ Cardinality(Unnoted(b) \ {g}) \in Nat
      BY UnnotedFinite
    <3>4. Cardinality(Unnoted(m) \ {h}) = Cardinality(Unnoted(m)) - 1
      BY <3>2, <3>3, FS_RemoveElement
    <3>5. Cardinality(Unnoted(m)) <= Cardinality(Unnoted(b) \ {g})
      BY <3>1, <3>3, FS_Subset
    <3> QED
      BY <3>3, <3>4, <3>5
  <2>3. Explored(p, h, m, a)
    BY <1>1, <1>3, <2>1, <2>2 DEF Explores
  <2>4. /\ a \in Notes
        /\ \A x \in Files \ {h} : m[x] # <<>> => a[x] = m[x]
        /\ \A x \in Files \ {h} : a[x] # m[x] => Noticed(p, h, a, x)
        /\ a[h] = m[h] \o Listed(p, h)
        /\ \A k \in DOMAIN Listed(p, h) : Settled(p, a, Listed(p, h)[k])
    BY <1>1, <2>3, ExploredMeans
  <2>5. a[h] = Listed(p, h)
    BY <1>9, <2>4, ListedTyped, ConcatEmptySeq
  <2>6. Noticed(p, h, a, h) /\ Settled(p, a, h)
    BY <1>1, <2>4, <2>5, ReachProperties DEF Noticed, Settled
  <2> HIDE DEF a
  <2>7. Partly(p, g, b, a, i)
    BY <1>7, <1>9, <2>4, <2>6
  <2> QED
    BY <2>7 DEF a, h
<1> QED
  BY <1>8, <1>9

\* All includes of g.
LEMMA NotedExplores ==
  ASSUME NEW p, IsGraph(p), IsFiniteSet(Files), NEW call \in Calls, NEW n \in Nat,
         Explores(p, call, n),
         NEW g \in Files, g \in DOMAIN p, NEW b \in Notes, Cardinality(Unnoted(b) \ {g}) <= n
  PROVE  Explored(p, g, b, Noted(p, call, g, b))
<1> DEFINE L == p[g].includes
           N == Len(L)
<1>1. L \in Seq(Files) /\ N \in Nat /\ Listed(p, g) = L
  BY DEF IsGraph, Listed
<1>2. PICK e : IsNoting(e, call, g, L, b) /\ Noted(p, call, g, b) = e[N]
  BY <1>1, NotedRecursion
<1> DEFINE T == {i \in 0..N : Partly(p, g, b, e[i], i)}
<1>3. 0 \in T
  <2>1. e[0] = b /\ 0 \in 0..N
    BY <1>1, <1>2 DEF IsNoting
  <2>2. SubSeq(L, 1, 0) = <<>>
    BY <1>1, SubSeqEmpty
  <2>3. b[g] \o <<>> = b[g]
    BY ConcatEmptySeq DEF Notes
  <2> \A k \in 1..0 : FALSE
    OBVIOUS
  <2>4. Partly(p, g, b, b, 0)
    BY <1>1, <2>2, <2>3, Zenon DEF Partly
  <2> QED
    BY <2>1, <2>4
<1>4. ASSUME NEW i \in 1..N, i - 1 \in T PROVE i \in T
  <2>1. Partly(p, g, b, e[i - 1], i - 1)
    BY <1>4
  <2>2. e[i] = OneNoted(call, g, L[i], e[i - 1])
    BY <1>2 DEF IsNoting
  <2>3. Partly(p, g, b, e[i], i)
    BY <2>1, <2>2, PartlyStep
  <2> QED
    BY <2>3
<1>5. 0..N \subseteq T
  <2> HIDE DEF T, N
  <2> QED
    BY <1>1, <1>3, <1>4, BoundedInduction
<1>6. Partly(p, g, b, e[N], N)
  BY <1>1, <1>5
<1> QED
  BY <1>1, <1>2, <1>6 DEF Explored

\* Enough calls in one another note what a file leads to.
LEMMA GetIncludesExplores ==
  ASSUME NEW p, IsGraph(p), IsFiniteSet(Files), NEW f \in Files, NEW b \in Notes
  PROVE  Explored(p, f, b, GetIncludes(p, f, b))
<1> DEFINE N == Cardinality(Files) + 1
<1>1. N \in Nat /\ Cardinality(Files) \in Nat
  BY FS_CardinalityType
<1>2. PICK e : IsCollecting(e, p, N) /\ \A g, c : GetIncludes(p, g, c) = e[N][g][c]
  BY CollectRecursion
<1> HIDE DEF N
<1> DEFINE T == {n \in 0..N : Explores(p, e[n], n)}
<1>3. 0 \in T
  <2>1. \A c, h : Cardinality(Unnoted(c) \ {h}) \in Nat
    BY UnnotedFinite
  <2>a. \A c, h : ~(Cardinality(Unnoted(c) \ {h}) < 0)
    <3>1. \A k \in Nat : ~(k < 0)
      OBVIOUS
    <3> QED
      BY <2>1, <3>1, Zenon
  <2>2. Explores(p, e[0], 0)
    BY <2>a, Zenon DEF Explores
  <2> QED
    BY <1>1, <2>2
<1>4. ASSUME NEW n \in 1..N, n - 1 \in T PROVE n \in T
  <2>1. e[n] = Collected(p, e[n - 1]) /\ Explores(p, e[n - 1], n - 1)
    BY <1>2, <1>4 DEF IsCollecting
  <2>2. n - 1 \in 0..N /\ n - 1 \in Nat /\ (n - 1) + 1 = n
    BY <1>1
  <2>3. e[n - 1] \in Calls
    BY <1>2, <2>2 DEF IsCollecting
  <2>4. ASSUME NEW g \in Files, NEW c \in Notes, Cardinality(Unnoted(c) \ {g}) < n
        PROVE  Explored(p, g, c, e[n][g][c])
    <3>1. CASE g \in DOMAIN p
      <4>1. e[n][g][c] = Noted(p, e[n - 1], g, c)
        BY <2>1, <3>1 DEF Collected
      <4>2. Cardinality(Unnoted(c) \ {g}) <= n - 1
        BY <2>2, <2>4, UnnotedFinite
      <4>3. Explored(p, g, c, Noted(p, e[n - 1], g, c))
        BY <2>1, <2>2, <2>3, <3>1, <4>2, NotedExplores
      <4> QED
        BY <4>1, <4>3
    <3>2. CASE g \notin DOMAIN p
      <4>1. e[n][g][c] = c
        BY <2>1, <3>2 DEF Collected
      <4>2. Listed(p, g) = <<>> /\ DOMAIN Listed(p, g) = {}
        BY <3>2 DEF Listed
      <4>3. c[g] \o <<>> = c[g]
        BY ConcatEmptySeq DEF Notes
      <4>4. Explored(p, g, c, c)
        BY <4>2, <4>3, ExploredMeans, Zenon
      <4> QED
        BY <4>1, <4>4
    <3> QED
      BY <3>1, <3>2
  <2>5. Explores(p, e[n], n)
    BY <2>4 DEF Explores
  <2> QED
    BY <2>5
<1>5. 0..N \subseteq T
  <2> HIDE DEF T
  <2> QED
    BY <1>1, <1>3, <1>4, BoundedInduction
<1>6. Explores(p, e[N], N)
  BY <1>1, <1>5
<1>7. Cardinality(Unnoted(b) \ {f}) < N
  <2>1. Unnoted(b) \ {f} \subseteq Files
    BY DEF Unnoted
  <2>2. /\ Cardinality(Unnoted(b) \ {f}) <= Cardinality(Files)
        /\ Cardinality(Unnoted(b) \ {f}) \in Nat
    BY <2>1, FS_Subset, UnnotedFinite
  <2> QED
    BY <1>1, <2>2 DEF N
<1>8. Explored(p, f, b, e[N][f][b])
  BY <1>6, <1>7 DEF Explores
<1> QED
  BY <1>2, <1>8

Edge(p, g, h) == g \in DOMAIN p /\ Contains(p[g].includes, h)
Path(p, g, h, k) ==
  \E s \in [0 .. k -> Files] :
    s[0] = g /\ s[k] = h /\ \A i \in 1 .. k : Edge(p, s[i - 1], s[i])

\* A path makes its first file depend on its last.
LEMMA PathDepends ==
  ASSUME NEW p, IsGraph(p), IsFiniteSet(Files), NEW g, NEW h, NEW k \in Nat \ {0},
         Path(p, g, h, k)
  PROVE  g \in Dependents(p, h)
<1> DEFINE D == Dependents(p, h)
<1>1. IsFiniteSet(DOMAIN p)
  BY FS_Subset DEF IsGraph
<1>2. /\ Includers(p, h) \subseteq D
      /\ \A y \in D : Includers(p, y) \subseteq D
  BY <1>1, DependentsProperties
<1> HIDE DEF D
<1>3. PICK s \in [0 .. k -> Files] :
        s[0] = g /\ s[k] = h /\ \A i \in 1 .. k : Edge(p, s[i - 1], s[i])
  BY DEF Path
<1>4. \A i \in 1..k : s[i - 1] \in Includers(p, s[i])
  BY <1>3 DEF Edge, Includers
<1> DEFINE N == k - 1
           T == {i \in 0..N : s[N - i] \in D}
<1>5. N \in Nat
  OBVIOUS
<1>6. 0 \in T
  <2>1. k \in 1..k /\ N - 0 = k - 1
    OBVIOUS
  <2>2. s[k - 1] \in D
    BY <1>2, <1>3, <1>4, <2>1
  <2> QED
    BY <1>5, <2>1, <2>2
<1>7. ASSUME NEW i \in 1..N, i - 1 \in T PROVE i \in T
  <2>1. N - i + 1 \in 1..k /\ (N - i + 1) - 1 = N - i /\ N - (i - 1) = N - i + 1
    OBVIOUS
  <2>2. s[N - i + 1] \in D
    BY <1>7, <2>1
  <2>3. s[N - i] \in Includers(p, s[N - i + 1])
    BY <1>4, <2>1
  <2>4. s[N - i] \in D
    BY <1>2, <2>2, <2>3
  <2> QED
    BY <2>4
<1>8. 0..N \subseteq T
  <2> HIDE DEF T, N
  <2> QED
    BY <1>5, <1>6, <1>7, BoundedInduction
<1>9. N \in T /\ N - N = 0
  BY <1>5, <1>8
<1> QED
  BY <1>3, <1>9 DEF D

\* A file that depends on another has a path to it, no longer than there are
\* files.
LEMMA DependsPath ==
  ASSUME NEW p, IsGraph(p), IsFiniteSet(Files), NEW h \in Files, NEW g \in Dependents(p, h)
  PROVE  \E k \in 1..Cardinality(Files) : Path(p, g, h, k)
<1> DEFINE N == Cardinality(DOMAIN p)
<1>1. IsFiniteSet(DOMAIN p) /\ N \in Nat /\ Cardinality(Files) \in Nat /\ N <= Cardinality(Files)
  BY FS_Subset, FS_CardinalityType DEF IsGraph
<1>2. PICK w \in [0..N -> SUBSET DOMAIN p] :
        /\ Dependents(p, h) = w[N] /\ IsWithin(w, p, h, N)
        /\ \A n \in 0..N : Grown(p, w[n]) = w[n] \/ Cardinality(w[n]) >= n + 1
  BY <1>1, DependentsLayers
<1>3. N # 0
  BY <1>1, <1>2, FS_EmptySet
<1> HIDE DEF N
<1>4. w[0] = Includers(p, h) /\ \A n \in 1..N : w[n] = Grown(p, w[n - 1])
  BY <1>2 DEF IsWithin
<1>5. g \in w[N - 1]
  <2>1. N \in 1..N /\ N - 1 \in 0..N /\ (N - 1) + 1 = N /\ N \in 0..N
    BY <1>1, <1>3
  <2>2. w[N] = Grown(p, w[N - 1]) /\ w[N - 1] \subseteq DOMAIN p /\ w[N] \subseteq DOMAIN p
    BY <1>2, <1>4, <2>1
  <2>3. CASE Grown(p, w[N - 1]) = w[N - 1]
    BY <1>2, <2>2, <2>3
  <2>4. CASE Cardinality(w[N - 1]) >= N
    <3>1. IsFiniteSet(w[N - 1]) /\ Cardinality(w[N - 1]) \in Nat /\ Cardinality(w[N - 1]) <= N
      BY <1>1, <2>2, FS_Subset, FS_CardinalityType DEF N
    <3>2. Cardinality(w[N - 1]) = Cardinality(DOMAIN p)
      BY <1>1, <2>4, <3>1 DEF N
    <3>3. w[N - 1] = DOMAIN p
      BY <1>1, <2>2, <3>2, FS_Subset
    <3> QED
      BY <1>2, <2>2, <3>3
  <2> QED
    BY <1>2, <2>1, <2>3, <2>4
<1> DEFINE T == {n \in 0..N : \A x \in w[n] : \E j \in 1..(n + 1) : Path(p, x, h, j)}
<1>6. \A n \in 0..N : w[n] \subseteq Files
  BY <1>2 DEF IsGraph
<1>7. 0 \in T
  <2>1. ASSUME NEW x \in w[0] PROVE Path(p, x, h, 1)
    <3> DEFINE s == [i \in 0..1 |-> IF i = 0 THEN x ELSE h]
    <3>1. x \in Files /\ Edge(p, x, h)
      BY <1>1, <1>4, <1>6 DEF Includers, Edge
    <3>2. s \in [0..1 -> Files] /\ s[0] = x /\ s[1] = h
      BY <3>1
    <3>3. \A i \in 1..1 : Edge(p, s[i - 1], s[i])
      <4> HIDE DEF s
      <4>1. \A i \in 1..1 : i = 1 /\ i - 1 = 0
        OBVIOUS
      <4> QED
        BY <3>1, <3>2, <4>1
    <3> HIDE DEF s
    <3> QED
      BY <3>2, <3>3 DEF Path
  <2>2. 1 \in 1..(0 + 1) /\ 0 \in 0..N
    BY <1>1
  <2> QED
    BY <2>1, <2>2
<1>8. ASSUME NEW n \in 1..N, n - 1 \in T PROVE n \in T
  <2>1. n \in 0..N /\ n - 1 \in 0..N /\ (n - 1) + 1 = n /\ n \in Nat
    BY <1>1
  <2>2. ASSUME NEW x \in w[n] PROVE \E j \in 1..(n + 1) : Path(p, x, h, j)
    <3>1. CASE x \in w[n - 1]
      <4>1. PICK j \in 1..n : Path(p, x, h, j)
        BY <1>8, <2>1, <3>1
      <4>2. j \in 1..(n + 1)
        BY <2>1
      <4> QED
        BY <4>1, <4>2
    <3>2. CASE x \notin w[n - 1]
      <4>1. PICK y \in w[n - 1] : x \in Includers(p, y)
        BY <1>4, <2>2, <3>2 DEF Grown
      <4>2. PICK j \in 1..n : Path(p, y, h, j)
        BY <1>8, <2>1
      <4>3. PICK s \in [0 .. j -> Files] :
              s[0] = y /\ s[j] = h /\ \A i \in 1 .. j : Edge(p, s[i - 1], s[i])
        BY <4>2 DEF Path
      <4> DEFINE m == j + 1
                 t == [i \in 0..m |-> IF i = 0 THEN x ELSE s[i - 1]]
      <4>4. m \in 1..(n + 1) /\ m \in Nat /\ m - 1 = j /\ m # 0 /\ \A i \in 1..m : i - 1 \in 0..j /\ i # 0 /\ i \in 0..m
        BY <2>1
      <4>5. x \in Files /\ Edge(p, x, y)
        BY <1>6, <2>1, <4>1 DEF Includers, Edge
      <4> HIDE DEF m
      <4>6. t \in [0..m -> Files]
        <5>1. \A i \in 0..m : i # 0 => i \in 1..m
          BY <4>4
        <5> QED
          BY <4>3, <4>4, <4>5, <5>1
      <4>7. t[0] = x /\ \A i \in 1..m : t[i] = s[i - 1]
        BY <4>4
      <4> HIDE DEF t
      <4>8. t[m] = h
        BY <4>3, <4>4, <4>7
      <4>9. ASSUME NEW i \in 1..m PROVE Edge(p, t[i - 1], t[i])
        <5>1. CASE i = 1
          <6>1. i - 1 = 0
            BY <5>1
          <6> QED
            BY <4>3, <4>5, <4>7, <6>1
        <5>2. CASE i # 1
          <6>1. i - 1 \in 1..m /\ i - 1 \in 1..j
            BY <4>4, <5>2 DEF m
          <6>2. t[i] = s[i - 1] /\ t[i - 1] = s[(i - 1) - 1]
            BY <4>7, <6>1
          <6> QED
            BY <4>3, <6>1, <6>2
        <5> QED
          BY <5>1, <5>2
      <4>10. Path(p, x, h, m)
        BY <4>6, <4>7, <4>8, <4>9 DEF Path
      <4> QED
        BY <4>4, <4>10
    <3> QED
      BY <3>1, <3>2
  <2> QED
    BY <2>1, <2>2
<1>9. 0..N \subseteq T
  <2> HIDE DEF T
  <2> QED
    BY <1>1, <1>7, <1>8, BoundedInduction
<1>10. N - 1 \in T /\ (N - 1) + 1 = N
  BY <1>1, <1>3, <1>9
<1>11. PICK k \in 1..N : Path(p, g, h, k)
  BY <1>5, <1>10
<1>12. k \in 1..Cardinality(Files)
  BY <1>1
<1> QED
  BY <1>11, <1>12

-----------------------------------------------------------------------------
(***************************************************************************)
(* CycleCheck over the analysed files.                                     *)
(***************************************************************************)
Noteless == [f \in Files |-> <<>>]
IsClosing(e, p, analysed) ==
  /\ e \in [0..Len(analysed) -> Notes]
  /\ e[0] = Noteless
  /\ \A i \in 1..Len(analysed) : e[i] = GetIncludes(p, analysed[i], e[i - 1])

\* The notes grow by one analysed file after the other.
LEMMA ClosureRecursion ==
  ASSUME NEW p, IsGraph(p), IsFiniteSet(Files), NEW analysed \in Seq(Files)
  PROVE  \E e : IsClosing(e, p, analysed) /\ Closure(p, analysed) = e[Len(analysed)]
<1> DEFINE N == Len(analysed)
           L == Notes
           Body(n, s) == GetIncludes(p, analysed[n], s)
           after[i \in 0 .. Len(analysed)] ==
             IF i = 0 THEN [f \in Files |-> <<>>]
             ELSE GetIncludes(p, analysed[i], after[i - 1])
           Step(h) == [n \in 0..N |-> IF n = 0 THEN Noteless ELSE Body(n, h[n - 1])]
           Eq(h) == h = Step(h)
           b == [q \in (1..N) \X L |-> Body(q[1], q[2])]
<1>1. N \in Nat /\ Noteless \in L
  BY DEF Noteless, Notes
<1>2. ASSUME NEW n \in 1..N, NEW s \in L PROVE Body(n, s) \in L
  <2>1. analysed[n] \in Files
    OBVIOUS
  <2> QED
    BY <2>1, GetIncludesExplores, ExploredMeans
<1>3. b \in [(1..N) \X L -> L] /\ \A n \in 1..N, s \in L : b[<<n, s>>] = Body(n, s)
  <2> HIDE DEF Body, L, N
  <2> QED
    BY <1>2
<1>4. PICK F : IsRecursion(F, L, N, Noteless, b)
  <2> HIDE DEF b, L, N
  <2> QED
    BY <1>1, <1>3, Recursion
<1>5. /\ F \in [0..N -> L] /\ F[0] = Noteless
      /\ \A n \in 1..N : F[n] = Body(n, F[n - 1])
  <2> HIDE DEF b, Body, L, N
  <2>1. /\ F \in [0..N -> L] /\ F[0] = Noteless
        /\ \A n \in 1..N : F[n] = b[<<n, F[n - 1]>>] /\ n - 1 \in 0..N
    BY <1>1, <1>4 DEF IsRecursion
  <2> QED
    BY <1>3, <2>1
<1>6. Eq(F)
  <2> HIDE DEF b, Body, L, N
  <2>1. \A n \in 0..N : n = 0 \/ n \in 1..N
    BY <1>1
  <2>2. \A n \in 1..N : n # 0
    OBVIOUS
  <2> QED
    BY <1>5, <2>1, <2>2
<1>7. Eq(CHOOSE h : Eq(h))
  <2> HIDE DEF Eq
  <2> QED
    BY <1>6
<1>8. Eq(after)
  BY <1>7 DEF Noteless
<1>9. Closure(p, analysed) = after[N]
  BY DEF Closure
<1> DEFINE e == after
<1>10. Eq(e) /\ Closure(p, analysed) = e[N]
  BY <1>8, <1>9
<1> HIDE DEF e
<1>11. /\ e[0] = Noteless
       /\ \A n \in 1..N : e[n] = Body(n, e[n - 1])
  <2> HIDE DEF Body, N
  <2>1. \A n \in 1..N : n \in 0..N /\ n # 0
    OBVIOUS
  <2>2. 0 \in 0..N
    BY <1>1
  <2> QED
    BY <1>10, <2>1, <2>2
<1>12. e \in [0..N -> L]
  <2> DEFINE T == {n \in 0..N : e[n] \in L}
  <2>1. 0 \in T
    BY <1>1, <1>11
  <2>2. ASSUME NEW n \in 1..N, n - 1 \in T PROVE n \in T
    <3>1. e[n] = Body(n, e[n - 1]) /\ e[n - 1] \in L
      BY <1>11, <2>2
    <3> HIDE DEF Body, L
    <3> QED
      BY <1>2, <3>1
  <2>3. 0..N \subseteq T
    <3> HIDE DEF T, N
    <3> QED
      BY <1>1, <2>1, <2>2, BoundedInduction
  <2>4. e = [n \in 0..N |-> e[n]]
    <3> HIDE DEF Body
    <3> QED
      BY <1>10
  <2> HIDE DEF L, N
  <2> QED
    BY <2>3, <2>4
<1> HIDE DEF Step, Body, Eq
<1>13. IsClosing(e, p, analysed)
  BY <1>11, <1>12 DEF IsClosing, Body
<1> QED
  BY <1>10, <1>13

\* The notes after some files: the includes of what they lead to, which may be
\* there more than once, and no file left out.
Gathered(p, fs, c, x) ==
  /\ \E f \in fs : x \in Reach(p, f)
  /\ ToSet(c[x]) = ToSet(Listed(p, x))
  /\ \A k \in DOMAIN Listed(p, x) : Settled(p, c, Listed(p, x)[k])
Complete(p, fs, c) ==
  /\ c \in Notes
  /\ \A x \in Files : c[x] # <<>> => Gathered(p, fs, c, x)
  /\ \A f \in fs : Settled(p, c, f)

LEMMA ToSetConcat ==
  ASSUME NEW S, NEW s \in Seq(S), NEW t \in Seq(S)
  PROVE  ToSet(s \o t) = ToSet(s) \cup ToSet(t)
<1>1. DOMAIN (s \o t) = 1..(Len(s) + Len(t)) /\ DOMAIN s = 1..Len(s) /\ DOMAIN t = 1..Len(t)
  OBVIOUS
<1>2. \A k \in 1..(Len(s) + Len(t)) : (s \o t)[k] = IF k <= Len(s) THEN s[k] ELSE t[k - Len(s)]
  OBVIOUS
<1>3. \A k \in 1..Len(s) : k \in 1..(Len(s) + Len(t)) /\ (s \o t)[k] = s[k]
  OBVIOUS
<1>4. \A k \in 1..Len(t) : k + Len(s) \in 1..(Len(s) + Len(t)) /\ (s \o t)[k + Len(s)] = t[k]
  OBVIOUS
<1>5. \A k \in 1..(Len(s) + Len(t)) : k \in 1..Len(s) \/ (k - Len(s) \in 1..Len(t) /\ ~(k <= Len(s)))
  OBVIOUS
<1>6. ToSet(s \o t) \subseteq ToSet(s) \cup ToSet(t)
  <2>1. SUFFICES ASSUME NEW k \in 1..(Len(s) + Len(t))
                 PROVE  (s \o t)[k] \in ToSet(s) \cup ToSet(t)
    BY <1>1 DEF ToSet
  <2>2. CASE k \in 1..Len(s)
    BY <1>1, <1>3, <2>2 DEF ToSet
  <2>3. CASE k - Len(s) \in 1..Len(t) /\ ~(k <= Len(s))
    BY <1>1, <1>2, <2>3 DEF ToSet
  <2> QED
    BY <1>5, <2>2, <2>3
<1>7. ToSet(s) \subseteq ToSet(s \o t)
  BY <1>1, <1>3 DEF ToSet
<1>8. ToSet(t) \subseteq ToSet(s \o t)
  BY <1>1, <1>4 DEF ToSet
<1> QED
  BY <1>6, <1>7, <1>8

\* getIncludes completes the notes for one more file, noted before or not.
LEMMA CompleteStep ==
  ASSUME NEW p, IsGraph(p), IsFiniteSet(Files), NEW fs \in SUBSET Files, NEW g \in Files,
         NEW b, Complete(p, fs, b)
  PROVE  Complete(p, fs \cup {g}, GetIncludes(p, g, b))
<1> DEFINE c == GetIncludes(p, g, b)
<1>1. /\ b \in Notes
      /\ \A x \in Files : b[x] # <<>> => Gathered(p, fs, b, x)
      /\ \A f \in fs : Settled(p, b, f)
  BY DEF Complete
<1>2. Explored(p, g, b, c)
  BY <1>1, GetIncludesExplores
<1> HIDE DEF c
<1>3. /\ c \in Notes
      /\ \A x \in Files \ {g} : b[x] # <<>> => c[x] = b[x]
      /\ \A x \in Files \ {g} : c[x] # b[x] => Noticed(p, g, c, x)
      /\ c[g] = b[g] \o Listed(p, g)
      /\ \A k \in DOMAIN Listed(p, g) : Settled(p, c, Listed(p, g)[k])
  BY <1>2, ExploredMeans
<1> DEFINE l == Listed(p, g)
<1>4. l \in Seq(Files) /\ b[g] \in Seq(Files) /\ c[g] = b[g] \o l /\ ToSet(<<>>) = {}
  BY <1>1, <1>3, ListedTyped DEF Notes, ToSet
<1>5. ToSet(c[g]) = ToSet(b[g]) \cup ToSet(l)
  BY <1>4, ToSetConcat
<1>6. /\ b[g] = <<>> => c[g] = l
      /\ b[g] # <<>> => c[g] # <<>>
      /\ l # <<>> => c[g] # <<>>
  <2> DEFINE r == b[g]
  <2> HIDE DEF r, l
  <2>1. \A s, t \in Seq(Files) : /\ s = <<>> => s \o t = t
                                 /\ s # <<>> => s \o t # <<>>
                                 /\ t # <<>> => s \o t # <<>>
    OBVIOUS
  <2> QED
    BY <1>4, <2>1 DEF r
<1>7. \A y \in Files : Settled(p, b, y) => Settled(p, c, y)
  <2>1. ASSUME NEW y \in Files, b[y] # <<>> PROVE c[y] # <<>>
    BY <1>3, <1>6, <2>1
  <2> QED
    BY <2>1 DEF Settled
<1>8. \A x : \A k \in DOMAIN Listed(p, x) : Listed(p, x)[k] \in Files
  BY ListedTyped
<1>9. \A x : Gathered(p, fs, b, x) =>
        \A k \in DOMAIN Listed(p, x) : Settled(p, c, Listed(p, x)[k])
  BY <1>7, <1>8 DEF Gathered
<1>10. ASSUME NEW x \in Files, c[x] # <<>> PROVE Gathered(p, fs \cup {g}, c, x)
  <2>1. CASE x = g
    <3>1. g \in Reach(p, g)
      BY ReachProperties
    <3>2. ToSet(c[g]) = ToSet(l)
      <4>1. CASE b[g] = <<>>
        BY <1>6, <4>1
      <4>2. CASE b[g] # <<>>
        BY <1>1, <1>5, <4>2 DEF Gathered
      <4> QED
        BY <4>1, <4>2
    <3> QED
      BY <1>3, <2>1, <3>1, <3>2 DEF Gathered
  <2>2. CASE x # g /\ c[x] # b[x]
    <3>1. Noticed(p, g, c, x)
      BY <1>3, <2>2
    <3> QED
      BY <3>1 DEF Noticed, Gathered
  <2>3. CASE x # g /\ c[x] = b[x]
    <3>1. Gathered(p, fs, b, x)
      BY <1>1, <1>10, <2>3
    <3> QED
      BY <1>9, <2>3, <3>1 DEF Gathered
  <2> QED
    BY <2>1, <2>2, <2>3
<1>11. ASSUME NEW f \in fs \cup {g} PROVE Settled(p, c, f)
  <2>1. CASE f = g
    BY <1>6, <2>1 DEF Settled
  <2>2. CASE f \in fs
    BY <1>1, <1>7, <2>2
  <2> QED
    BY <2>1, <2>2
<1>12. Complete(p, fs \cup {g}, c)
  BY <1>3, <1>10, <1>11 DEF Complete
<1> QED
  BY <1>12 DEF c

\* What complete notes say of a file.
LEMMA CompleteMeans ==
  ASSUME NEW p, IsGraph(p), IsFiniteSet(Files), NEW fs \in SUBSET Files, NEW c,
         Complete(p, fs, c), NEW x \in Files
  PROVE  ToSet(c[x]) = IF \E f \in fs : x \in Reach(p, f) THEN ToSet(Listed(p, x)) ELSE {}
<1>1. /\ c \in Notes
      /\ \A y \in Files : c[y] # <<>> => Gathered(p, fs, c, y)
      /\ \A f \in fs : Settled(p, c, f)
  BY DEF Complete
<1>2. ToSet(<<>>) = {}
  BY DEF ToSet
<1>3. CASE ~ \E f \in fs : x \in Reach(p, f)
  BY <1>1, <1>2, <1>3 DEF Gathered
<1>4. ASSUME NEW f \in fs, x \in Reach(p, f) PROVE ToSet(c[x]) = ToSet(Listed(p, x))
  <2> DEFINE C == {y \in Files : Settled(p, c, y)}
  <2>1. f \in C
    BY <1>1
  <2>2. ASSUME NEW y \in C, y \in DOMAIN p PROVE ToSet(p[y].includes) \subseteq C
    <3>1. Listed(p, y) = p[y].includes /\ p[y].includes \in Seq(Files)
      BY <2>2 DEF Listed, IsGraph
    <3>2. SUFFICES ASSUME NEW k \in DOMAIN p[y].includes PROVE p[y].includes[k] \in C
      BY DEF ToSet
    <3>3. p[y].includes # <<>> /\ p[y].includes[k] \in Files
      BY <3>1
    <3>4. c[y] # <<>>
      BY <3>1, <3>3 DEF Settled
    <3>5. Gathered(p, fs, c, y)
      BY <1>1, <3>4
    <3>6. Settled(p, c, p[y].includes[k])
      BY <3>1, <3>5 DEF Gathered
    <3> QED
      BY <3>3, <3>6
  <2>3. Reach(p, f) \subseteq C
    <3> HIDE DEF C
    <3> QED
      BY <2>1, <2>2, ReachProperties
  <2>4. Settled(p, c, x)
    BY <1>4, <2>3
  <2> QED
    BY <1>1, <2>4 DEF Settled, Gathered
<1> QED
  BY <1>3, <1>4

LEMMA ClosureComplete ==
  ASSUME NEW p, IsGraph(p), IsFiniteSet(Files), NEW analysed \in Seq(Files)
  PROVE  Complete(p, ToSet(analysed), Closure(p, analysed))
<1> DEFINE N == Len(analysed)
           First(i) == {analysed[j] : j \in 1..i}
<1>1. PICK e : IsClosing(e, p, analysed) /\ Closure(p, analysed) = e[N]
  BY ClosureRecursion
<1>2. /\ N \in Nat /\ \A i \in 1..N : analysed[i] \in Files
      /\ e[0] = Noteless /\ Noteless \in Notes
      /\ \A i \in 1..N : e[i] = GetIncludes(p, analysed[i], e[i - 1])
  BY <1>1 DEF IsClosing, Noteless, Notes
<1> HIDE DEF N
<1> DEFINE T == {i \in 0..N : Complete(p, First(i), e[i])}
<1>3. 0 \in T
  <2>1. First(0) = {}
    OBVIOUS
  <2>2. Complete(p, {}, Noteless)
    BY <1>2 DEF Complete, Noteless
  <2>3. 0 \in 0..N
    BY <1>2
  <2> HIDE DEF First
  <2> QED
    BY <1>2, <2>1, <2>2, <2>3
<1>4. ASSUME NEW i \in 1..N, i - 1 \in T PROVE i \in T
  <2>1. First(i) = First(i - 1) \cup {analysed[i]}
    <3>1. 1..i = (1..(i - 1)) \cup {i}
      BY <1>2
    <3> QED
      BY <3>1
  <2>2. First(i - 1) \subseteq Files
    BY <1>2
  <2>3. Complete(p, First(i - 1), e[i - 1])
    BY <1>4
  <2> HIDE DEF First
  <2>4. Complete(p, First(i), e[i])
    BY <1>2, <2>1, <2>2, <2>3, CompleteStep
  <2> QED
    BY <2>4
<1>5. 0..N \subseteq T
  <2> HIDE DEF T
  <2> QED
    BY <1>2, <1>3, <1>4, BoundedInduction
<1>6. First(N) = ToSet(analysed)
  BY DEF ToSet, N
<1>7. Complete(p, First(N), e[N])
  <2> N \in 0..N
    BY <1>2
  <2> HIDE DEF First
  <2> QED
    BY <1>5
<1> QED
  BY <1>1, <1>6, <1>7 DEF N

Linked(p, g, h) == \E k \in 1..Cardinality(Files) : Path(p, g, h, k)

\* What CycleCheck reports, by paths.
LEMMA CycleCheckByPaths ==
  ASSUME NEW p, IsGraph(p), IsFiniteSet(Files), NEW analysed \in Seq(Files)
  PROVE  CycleCheck(p, analysed) =
           {e \in Files \X Files :
              /\ Edge(p, e[1], e[2]) /\ Linked(p, e[2], e[1])
              /\ \E f \in ToSet(analysed) : e[1] = f \/ Linked(p, f, e[1])}
<1> DEFINE c == Closure(p, analysed)
           fs == ToSet(analysed)
<1>1. ASSUME NEW x, NEW y \in Files PROVE Linked(p, x, y) <=> x \in Dependents(p, y)
  <2>1. ASSUME NEW k \in 1..Cardinality(Files), Path(p, x, y, k) PROVE x \in Dependents(p, y)
    <3>1. k \in Nat \ {0}
      BY FS_CardinalityType
    <3> QED
      BY <2>1, <3>1, PathDepends
  <2>2. x \in Dependents(p, y) => Linked(p, x, y)
    BY DependsPath DEF Linked
  <2> QED
    BY <2>1, <2>2 DEF Linked
<1>2. fs \subseteq Files /\ Complete(p, fs, c)
  BY ClosureComplete DEF ToSet
<1>3. CycleCheck(p, analysed) =
        UNION {{<<g, h>> : h \in ToSet(c[g]) \cap Dependents(p, g)} : g \in Files}
  BY DEF CycleCheck
<1> HIDE DEF c, fs
<1>4. ASSUME NEW g \in Files, NEW h
      PROVE  h \in ToSet(c[g]) <=> Edge(p, g, h) /\ \E f \in fs : g = f \/ Linked(p, f, g)
  <2>1. ToSet(c[g]) = IF \E f \in fs : g \in Reach(p, f) THEN ToSet(Listed(p, g)) ELSE {}
    BY <1>2, CompleteMeans
  <2>2. \A f \in fs : g \in Reach(p, f) <=> (g = f \/ Linked(p, f, g))
    BY <1>1 DEF Reach
  <2>3. h \in ToSet(Listed(p, g)) <=> Edge(p, g, h)
    <3>1. ToSet(<<>>) = {}
      BY DEF ToSet
    <3> QED
      BY <3>1 DEF Listed, Edge, Contains, ToSet
  <2> QED
    BY <2>1, <2>2, <2>3
<1>5. ASSUME NEW g, NEW h, Edge(p, g, h) PROVE h \in Files
  <2>1. p[g].includes \in Seq(Files)
    BY <1>5 DEF Edge, IsGraph
  <2> QED
    BY <1>5, <2>1 DEF Edge, Contains
<1> DEFINE K(g) == ToSet(c[g]) \cap Dependents(p, g)
           Q(g, h) == /\ Edge(p, g, h) /\ Linked(p, h, g)
                      /\ \E f \in fs : g = f \/ Linked(p, f, g)
<1>6. \A g \in Files : K(g) = {h \in Files : Q(g, h)}
  BY <1>1, <1>4, <1>5
<1>7. CycleCheck(p, analysed) = UNION {{<<g, h>> : h \in K(g)} : g \in Files}
  BY <1>3
<1> HIDE DEF K, Q
<1>8. CycleCheck(p, analysed) = {e \in Files \X Files : Q(e[1], e[2])}
  BY <1>6, <1>7
<1> QED
  BY <1>8 DEF Q, fs

\* The includes that are reported as cycles are those that lead back to the
\* file they stand in, of all files that the analysed ones lead to, in every
\* project: getIncludes leaves no file out, however they include each other
\* and in whatever order they are analysed, and Dependents finds the includers
\* at every distance.
THEOREM CyclesAreReported == Spec => []CyclesReported
<1>1. ASSUME IsProject(project) PROVE CyclesReported
  <2>1. IsGraph(project) /\ IsFiniteSet(Files)
    BY <1>1, ProjectsAssumption DEF IsProject
  <2>2. ASSUME NEW n \in 0 .. Cardinality(DOMAIN project),
               NEW analysed \in [1 .. n -> DOMAIN project]
        PROVE  CycleCheck(project, analysed) =
                 {e \in Files \X Files :
                    /\ Edge(project, e[1], e[2]) /\ Linked(project, e[2], e[1])
                    /\ \E i \in 1 .. n : e[1] = analysed[i] \/ Linked(project, analysed[i], e[1])}
    <3>1. n \in Nat
      BY <1>1, FS_CardinalityType DEF IsProject
    <3>2. analysed \in Seq(Files) /\ DOMAIN analysed = 1..n
      BY <2>1, <3>1 DEF IsGraph
    <3>3. ASSUME NEW e
          PROVE  (\E f \in ToSet(analysed) : e[1] = f \/ Linked(project, f, e[1]))
                 <=> \E i \in 1..n : e[1] = analysed[i] \/ Linked(project, analysed[i], e[1])
      BY <3>2 DEF ToSet
    <3> QED
      BY <2>1, <3>2, <3>3, CycleCheckByPaths
  <2> QED
    BY <2>2 DEF CyclesReported, Edge, Linked, Path, Files
<1>2. IsProject(project) => CyclesReported
  BY <1>1
<1> QED
  BY <1>2, ProjectTyped, PTL

\* The segment of a name that is an enum is one of its segments.
LEMMA EnumSegmentInName ==
  ASSUME NEW S, NEW name \in Seq(S), NEW enum, EnumSegment(name, enum) # 0
  PROVE  EnumSegment(name, enum) \in 1..Len(name)
<1> DEFINE I == {i \in 1..Len(name) : name[i] = enum}
<1>1. EnumSegment(name, enum) = IF I # {} THEN Min(I) ELSE 0
  BY DEF EnumSegment, SelectInSeq
<1>2. I # {} /\ I \in SUBSET (0..Len(name)) /\ Len(name) \in Nat
  BY <1>1
<1>3. Min(I) \in I
  <2> HIDE DEF I
  <2> QED
    BY <1>2, LeastAndGreatest
<1> QED
  BY <1>1, <1>2, <1>3
-----------------------------------------------------------------------------
(***************************************************************************)
(* The files in which a name is looked for.                                *)
(***************************************************************************)
Seens == Seq(Files)
Visitors == [Files -> [Seens -> Seens]]
OneVisited(call, h, c) == IF Contains(c, h) THEN c ELSE call[h][Append(c, h)]
IsVisiting(e, call, includes, seen) ==
  /\ e \in [0..Len(includes) -> Seens]
  /\ e[0] = seen
  /\ \A i \in 1..Len(includes) : e[i] = OneVisited(call, includes[i], e[i - 1])

\* The loop of visit over the includes of a file.
LEMMA VisitedRecursion ==
  ASSUME NEW p, NEW g \in Files, NEW call \in Visitors, NEW seen \in Seens,
         p[g].includes \in Seq(Files)
  PROVE  \E e : IsVisiting(e, call, p[g].includes, seen)
                /\ Visited(p, call, g, seen) = e[Len(p[g].includes)]
<1> DEFINE N == Len(p[g].includes)
           L == Seens
           Body(n, s) == OneVisited(call, p[g].includes[n], s)
           after[i \in 0 .. Len(p[g].includes)] ==
             LET h == p[g].includes[i]
             IN  IF i = 0 THEN seen
                 ELSE IF Contains(after[i - 1], h) THEN after[i - 1]
                 ELSE call[h][Append(after[i - 1], h)]
           Step(h) == [n \in 0..N |-> IF n = 0 THEN seen ELSE Body(n, h[n - 1])]
           Eq(h) == h = Step(h)
           b == [q \in (1..N) \X L |-> Body(q[1], q[2])]
<1>1. N \in Nat /\ seen \in L /\ \A n \in 1..N : p[g].includes[n] \in Files
  OBVIOUS
<1>2. ASSUME NEW n \in 1..N, NEW s \in L PROVE Body(n, s) \in L
  <2> DEFINE h == p[g].includes[n]
  <2>1. h \in Files
    BY <1>1
  <2> HIDE DEF h
  <2>2. Append(s, h) \in Seens
    BY <2>1 DEF Seens
  <2>3. OneVisited(call, h, s) \in Seens
    BY <2>1, <2>2 DEF OneVisited, Visitors
  <2> QED
    BY <2>3 DEF h
<1>3. b \in [(1..N) \X L -> L] /\ \A n \in 1..N, s \in L : b[<<n, s>>] = Body(n, s)
  <2> HIDE DEF Body, L, N
  <2> QED
    BY <1>2
<1>4. PICK F : IsRecursion(F, L, N, seen, b)
  <2> HIDE DEF b, L, N
  <2> QED
    BY <1>1, <1>3, Recursion
<1>5. /\ F \in [0..N -> L] /\ F[0] = seen
      /\ \A n \in 1..N : F[n] = Body(n, F[n - 1])
  <2> HIDE DEF b, Body, L, N
  <2>1. /\ F \in [0..N -> L] /\ F[0] = seen
        /\ \A n \in 1..N : F[n] = b[<<n, F[n - 1]>>] /\ n - 1 \in 0..N
    BY <1>1, <1>4 DEF IsRecursion
  <2> QED
    BY <1>3, <2>1
<1>6. Eq(F)
  <2> HIDE DEF b, Body, L, N
  <2>3. \A n \in 0..N : n = 0 \/ n \in 1..N
    BY <1>1
  <2>4. \A n \in 1..N : n # 0
    OBVIOUS
  <2> QED
    BY <1>5, <2>3, <2>4
<1>7. Eq(CHOOSE h : Eq(h))
  <2> HIDE DEF Eq
  <2> QED
    BY <1>6
<1>8. Eq(after)
  BY <1>7 DEF OneVisited
<1>9. Visited(p, call, g, seen) = after[N]
  BY DEF Visited
<1> DEFINE e == after
<1>10. Eq(e) /\ Visited(p, call, g, seen) = e[N]
  BY <1>8, <1>9
<1> HIDE DEF e
<1>11. /\ e[0] = seen
       /\ \A n \in 1..N : e[n] = Body(n, e[n - 1])
  <2> HIDE DEF Body, N
  <2>1. \A n \in 1..N : n \in 0..N /\ n # 0
    OBVIOUS
  <2>2. 0 \in 0..N
    BY <1>1
  <2> QED
    BY <1>10, <2>1, <2>2
<1>12. e \in [0..N -> L]
  <2> DEFINE T == {n \in 0..N : e[n] \in L}
  <2>1. 0 \in T
    BY <1>1, <1>11
  <2>2. ASSUME NEW n \in 1..N, n - 1 \in T PROVE n \in T
    <3>1. e[n] = Body(n, e[n - 1]) /\ e[n - 1] \in L
      BY <1>11, <2>2
    <3> HIDE DEF Body, L
    <3> QED
      BY <1>2, <3>1
  <2>3. 0..N \subseteq T
    <3> HIDE DEF T, N
    <3> QED
      BY <1>1, <2>1, <2>2, BoundedInduction
  <2>4. e = [n \in 0..N |-> e[n]]
    <3> HIDE DEF Body
    <3> QED
      BY <1>10
  <2> HIDE DEF L, N
  <2> QED
    BY <2>3, <2>4
<1> HIDE DEF Step, Body, Eq
<1>13. IsVisiting(e, call, p[g].includes, seen)
  BY <1>11, <1>12 DEF IsVisiting, Body
<1> QED
  BY <1>10, <1>13

Revisited(p, call) ==
  [g \in Files |-> [seen \in Seens |->
     IF g \notin DOMAIN p THEN seen ELSE Visited(p, call, g, seen)]]
IsVisits(e, p, N) ==
  /\ e \in [0..N -> Visitors]
  /\ e[0] = [g \in Files |-> [seen \in Seens |-> seen]]
  /\ \A n \in 1..N : e[n] = Revisited(p, e[n - 1])

\* What the loop of visit finds is a sequence of files.
LEMMA VisitedTyped ==
  ASSUME NEW p, NEW g \in Files, NEW call \in Visitors, NEW seen \in Seens,
         p[g].includes \in Seq(Files)
  PROVE  Visited(p, call, g, seen) \in Seens
<1>1. PICK e : IsVisiting(e, call, p[g].includes, seen)
               /\ Visited(p, call, g, seen) = e[Len(p[g].includes)]
  BY VisitedRecursion
<1>2. Len(p[g].includes) \in 0..Len(p[g].includes)
  OBVIOUS
<1> QED
  BY <1>1, <1>2 DEF IsVisiting

\* visit, of which a call is what the calls one level down make of it.
LEMMA VisitRecursion ==
  ASSUME NEW p, IsGraph(p), IsFiniteSet(Files)
  PROVE  \E e : /\ IsVisits(e, p, Cardinality(Files))
                /\ \A f, c : Visit(p, f, c) = e[Cardinality(Files)][f][c]
<1> DEFINE N == Cardinality(Files)
           L == Visitors
           Body(n, s) == Revisited(p, s)
           base == [g \in Files |-> [seen \in Seens |-> seen]]
           visit[n \in 0 .. Cardinality(Files)] ==
             [g \in Files |-> [seen \in Seq(Files) |->
                IF n = 0 \/ g \notin DOMAIN p THEN seen ELSE Visited(p, visit[n - 1], g, seen)]]
           Form(n, h) == [g \in Files |-> [seen \in Seens |->
                IF n = 0 \/ g \notin DOMAIN p THEN seen ELSE Visited(p, h[n - 1], g, seen)]]
           Step(h) == [n \in 0..N |-> Form(n, h)]
           Eq(h) == h = Step(h)
           b == [q \in (1..N) \X L |-> Body(q[1], q[2])]
<1>1. N \in Nat /\ base \in L
  BY FS_CardinalityType DEF Visitors
<1>2. ASSUME NEW n \in 1..N, NEW s \in L PROVE Body(n, s) \in L
  <2>1. ASSUME NEW g \in Files, NEW seen \in Seens, g \in DOMAIN p
        PROVE  Visited(p, s, g, seen) \in Seens
    BY <2>1, VisitedTyped DEF IsGraph
  <2> QED
    BY <2>1 DEF Revisited, Visitors
<1>3. b \in [(1..N) \X L -> L] /\ \A n \in 1..N, s \in L : b[<<n, s>>] = Body(n, s)
  <2> HIDE DEF Body, L, N
  <2> QED
    BY <1>2
<1>4. PICK F : IsRecursion(F, L, N, base, b)
  <2> HIDE DEF b, L, N, base
  <2> QED
    BY <1>1, <1>3, Recursion
<1>5. /\ F \in [0..N -> L] /\ F[0] = base
      /\ \A n \in 1..N : F[n] = Body(n, F[n - 1])
  <2> HIDE DEF b, Body, L, N, base
  <2>1. /\ F \in [0..N -> L] /\ F[0] = base
        /\ \A n \in 1..N : F[n] = b[<<n, F[n - 1]>>] /\ n - 1 \in 0..N
    BY <1>1, <1>4 DEF IsRecursion
  <2> QED
    BY <1>3, <2>1
<1>6. \A h : Form(0, h) = base
  OBVIOUS
<1>7. \A h : \A n \in 1..N : Form(n, h) = Body(n, h[n - 1])
  <2> SUFFICES ASSUME NEW h, NEW n \in 1..N PROVE Form(n, h) = Body(n, h[n - 1])
    OBVIOUS
  <2> n # 0
    BY <1>1
  <2> QED
    BY DEF Revisited
<1>8. \A n \in 0..N : n = 0 \/ n \in 1..N
  <2> HIDE DEF N
  <2> QED
    BY <1>1
<1>9. Eq(F)
  <2> HIDE DEF b, Body, L, N, base, Form
  <2>1. \A n \in 0..N : F[n] = Form(n, F)
    BY <1>5, <1>6, <1>7, <1>8
  <2> QED
    BY <1>5, <2>1
<1>10. Eq(CHOOSE h : Eq(h))
  <2> HIDE DEF Eq
  <2> QED
    BY <1>9
<1>11. Eq(visit)
  BY <1>10 DEF Seens
<1>12. \A f, c : Visit(p, f, c) = visit[N][f][c]
  BY DEF Visit
<1> DEFINE e == visit
<1>13. Eq(e) /\ \A f, c : Visit(p, f, c) = e[N][f][c]
  BY <1>11, <1>12
<1> HIDE DEF e
<1>14. /\ e[0] = base
       /\ \A n \in 1..N : e[n] = Body(n, e[n - 1])
  <2> HIDE DEF Body, N, Form, base
  <2>1. \A n \in 1..N : n \in 0..N
    OBVIOUS
  <2>2. 0 \in 0..N
    BY <1>1
  <2>3. \A n \in 0..N : e[n] = Form(n, e)
    BY <1>13
  <2> QED
    BY <1>6, <1>7, <2>1, <2>2, <2>3
<1> HIDE DEF Form, base
<1>15. e \in [0..N -> L]
  <2> DEFINE T == {n \in 0..N : e[n] \in L}
  <2>1. 0 \in T
    BY <1>1, <1>14
  <2>2. ASSUME NEW n \in 1..N, n - 1 \in T PROVE n \in T
    <3>1. e[n] = Body(n, e[n - 1]) /\ e[n - 1] \in L
      BY <1>14, <2>2
    <3> HIDE DEF Body, L
    <3> QED
      BY <1>2, <3>1
  <2>3. 0..N \subseteq T
    <3> HIDE DEF T, N
    <3> QED
      BY <1>1, <2>1, <2>2, BoundedInduction
  <2>4. e = [n \in 0..N |-> e[n]]
    BY <1>13
  <2> HIDE DEF L, N
  <2> QED
    BY <2>3, <2>4
<1>16. IsVisits(e, p, N)
  <2> HIDE DEF N
  <2> QED
    BY <1>14, <1>15 DEF IsVisits, base
<1> QED
  BY <1>13, <1>16

\* What a call of visit makes of the files seen before it: it goes on with
\* files that the visited one leads to.
GoesOn(p, g, a, b) ==
  /\ b \in Seens
  /\ Len(a) <= Len(b)
  /\ \A i \in 1..Len(a) : b[i] = a[i]
  /\ \A i \in 1..Len(b) : i <= Len(a) \/ b[i] \in Reach(p, g)

\* To go on twice is to go on.
LEMMA GoesOnTwice ==
  ASSUME NEW p, NEW g, NEW h, Reach(p, h) \subseteq Reach(p, g),
         NEW a \in Seens, NEW b, NEW c, GoesOn(p, g, a, b), GoesOn(p, h, b, c)
  PROVE  GoesOn(p, g, a, c)
<1>1. /\ b \in Seens /\ c \in Seens
      /\ Len(a) \in Nat /\ Len(b) \in Nat /\ Len(c) \in Nat
  BY DEF GoesOn, Seens
<1>2. Len(a) <= Len(b) /\ Len(b) <= Len(c)
  BY DEF GoesOn
<1>3. ASSUME NEW i \in 1..Len(a) PROVE c[i] = a[i]
  <2>1. i \in 1..Len(b)
    BY <1>1, <1>2
  <2> QED
    BY <2>1 DEF GoesOn
<1>4. ASSUME NEW i \in 1..Len(c) PROVE i <= Len(a) \/ c[i] \in Reach(p, g)
  <2>1. CASE i \in 1..Len(b)
    BY <2>1 DEF GoesOn
  <2>2. CASE ~(i <= Len(b))
    BY <2>2 DEF GoesOn
  <2> QED
    BY <1>1, <2>1, <2>2
<1>5. Len(a) <= Len(c)
  BY <1>1, <1>2
<1> QED
  BY <1>1, <1>3, <1>4, <1>5 DEF GoesOn

\* To stay, or to add a file that is led to, is to go on.
LEMMA GoesOnWith ==
  ASSUME NEW p, NEW g, NEW a \in Seens
  PROVE  /\ GoesOn(p, g, a, a)
         /\ \A h \in Files \cap Reach(p, g) : GoesOn(p, g, a, Append(a, h))
<1>1. GoesOn(p, g, a, a)
  BY DEF GoesOn, Seens
<1>2. ASSUME NEW h \in Files \cap Reach(p, g) PROVE GoesOn(p, g, a, Append(a, h))
  <2> DEFINE b == Append(a, h)
  <2>1. /\ b \in Seq(Files) /\ Len(a) \in Nat /\ Len(b) = Len(a) + 1
        /\ \A i \in 1..Len(a) : b[i] = a[i]
        /\ b[Len(a) + 1] = h
    BY DEF Seens
  <2> HIDE DEF b
  <2>2. \A i \in 1..Len(b) : i <= Len(a) \/ i = Len(a) + 1
    BY <2>1
  <2>3. GoesOn(p, g, a, b)
    BY <2>1, <2>2 DEF GoesOn, Seens
  <2> QED
    BY <2>3 DEF b
<1> QED
  BY <1>1, <1>2

\* The loop of visit goes on if the calls of visit in it do.
LEMMA VisitedGoesOn ==
  ASSUME NEW p, IsGraph(p), IsFiniteSet(Files), NEW g \in DOMAIN p, NEW call \in Visitors,
         \A h \in Files : \A c \in Seens : GoesOn(p, h, c, call[h][c]), NEW seen \in Seens
  PROVE  GoesOn(p, g, seen, Visited(p, call, g, seen))
<1> DEFINE s == p[g].includes
           N == Len(s)
<1>1. g \in Files /\ s \in Seq(Files) /\ N \in Nat
  BY DEF IsGraph
<1>2. PICK e : IsVisiting(e, call, s, seen) /\ Visited(p, call, g, seen) = e[N]
  BY <1>1, VisitedRecursion
<1>3. \A k \in 1..N : s[k] \in Files \cap Reach(p, g)
  <2>1. Listed(p, g) = s /\ DOMAIN s = 1..N
    BY <1>1 DEF Listed
  <2>2. \A k \in DOMAIN s : s[k] \in Reach(p, g)
    BY <1>1, <2>1, ReachProperties
  <2> QED
    BY <1>1, <2>1, <2>2
<1>4. \A h \in Reach(p, g) : Reach(p, h) \subseteq Reach(p, g)
  BY <1>1, ReachProperties
<1>5. /\ e \in [0..N -> Seens] /\ e[0] = seen
      /\ \A i \in 1..N : e[i] = OneVisited(call, s[i], e[i - 1])
  BY <1>2 DEF IsVisiting
<1> HIDE DEF s, N
<1> DEFINE T == {i \in 0..N : GoesOn(p, g, seen, e[i])}
<1>6. 0 \in T
  BY <1>1, <1>5, GoesOnWith
<1>7. ASSUME NEW i \in 1..N, i - 1 \in T PROVE i \in T
  <2> DEFINE a == e[i - 1]
             h == s[i]
             b == Append(a, h)
  <2>1. a \in Seens /\ GoesOn(p, g, seen, a) /\ h \in Files \cap Reach(p, g)
    BY <1>3, <1>5, <1>7 DEF GoesOn
  <2>2. e[i] = OneVisited(call, h, a)
    BY <1>5
  <2> HIDE DEF a, h
  <2>3. GoesOn(p, g, a, b)
    BY <2>1, GoesOnWith
  <2>4. b \in Seens
    BY <2>3 DEF GoesOn
  <2>5. GoesOn(p, h, b, call[h][b])
    BY <2>1, <2>4
  <2> HIDE DEF b
  <2>6. GoesOn(p, g, seen, b)
    BY <2>1, <2>3, GoesOnTwice
  <2>7. GoesOn(p, g, seen, call[h][b])
    BY <1>4, <2>1, <2>5, <2>6, GoesOnTwice
  <2>8. GoesOn(p, g, seen, e[i])
    BY <2>1, <2>2, <2>7 DEF OneVisited, b
  <2> QED
    BY <2>8
<1>8. 0..N \subseteq T
  <2> HIDE DEF T
  <2> QED
    BY <1>1, <1>6, <1>7, BoundedInduction
<1> QED
  BY <1>1, <1>2, <1>8

\* A visit finds files that the one it starts from leads to.
LEMMA VisitGoesOn ==
  ASSUME NEW p, IsGraph(p), IsFiniteSet(Files), NEW f \in Files, NEW seen \in Seens
  PROVE  GoesOn(p, f, seen, Visit(p, f, seen))
<1> DEFINE N == Cardinality(Files)
<1>1. N \in Nat
  BY FS_CardinalityType
<1>2. PICK e : IsVisits(e, p, N) /\ Visit(p, f, seen) = e[N][f][seen]
  BY VisitRecursion
<1>3. /\ e \in [0..N -> Visitors]
      /\ e[0] = [g \in Files |-> [s \in Seens |-> s]]
      /\ \A n \in 1..N : e[n] = Revisited(p, e[n - 1])
  BY <1>2 DEF IsVisits
<1> HIDE DEF N
<1> DEFINE T == {n \in 0..N : \A h \in Files : \A c \in Seens : GoesOn(p, h, c, e[n][h][c])}
<1>4. 0 \in T
  <2>1. ASSUME NEW h \in Files, NEW c \in Seens PROVE GoesOn(p, h, c, e[0][h][c])
    BY <1>3, GoesOnWith
  <2> QED
    BY <1>1, <2>1
<1>5. ASSUME NEW n \in 1..N, n - 1 \in T PROVE n \in T
  <2> DEFINE call == e[n - 1]
  <2>1. /\ call \in Visitors /\ e[n] = Revisited(p, call)
        /\ \A h \in Files : \A c \in Seens : GoesOn(p, h, c, call[h][c])
    BY <1>3, <1>5
  <2> HIDE DEF call
  <2>2. ASSUME NEW h \in Files, NEW c \in Seens PROVE GoesOn(p, h, c, e[n][h][c])
    <3>1. e[n][h][c] = IF h \notin DOMAIN p THEN c ELSE Visited(p, call, h, c)
      BY <2>1 DEF Revisited
    <3>2. CASE h \in DOMAIN p
      BY <2>1, <3>1, <3>2, VisitedGoesOn
    <3>3. CASE h \notin DOMAIN p
      BY <3>1, <3>3, GoesOnWith
    <3> QED
      BY <3>2, <3>3
  <2> QED
    BY <2>2
<1>6. 0..N \subseteq T
  <2> HIDE DEF T
  <2> QED
    BY <1>1, <1>4, <1>5, BoundedInduction
<1> QED
  BY <1>1, <1>2, <1>6

-----------------------------------------------------------------------------
(***************************************************************************)
(* What a name means: a definition of that name, in a file that the one    *)
(* with the name leads to.                                                 *)
(***************************************************************************)
IsName(name) == name # <<>> /\ \E S : name \in Seq(S)
IsNamed(p) ==
  \A f \in DOMAIN p : \A n \in DOMAIN p[f].nodes :
    /\ \E m \in Nat : DOMAIN p[f].nodes[n].members = 1..m
    /\ \A i \in DOMAIN p[f].nodes[n].refs : IsName(p[f].nodes[n].refs[i].name)

\* A qualifier is a name of an include, and leaves something of the name.
LEMMA QualifierIsIncluded ==
  ASSUME NEW p, IsGraph(p), NEW f \in DOMAIN p, NEW name, IsName(name)
  PROVE  /\ Len(ParseIdent(p, f, name)) \in Nat
         /\ Len(ParseIdent(p, f, name)) < Len(name)
         /\ ParseIdent(p, f, name) # <<>> => ParseIdent(p, f, name) \in Qualifiers(p, f, name)
<1> DEFINE Q == Qualifiers(p, f, name)
           q == ParseIdent(p, f, name)
<1>1. PICK S : name \in Seq(S)
  BY DEF IsName
<1>2. Len(name) \in Nat /\ Len(name) > 0
  BY <1>1 DEF IsName
<1>3. ASSUME NEW r \in Q PROVE Len(r) \in 0..Len(name) /\ Len(r) < Len(name)
  <2>1. PICK g \in ToSet(p[f].includes) : HasPrefix(name, IncludeName[g]) /\ r = IncludeName[g]
    BY DEF Qualifiers
  <2>2. g \in Files
    BY DEF IsGraph, ToSet
  <2>3. r \in Seq(STRING) /\ Len(r) < Len(name)
    BY <2>1, <2>2, NamesAssumption DEF HasPrefix, Files
  <2> QED
    BY <1>2, <2>3
<1>4. q = IF Q = {} THEN <<>> ELSE CHOOSE x \in Q : \A r \in Q : Len(r) <= Len(x)
  BY DEF ParseIdent
<1> HIDE DEF Q, q
<1>5. CASE Q = {}
  <2>1. q = <<>> /\ Len(q) = 0
    BY <1>4, <1>5
  <2> QED
    BY <1>2, <2>1 DEF Q, q
<1>6. CASE Q # {}
  <2> DEFINE L == {Len(r) : r \in Q}
  <2>1. L \in SUBSET (0..Len(name)) /\ L # {}
    BY <1>3, <1>6
  <2>2. Max(L) \in L /\ \A l \in L : l <= Max(L)
    <3> HIDE DEF L
    <3> QED
      BY <1>2, <2>1, LeastAndGreatest
  <2>3. \E x \in Q : \A r \in Q : Len(r) <= Len(x)
    BY <2>2
  <2>4. q \in Q
    BY <1>4, <1>6, <2>3
  <2> QED
    BY <1>3, <2>4 DEF Q, q
<1> QED
  BY <1>5, <1>6 DEF q, Q

\* What is left of a name ends as the name does.
LEMMA IdentifierEnds ==
  ASSUME NEW p, IsGraph(p), NEW f \in DOMAIN p, NEW name, IsName(name)
  PROVE  /\ BareName(Identifier(p, f, name)) = BareName(name)
         /\ \A x : Identifier(p, f, name) = <<x>> => x = BareName(name)
<1> DEFINE k == Len(ParseIdent(p, f, name))
           id == Identifier(p, f, name)
           m == Len(name)
<1>1. PICK S : name \in Seq(S)
  BY DEF IsName
<1>2. k \in Nat /\ m \in Nat /\ k < m
  BY <1>1, QualifierIsIncluded
<1>3. id = SubSeq(name, k + 1, m)
  BY DEF Identifier, After
<1> HIDE DEF k, id
<1>4. id \in Seq(S) /\ Len(id) = m - k /\ id[m - k] = name[m]
  <2>1. k + 1 \in 1..(m + 1) /\ m \in (k + 1 - 1)..m /\ m - k \in 1..(m - (k + 1) + 1)
    BY <1>2
  <2>2. /\ SubSeq(name, k + 1, m) \in Seq(S)
        /\ Len(SubSeq(name, k + 1, m)) = m - (k + 1) + 1
        /\ \A i \in 1..(m - (k + 1) + 1) : SubSeq(name, k + 1, m)[i] = name[k + 1 + i - 1]
    BY <1>1, <2>1, SubSeqProperties
  <2>3. m - (k + 1) + 1 = m - k /\ k + 1 + (m - k) - 1 = m
    BY <1>2
  <2> QED
    BY <1>3, <2>1, <2>2, <2>3
<1>5. BareName(id) = BareName(name)
  BY <1>4 DEF BareName
<1>6. ASSUME NEW x, id = <<x>> PROVE x = BareName(id)
  BY <1>6 DEF BareName
<1> QED
  BY <1>5, <1>6 DEF id

\* The files that are searched for a name are those that the one with the
\* name leads to, and that file comes first if there is no qualifier.
LEMMA DefinitionFilesLead ==
  ASSUME NEW p, IsGraph(p), IsFiniteSet(Files), NEW f \in DOMAIN p, NEW name, IsName(name)
  PROVE  LET files == DefinitionFiles(p, f, name)
         IN  /\ files \in Seq(Files)
             /\ \A k \in DOMAIN files : files[k] \in Reach(p, f)
             /\ ParseIdent(p, f, name) = <<>> => 1 \in DOMAIN files /\ files[1] = f
<1> DEFINE files == DefinitionFiles(p, f, name)
           q == ParseIdent(p, f, name)
<1>1. f \in Files /\ p[f].includes \in Seq(Files)
  BY DEF IsGraph
<1>2. f \in Reach(p, f) /\ \A k \in DOMAIN Listed(p, f) : Listed(p, f)[k] \in Reach(p, f)
  BY <1>1, ReachProperties
<1>3. CASE q # <<>>
  <2> DEFINE K == {k \in DOMAIN p[f].includes : IncludeName[p[f].includes[k]] = q}
             N == Len(p[f].includes)
  <2>1. files = <<IncludedAs(p, f, q)>> /\ IncludedAs(p, f, q) = p[f].includes[Min(K)]
    BY <1>3 DEF DefinitionFiles, IncludedAs
  <2>2. K \in SUBSET (0..N) /\ N \in Nat
    BY <1>1
  <2>3. K # {}
    <3>1. q \in Qualifiers(p, f, name)
      BY <1>3, QualifierIsIncluded
    <3>2. PICK g \in ToSet(p[f].includes) : q = IncludeName[g]
      BY <3>1 DEF Qualifiers
    <3> QED
      BY <3>2 DEF ToSet
  <2>4. Min(K) \in K
    <3> HIDE DEF K, N
    <3> QED
      BY <2>2, <2>3, LeastAndGreatest
  <2>5. p[f].includes[Min(K)] \in Files /\ p[f].includes[Min(K)] \in Reach(p, f)
    <3> DEFINE k == Min(K)
    <3>1. k \in DOMAIN p[f].includes
      BY <2>4
    <3> HIDE DEF k
    <3>2. p[f].includes[k] \in Files
      BY <1>1, <3>1
    <3>3. p[f].includes[k] \in Reach(p, f)
      BY <1>2, <3>1 DEF Listed
    <3> QED
      BY <3>2, <3>3 DEF k
  <2> HIDE DEF K, files, q
  <2>6. /\ files \in Seq(Files)
        /\ \A k \in DOMAIN files : files[k] \in Reach(p, f)
    BY <2>1, <2>5
  <2> QED
    BY <1>3, <2>6 DEF files, q
<1>4. CASE q = <<>>
  <2> DEFINE s == <<f>>
  <2>1. s \in Seens /\ Len(s) = 1 /\ s[1] = f
    BY <1>1 DEF Seens
  <2>2. files = Visit(p, f, s)
    BY <1>4 DEF DefinitionFiles
  <2> HIDE DEF files, s
  <2>3. GoesOn(p, f, s, files)
    BY <1>1, <2>1, <2>2, VisitGoesOn
  <2>4. files \in Seq(Files) /\ 1 <= Len(files) /\ files[1] = f
    BY <2>1, <2>3 DEF GoesOn, Seens
  <2>5. ASSUME NEW k \in 1..Len(files) PROVE files[k] \in Reach(p, f)
    <3>1. k = 1 \/ ~(k <= 1)
      BY <2>4
    <3> QED
      BY <1>2, <2>1, <2>3, <2>4, <3>1 DEF GoesOn
  <2> QED
    BY <2>4, <2>5 DEF files
<1> QED
  BY <1>3, <1>4

\* The first that is found is found in one of the files.
LEMMA FirstIsFound ==
  ASSUME NEW S, NEW files \in Seq(S), NEW find
  PROVE  LET d == FirstFound(files, find)
         IN  /\ d = Nothing \/ \E k \in DOMAIN files : files[k] \in DOMAIN find /\ d = find[files[k]]
             /\ (/\ 1 \in DOMAIN files /\ files[1] \in DOMAIN find
                 /\ find[files[1]] # Nothing) => d = find[files[1]]
<1> DEFINE K == {k \in DOMAIN files : files[k] \in DOMAIN find /\ find[files[k]] # Nothing}
           N == Len(files)
<1>1. FirstFound(files, find) = IF K = {} THEN Nothing ELSE find[files[Min(K)]]
  BY DEF FirstFound
<1>2. K \in SUBSET (0..N) /\ N \in Nat /\ DOMAIN files = 1..N
  OBVIOUS
<1>3. K # {} => Min(K) \in K /\ \A k \in K : Min(K) <= k
  <2> HIDE DEF K, N
  <2> QED
    BY <1>2, LeastAndGreatest
<1>4. ASSUME 1 \in K PROVE Min(K) = 1
  <2>1. Min(K) \in 1..N /\ Min(K) <= 1
    BY <1>2, <1>3, <1>4
  <2> QED
    BY <1>2, <2>1
<1> QED
  BY <1>1, <1>3, <1>4

\* A definition, or a member of one, that stands in a file.
StandsIn(p, g, d) ==
  \E n \in DOMAIN p[g].nodes :
    \/ d = Definition(p, g, n)
    \/ \E i \in DOMAIN p[g].nodes[n].members : d = Member(p, g, n, i)

\* Definitions returns one of that name in the file.
LEMMA DefinitionsStand ==
  ASSUME NEW p, IsProject(p), NEW g \in DOMAIN p, NEW id
  PROVE  LET d == Definitions(p, g, id)
         IN  d = Nothing \/ (StandsIn(p, g, d) /\ <<d.name>> = id)
<1> DEFINE named == {n \in DOMAIN p[g].nodes : <<p[g].nodes[n].name>> = id}
<1>1. PICK m \in Nat : DOMAIN p[g].nodes = 1..m
  BY DEF IsProject, HoldsNodes
<1>2. Definitions(p, g, id) = IF named = {} THEN Nothing ELSE Definition(p, g, Max(named))
  BY DEF Definitions
<1>3. named # {} => Max(named) \in named
  <2>1. named \in SUBSET (0..m)
    BY <1>1
  <2> HIDE DEF named
  <2> QED
    BY <2>1, LeastAndGreatest
<1>4. \A n : Definition(p, g, n).name = p[g].nodes[n].name
  BY DEF Definition
<1> QED
  BY <1>2, <1>3, <1>4 DEF StandsIn

\* EnumValues returns a member of that name in the file.
LEMMA EnumValuesStand ==
  ASSUME NEW p, IsProject(p), IsNamed(p), NEW g \in DOMAIN p, NEW id
  PROVE  LET d == EnumValues(p, g, id)
         IN  d = Nothing \/ (StandsIn(p, g, d) /\ <<d.name>> = id)
<1> DEFINE within(n) == {i \in DOMAIN p[g].nodes[n].members : <<p[g].nodes[n].members[i]>> = id}
           enums == {n \in DOMAIN p[g].nodes : within(n) # {}}
           e == Max(enums)
<1>1. PICK m \in Nat : DOMAIN p[g].nodes = 1..m
  BY DEF IsProject, HoldsNodes
<1>2. EnumValues(p, g, id) = IF enums = {} THEN Nothing ELSE Member(p, g, e, Max(within(e)))
  BY DEF EnumValues
<1>3. ASSUME enums # {} PROVE e \in DOMAIN p[g].nodes /\ within(e) # {}
  <2>1. enums \in SUBSET (0..m)
    BY <1>1
  <2>2. e \in enums
    <3> HIDE DEF enums
    <3> QED
      BY <1>3, <2>1, LeastAndGreatest
  <2> QED
    BY <2>2
<1> HIDE DEF enums, e
<1>4. ASSUME e \in DOMAIN p[g].nodes, within(e) # {} PROVE Max(within(e)) \in within(e)
  <2>1. PICK k \in Nat : DOMAIN p[g].nodes[e].members = 1..k
    BY <1>4 DEF IsNamed
  <2>2. within(e) \in SUBSET (0..k)
    BY <2>1
  <2> HIDE DEF within
  <2> QED
    BY <1>4, <2>2, LeastAndGreatest
<1>5. \A n, i : Member(p, g, n, i).name = p[g].nodes[n].members[i]
  BY DEF Member
<1>6. ASSUME enums # {}
      PROVE  \E i \in DOMAIN p[g].nodes[e].members :
               EnumValues(p, g, id) = Member(p, g, e, i) /\ <<p[g].nodes[e].members[i]>> = id
  <2> DEFINE i == Max(within(e))
  <2>1. i \in within(e) /\ EnumValues(p, g, id) = Member(p, g, e, i)
    BY <1>2, <1>3, <1>4, <1>6
  <2> HIDE DEF i
  <2> QED
    BY <2>1
<1> HIDE DEF within
<1> QED
  BY <1>2, <1>3, <1>5, <1>6 DEF StandsIn

\* What a name in a file may mean: nothing, or something of that bare name
\* that stands in a file that the file leads to.
Means(p, f, name, d) ==
  d = Nothing \/ \E g \in DOMAIN p : g \in Reach(p, f) /\ StandsIn(p, g, d) /\ d.name = BareName(name)

\* Whatever a name is resolved as, it means one of these.
LEMMA ResolveMeans ==
  ASSUME NEW p, IsProject(p), IsNamed(p), IsFiniteSet(Files), NEW f \in DOMAIN p,
         NEW name, IsName(name)
  PROVE  /\ Means(p, f, name, ResolveType(p, f, name))
         /\ Means(p, f, name, ResolveValue(p, f, name))
         /\ Means(p, f, name, ResolveService(p, f, name))
         /\ ResolveService(p, f, name) = Nothing \/ ResolveService(p, f, name).kind = "service"
<1> DEFINE id == Identifier(p, f, name)
           files == DefinitionFiles(p, f, name)
           Finds(find) == \A g \in DOMAIN p :
                            find[g] = Nothing \/ (StandsIn(p, g, find[g]) /\ find[g].name = BareName(name))
<1>1. /\ files \in Seq(Files)
      /\ \A k \in DOMAIN files : files[k] \in Reach(p, f)
  BY DefinitionFilesLead DEF IsProject
<1>2. /\ BareName(id) = BareName(name)
      /\ \A x : id = <<x>> => x = BareName(name)
  BY IdentifierEnds DEF IsProject
<1> HIDE DEF id, files
<1>3. ASSUME NEW find, DOMAIN find = DOMAIN p, Finds(find)
      PROVE  Means(p, f, name, FirstFound(files, find))
  <2> DEFINE d == FirstFound(files, find)
  <2>1. d = Nothing \/ \E k \in DOMAIN files : files[k] \in DOMAIN find /\ d = find[files[k]]
    BY <1>1, FirstIsFound
  <2> HIDE DEF d
  <2>2. ASSUME NEW k \in DOMAIN files, files[k] \in DOMAIN find, d = find[files[k]]
        PROVE  Means(p, f, name, d)
    BY <1>1, <1>3, <2>2 DEF Means
  <2>3. Means(p, f, name, d)
    BY <2>1, <2>2 DEF Means
  <2> QED
    BY <2>3 DEF d
<1>4. ASSUME NEW kinds, NEW g \in DOMAIN p
      PROVE  LET d == OfKind(Definitions(p, g, id), kinds)
             IN  d = Nothing \/ (StandsIn(p, g, d) /\ d.name = BareName(name))
  <2> DEFINE c == Definitions(p, g, id)
  <2>1. c = Nothing \/ (StandsIn(p, g, c) /\ <<c.name>> = id)
    BY DefinitionsStand
  <2> HIDE DEF c
  <2> QED
    BY <1>2, <2>1 DEF OfKind, c
<1>5. Means(p, f, name, ResolveType(p, f, name))
  <2> DEFINE find == [g \in DOMAIN p |-> OfKind(Definitions(p, g, id), TypeKinds)]
  <2>1. Finds(find) /\ DOMAIN find = DOMAIN p
    BY <1>4
  <2>2. ResolveType(p, f, name) =
          IF name = <<>> \/ name \in BasicType THEN Nothing ELSE FirstFound(files, find)
    BY DEF ResolveType, id, files
  <2> HIDE DEF find, Finds
  <2>3. Means(p, f, name, FirstFound(files, find))
    BY <1>3, <2>1
  <2>4. Means(p, f, name, Nothing)
    BY DEF Means
  <2> QED
    BY <2>2, <2>3, <2>4
<1>6. Means(p, f, name, ResolveService(p, f, name))
  <2> DEFINE find == [g \in DOMAIN p |-> OfKind(Definitions(p, g, id), {"service"})]
  <2>1. Finds(find) /\ DOMAIN find = DOMAIN p
    BY <1>4
  <2>2. ResolveService(p, f, name) = FirstFound(files, find)
    BY DEF ResolveService, id, files
  <2> HIDE DEF find, Finds
  <2> QED
    BY <1>3, <2>1, <2>2
<1>7. ResolveService(p, f, name) = Nothing \/ ResolveService(p, f, name).kind = "service"
  <2> DEFINE find == [g \in DOMAIN p |-> OfKind(Definitions(p, g, id), {"service"})]
             d == FirstFound(files, find)
  <2>1. \A g \in DOMAIN p : find[g] = Nothing \/ find[g].kind = "service"
    BY DEF OfKind
  <2>2. ResolveService(p, f, name) = d /\ DOMAIN find = DOMAIN p
    BY DEF ResolveService, id, files
  <2> HIDE DEF find
  <2>3. d = Nothing \/ \E k \in DOMAIN files : files[k] \in DOMAIN find /\ d = find[files[k]]
    BY <1>1, FirstIsFound
  <2> HIDE DEF d
  <2> QED
    BY <2>1, <2>2, <2>3
<1>8. Means(p, f, name, ResolveValue(p, f, name))
  <2> DEFINE v == <<BareName(id)>>
             find == [g \in DOMAIN p |->
                        OrElse(EnumValues(p, g, v), OfKind(Definitions(p, g, v), {"const"}))]
  <2>1. DOMAIN find = DOMAIN p
    OBVIOUS
  <2>2. ASSUME NEW g \in DOMAIN p
        PROVE  find[g] = Nothing \/ (StandsIn(p, g, find[g]) /\ find[g].name = BareName(name))
    <3> DEFINE a == EnumValues(p, g, v)
               b == Definitions(p, g, v)
    <3>1. find[g] = OrElse(a, OfKind(b, {"const"}))
      OBVIOUS
    <3>2. a = Nothing \/ (StandsIn(p, g, a) /\ <<a.name>> = v)
      BY EnumValuesStand
    <3>3. b = Nothing \/ (StandsIn(p, g, b) /\ <<b.name>> = v)
      BY DefinitionsStand
    <3>4. \A x : <<x>> = v => x = BareName(name)
      BY <1>2
    <3> HIDE DEF a, b, find, v
    <3> QED
      BY <3>1, <3>2, <3>3, <3>4 DEF OrElse, OfKind
  <2>3. ResolveValue(p, f, name) = FirstFound(files, find)
    BY DEF ResolveValue, id, files
  <2> HIDE DEF find
  <2> QED
    BY <1>3, <2>1, <2>2, <2>3
<1> QED
  BY <1>5, <1>6, <1>7, <1>8

\* So does every reference, whatever its kind.
LEMMA ReferenceMeans ==
  ASSUME NEW p, IsProject(p), IsNamed(p), IsFiniteSet(Files), NEW f \in DOMAIN p,
         NEW ref, ref.kind \in SlotKinds, IsName(ref.name)
  PROVE  Means(p, f, ref.name, ResolveReference(p, f, ref))
<1>1. CASE ref.kind \in TypeSlots
  BY <1>1, ResolveMeans DEF ResolveReference, TypeSlots
<1>2. CASE ref.kind = "value"
  BY <1>2, ResolveMeans DEF ResolveReference, TypeSlots
<1>3. CASE ref.kind = "extends"
  BY <1>3, ResolveMeans DEF ResolveReference, TypeSlots
<1> QED
  BY <1>1, <1>2, <1>3 DEF SlotKinds

-----------------------------------------------------------------------------
(***************************************************************************)
(* The references to a definition, in a project whose names are apart.     *)
(***************************************************************************)
IsPlace(p, place) ==
  \E f \in DOMAIN p : \E n \in DOMAIN p[f].nodes :
    \/ place = Place(f, n, "name", 0)
    \/ \E i \in DOMAIN p[f].nodes[n].members : place = Place(f, n, "member", i)
    \/ \E i \in DOMAIN p[f].nodes[n].refs : place = Place(f, n, "ref", i)

\* The places of a project, one by one.
LEMMA PlacesAre == ASSUME NEW p, NEW place PROVE place \in Places(p) <=> IsPlace(p, place)
<1>1. ASSUME place \in Places(p) PROVE IsPlace(p, place)
  <2>1. PICK f \in DOMAIN p : \E n \in DOMAIN p[f].nodes :
          place \in {Place(f, n, "name", 0)}
                    \cup {Place(f, n, "member", i) : i \in DOMAIN p[f].nodes[n].members}
                    \cup {Place(f, n, "ref", i) : i \in DOMAIN p[f].nodes[n].refs}
    BY <1>1 DEF Places
  <2>2. PICK n \in DOMAIN p[f].nodes :
          place \in {Place(f, n, "name", 0)}
                    \cup {Place(f, n, "member", i) : i \in DOMAIN p[f].nodes[n].members}
                    \cup {Place(f, n, "ref", i) : i \in DOMAIN p[f].nodes[n].refs}
    BY <2>1
  <2> QED
    BY <2>2 DEF IsPlace
<1>2. ASSUME IsPlace(p, place) PROVE place \in Places(p)
  BY <1>2 DEF IsPlace, Places
<1> QED
  BY <1>1, <1>2

\* A reference stands at a place of its own.
LEMMA ReferencePlaces ==
  ASSUME NEW p, IsProject(p), IsNamed(p)
  PROVE  /\ \A q \in RefPlaces(p) :
              /\ q.file \in DOMAIN p /\ q.node \in DOMAIN p[q.file].nodes
              /\ q.at \in DOMAIN p[q.file].nodes[q.node].refs
              /\ q = Place(q.file, q.node, "ref", q.at)
              /\ RefAt(p, q) = p[q.file].nodes[q.node].refs[q.at]
              /\ RefAt(p, q).kind \in SlotKinds /\ IsName(RefAt(p, q).name)
              /\ TextAt(p, q) = RefAt(p, q).name
         /\ \A f \in DOMAIN p : \A n \in DOMAIN p[f].nodes : \A i \in DOMAIN p[f].nodes[n].refs :
              /\ Place(f, n, "ref", i) \in RefPlaces(p)
              /\ RefAt(p, Place(f, n, "ref", i)) = p[f].nodes[n].refs[i]
<1>1. ASSUME NEW q \in RefPlaces(p)
      PROVE  /\ q.file \in DOMAIN p /\ q.node \in DOMAIN p[q.file].nodes
             /\ q.at \in DOMAIN p[q.file].nodes[q.node].refs
             /\ q = Place(q.file, q.node, "ref", q.at)
  <2>1. IsPlace(p, q) /\ q.slot = "ref"
    BY PlacesAre DEF RefPlaces
  <2>2. PICK f \in DOMAIN p : \E n \in DOMAIN p[f].nodes :
          \/ q = Place(f, n, "name", 0)
          \/ \E i \in DOMAIN p[f].nodes[n].members : q = Place(f, n, "member", i)
          \/ \E i \in DOMAIN p[f].nodes[n].refs : q = Place(f, n, "ref", i)
    BY <2>1 DEF IsPlace
  <2>3. PICK n \in DOMAIN p[f].nodes : \E i \in DOMAIN p[f].nodes[n].refs : q = Place(f, n, "ref", i)
    BY <2>1, <2>2 DEF Place
  <2>4. PICK i \in DOMAIN p[f].nodes[n].refs : q = Place(f, n, "ref", i)
    BY <2>3
  <2>5. q.file = f /\ q.node = n /\ q.at = i
    BY <2>4 DEF Place
  <2> QED
    BY <2>4, <2>5
<1>2. ASSUME NEW q \in RefPlaces(p)
      PROVE  /\ RefAt(p, q) = p[q.file].nodes[q.node].refs[q.at]
             /\ RefAt(p, q).kind \in SlotKinds /\ IsName(RefAt(p, q).name)
             /\ TextAt(p, q) = RefAt(p, q).name
  <2>1. RefAt(p, q) = p[q.file].nodes[q.node].refs[q.at]
    BY DEF RefAt, NodeAt
  <2>2. IsName(RefAt(p, q).name)
    BY <1>1, <2>1 DEF IsNamed
  <2>3. HasReferences(p[q.file].nodes[q.node].refs)
    BY <1>1 DEF IsProject, HoldsNodes
  <2>4. RefAt(p, q).kind \in SlotKinds
    BY <1>1, <2>1, <2>3 DEF HasReferences
  <2>5. TextAt(p, q) = RefAt(p, q).name
    BY DEF TextAt, RefPlaces
  <2> QED
    BY <2>1, <2>2, <2>4, <2>5
<1>3. ASSUME NEW f \in DOMAIN p, NEW n \in DOMAIN p[f].nodes, NEW i \in DOMAIN p[f].nodes[n].refs
      PROVE  /\ Place(f, n, "ref", i) \in RefPlaces(p)
             /\ RefAt(p, Place(f, n, "ref", i)) = p[f].nodes[n].refs[i]
  <2>1. IsPlace(p, Place(f, n, "ref", i))
    BY DEF IsPlace
  <2>2. Place(f, n, "ref", i) \in Places(p)
    BY <2>1, PlacesAre
  <2>3. /\ Place(f, n, "ref", i).slot = "ref" /\ Place(f, n, "ref", i).file = f
        /\ Place(f, n, "ref", i).node = n /\ Place(f, n, "ref", i).at = i
    BY DEF Place
  <2> QED
    BY <2>2, <2>3 DEF RefPlaces, RefAt, NodeAt
<1> QED
  BY <1>1, <1>2, <1>3

\* A definition stands at a place of its own, too.
LEMMA DefinitionPlaces ==
  ASSUME NEW p, NEW g \in DOMAIN p, NEW d, StandsIn(p, g, d)
  PROVE  /\ d.place \in Places(p) /\ d.place.file = g /\ d.place.slot \in {"name", "member"}
         /\ TextAt(p, d.place) = <<d.name>>
         /\ d.place # Silent
         /\ d.kind = IF d.place.slot = "member" THEN "member" ELSE NodeAt(p, d.place).kind
<1>1. PICK n \in DOMAIN p[g].nodes :
        \/ d = Definition(p, g, n)
        \/ \E i \in DOMAIN p[g].nodes[n].members : d = Member(p, g, n, i)
  BY DEF StandsIn
<1>2. \A slot, i : /\ Place(g, n, slot, i).file = g /\ Place(g, n, slot, i).node = n
                   /\ Place(g, n, slot, i).slot = slot /\ Place(g, n, slot, i).at = i
                   /\ Place(g, n, slot, i) # Silent
  BY DEF Place, Silent
<1>3. CASE d = Definition(p, g, n)
  <2>1. /\ d.place = Place(g, n, "name", 0) /\ d.name = p[g].nodes[n].name
        /\ d.kind = p[g].nodes[n].kind
    BY <1>3 DEF Definition
  <2>2. IsPlace(p, d.place)
    BY <2>1 DEF IsPlace
  <2>3. TextAt(p, d.place) = <<d.name>> /\ NodeAt(p, d.place).kind = d.kind
    BY <1>2, <2>1 DEF TextAt, NodeAt
  <2> QED
    BY <1>2, <2>1, <2>2, <2>3, PlacesAre
<1>4. ASSUME NEW i \in DOMAIN p[g].nodes[n].members, d = Member(p, g, n, i)
      PROVE  /\ d.place \in Places(p) /\ d.place.file = g /\ d.place.slot \in {"name", "member"}
             /\ TextAt(p, d.place) = <<d.name>>
             /\ d.place # Silent
             /\ d.kind = IF d.place.slot = "member" THEN "member" ELSE NodeAt(p, d.place).kind
  <2>1. /\ d.place = Place(g, n, "member", i) /\ d.name = p[g].nodes[n].members[i]
        /\ d.kind = "member"
    BY <1>4 DEF Member
  <2>2. IsPlace(p, d.place)
    BY <2>1 DEF IsPlace
  <2>3. TextAt(p, d.place) = <<d.name>>
    BY <1>2, <2>1 DEF TextAt, NodeAt
  <2> QED
    BY <1>2, <2>1, <2>2, <2>3, PlacesAre
<1> QED
  BY <1>1, <1>3, <1>4

\* Two of one name in one file are the same.
LEMMA SameName ==
  ASSUME NEW p, NamesApart(p), NEW g \in DOMAIN p, NEW d, NEW e, StandsIn(p, g, d), StandsIn(p, g, e),
         d.name = e.name
  PROVE  d.place = e.place
<1>1. /\ d.place \in Places(p) /\ e.place \in Places(p) /\ d.place.file = e.place.file
      /\ d.place.slot # "ref" /\ e.place.slot # "ref"
      /\ TextAt(p, d.place) = TextAt(p, e.place)
  BY DefinitionPlaces
<1> QED
  BY <1>1 DEF NamesApart

\* A reference resolves to a definition exactly if its last segment is the
\* name of the definition and it resolves to one of that name in that file,
\* and then it stands where the definition is searched for.
LEMMA ReferenceTo ==
  ASSUME NEW p, IsProject(p), IsNamed(p), NamesApart(p), IsFiniteSet(Files),
         NEW g \in DOMAIN p, NEW d, StandsIn(p, g, d), NEW q \in RefPlaces(p)
  PROVE  /\ MeantPlace(p, q) = d.place <=>
              /\ BareName(RefAt(p, q).name) = d.name
              /\ SameDefinition(ResolveReference(p, q.file, RefAt(p, q)), d)
         /\ MeantPlace(p, q) = d.place => q.file \in {g} \cup Dependents(p, g)
<1> DEFINE r == RefAt(p, q)
           f == q.file
           e == ResolveReference(p, f, r)
<1>1. f \in DOMAIN p /\ r.kind \in SlotKinds /\ IsName(r.name)
  BY ReferencePlaces
<1>2. MeantPlace(p, q) = IF e = Nothing THEN Silent ELSE e.place
  BY DEF MeantPlace, PlaceOf, MeantBy
<1> HIDE DEF r, f
<1>3. Means(p, f, r.name, e)
  BY <1>1, ReferenceMeans
<1> HIDE DEF e
<1>4. d.place.file = g /\ d.place \in Places(p) /\ d.place # Silent /\ TextAt(p, d.place) = <<d.name>>
  BY DefinitionPlaces
<1>5. ASSUME e # Nothing, e.place = d.place
      PROVE  /\ BareName(r.name) = d.name /\ SameDefinition(e, d)
             /\ f \in {g} \cup Dependents(p, g)
  <2>1. PICK h \in DOMAIN p : h \in Reach(p, f) /\ StandsIn(p, h, e) /\ e.name = BareName(r.name)
    BY <1>3, <1>5 DEF Means
  <2>2. e.place.file = h /\ TextAt(p, e.place) = <<e.name>>
    BY <2>1, DefinitionPlaces
  <2>3. h = g /\ e.name = d.name
    BY <1>4, <1>5, <2>2
  <2> QED
    BY <1>4, <1>5, <2>1, <2>3 DEF SameDefinition, Reach
<1>6. ASSUME BareName(r.name) = d.name, SameDefinition(e, d)
      PROVE  e # Nothing /\ e.place = d.place
  <2>1. e # Nothing /\ e.place.file = g /\ e.name = d.name
    BY <1>4, <1>6 DEF SameDefinition
  <2>2. PICK h \in DOMAIN p : StandsIn(p, h, e)
    BY <1>3, <2>1 DEF Means
  <2>3. e.place.file = h
    BY <2>2, DefinitionPlaces
  <2> QED
    BY <2>1, <2>2, <2>3, SameName
<1>7. MeantPlace(p, q) = d.place <=> (e # Nothing /\ e.place = d.place)
  BY <1>2, <1>4
<1> QED
  BY <1>5, <1>6, <1>7 DEF e, r, f

\* What ReferencesExact says of an answer to a request at a place.
Whole(p, kinds, h) ==
  /\ h.place.slot = "ref" /\ RefAt(p, h.place).kind \in kinds
  /\ h.to = Len(RefAt(p, h.place).name)
Excused(p, def, h) ==
  \/ h.place = def
  \/ /\ def.slot = "name" /\ NodeAt(p, def).kind = "enum"
     /\ RefAt(p, h.place).kind = "value"
KindsAt(p, def) == RefKindsFor(IF def.slot = "member" THEN "member" ELSE NodeAt(p, def).kind)
AskedFor(p, at) == IF at.slot = "ref" THEN MeantPlace(p, at) ELSE at
IsExact(p, def, s) ==
  LET kinds == KindsAt(p, def)
      hits == {s[k] : k \in DOMAIN s}
      whole == {h \in hits : Whole(p, kinds, h)}
  IN  /\ Cardinality(hits) = Len(s)
      /\ \A h \in hits \ whole : Excused(p, def, h)
      /\ def # Silent =>
           {h.place : h \in whole} =
             {q \in RefPlaces(p) : MeantPlace(p, q) = def /\ RefAt(p, q).kind \in kinds}

\* The property in terms of the answer.
LEMMA ExactMeans ==
  ReferencesExact <=>
    (answer.to = "references" => IsExact(project, AskedFor(project, answer.at), answer.hits))
BY DEF ReferencesExact, IsExact, AskedFor, Whole, Excused, KindsAt

\* The kinds of the references that a search asks for.
LEMMA KindsOfEnum == "value" \notin RefKindsFor("enum")
BY DEF RefKindsFor, TypeSlots, TypeKinds

\* The hits of a search for a definition are the references to it, and of
\* an enum the values that it qualifies besides.
Searches(p, d, kinds) ==
  /\ RefKindsFor(d.kind) \subseteq kinds
  /\ \A kind \in kinds : kind \in RefKindsFor(d.kind) \/ (d.kind = "enum" /\ kind = "value")

\* The hit in a reference is the name, or the enum in it.
LEMMA HitsMean ==
  ASSUME NEW p, NEW d, NEW kinds, Searches(p, d, kinds), NEW place, NEW ref
  PROVE  /\ \A h : HitsOf(p, place, ref, d, kinds) = <<h>> =>
              \/ d.kind = "enum" /\ ref.kind = "value"
              \/ /\ ref.kind \in RefKindsFor(d.kind) /\ h = Hit(place, 1, Len(ref.name), ref.name)
                 /\ BareName(ref.name) = d.name
                 /\ SameDefinition(ResolveReference(p, place.file, ref), d)
         /\ (/\ ref.kind \in RefKindsFor(d.kind) /\ BareName(ref.name) = d.name
             /\ SameDefinition(ResolveReference(p, place.file, ref), d))
            => HitsOf(p, place, ref, d, kinds) = <<Hit(place, 1, Len(ref.name), ref.name)>>
<1> DEFINE whole == Hit(place, 1, Len(ref.name), ref.name)
           i == EnumSegment(ref.name, d.name)
           part == Hit(place, i, i, <<d.name>>)
           Same == BareName(ref.name) = d.name /\ SameDefinition(ResolveReference(p, place.file, ref), d)
           H == HitsOf(p, place, ref, d, kinds)
<1>1. H = IF ref.kind \notin kinds THEN <<>>
          ELSE IF ref.kind = "value" /\ d.kind = "enum"
               THEN IF QualifiesBy(p, place.file, ref, d) THEN <<part>> ELSE <<>>
          ELSE IF Same THEN <<whole>> ELSE <<>>
  BY DEF HitsOf
<1>2. \A x, h : <<x>> = <<h>> => x = h
  OBVIOUS
<1>3. \A h : <<>> # <<h>>
  OBVIOUS
<1> HIDE DEF whole, i, part, Same, H
<1>4. ASSUME NEW h, H = <<h>>, ~(d.kind = "enum" /\ ref.kind = "value")
      PROVE  ref.kind \in RefKindsFor(d.kind) /\ h = whole /\ Same
  <2>1. ref.kind \in kinds
    BY <1>1, <1>3, <1>4
  <2>2. ref.kind \in RefKindsFor(d.kind)
    BY <1>4, <2>1 DEF Searches
  <2>3. H = IF Same THEN <<whole>> ELSE <<>>
    BY <1>1, <1>4, <2>1
  <2> QED
    BY <1>2, <1>3, <1>4, <2>2, <2>3
<1>5. ASSUME ref.kind \in RefKindsFor(d.kind), Same PROVE H = <<whole>>
  <2>1. ref.kind \in kinds
    BY <1>5 DEF Searches
  <2>2. ~(ref.kind = "value" /\ d.kind = "enum")
    BY <1>5, KindsOfEnum
  <2> QED
    BY <1>1, <1>5, <2>1, <2>2
<1> QED
  BY <1>4, <1>5 DEF H, Same, whole

\* ReferencesTo finds the references to a definition, once each, and nothing
\* else but the values that an enum qualifies.
LEMMA ReferencesToExact ==
  ASSUME NEW p, IsProject(p), IsNamed(p), NamesApart(p), IsFiniteSet(Files),
         NEW g \in DOMAIN p, NEW d, StandsIn(p, g, d), NEW kinds, Searches(p, d, kinds)
  PROVE  LET R == ReferencesTo(p, d, kinds)
             K == RefKindsFor(d.kind)
         IN  /\ \E V : R \in Seq(V)
             /\ Apart(R)
             /\ \A j \in DOMAIN R :
                  /\ R[j].place \in RefPlaces(p)
                  /\ \/ d.kind = "enum" /\ RefAt(p, R[j].place).kind = "value"
                     \/ /\ RefAt(p, R[j].place).kind \in K /\ MeantPlace(p, R[j].place) = d.place
                        /\ Whole(p, K, R[j])
             /\ \A q \in RefPlaces(p) : RefAt(p, q).kind \in K /\ MeantPlace(p, q) = d.place =>
                  \E j \in DOMAIN R : R[j].place = q /\ Whole(p, K, R[j])
<1> DEFINE R == ReferencesTo(p, d, kinds)
           K == RefKindsFor(d.kind)
<1>1. /\ \E V : R \in Seq(V)
      /\ Apart(R)
      /\ HitsAtReferences(p, d, kinds, R)
      /\ HitsOfReferences(p, d, kinds, R)
  BY ReferencesApart
<1>2. d.place.file = g
  BY DefinitionPlaces
<1> HIDE DEF R, K
<1>3. ASSUME NEW j \in DOMAIN R
      PROVE  /\ R[j].place \in RefPlaces(p)
             /\ \/ d.kind = "enum" /\ RefAt(p, R[j].place).kind = "value"
                \/ /\ RefAt(p, R[j].place).kind \in K /\ MeantPlace(p, R[j].place) = d.place
                   /\ Whole(p, K, R[j])
  <2> DEFINE h == R[j]
             q == h.place
             r == RefAt(p, q)
  <2>1. PICK f \in DOMAIN p : \E n \in DOMAIN p[f].nodes : \E i \in DOMAIN p[f].nodes[n].refs :
          h.place = Place(f, n, "ref", i) /\ HitAt(p, d, kinds, f, n, i) = <<h>>
    BY <1>1 DEF HitsAtReferences
  <2>2. PICK n \in DOMAIN p[f].nodes : \E i \in DOMAIN p[f].nodes[n].refs :
          h.place = Place(f, n, "ref", i) /\ HitAt(p, d, kinds, f, n, i) = <<h>>
    BY <2>1
  <2>3. PICK i \in DOMAIN p[f].nodes[n].refs :
          h.place = Place(f, n, "ref", i) /\ HitAt(p, d, kinds, f, n, i) = <<h>>
    BY <2>2
  <2>4. q \in RefPlaces(p) /\ r = p[f].nodes[n].refs[i] /\ q.slot = "ref"
    BY <2>3, ReferencePlaces DEF RefPlaces
  <2>5. HitsOf(p, q, r, d, kinds) = <<h>>
    BY <2>3, <2>4 DEF HitAt
  <2> HIDE DEF h, r
  <2>6. \/ d.kind = "enum" /\ r.kind = "value"
        \/ /\ r.kind \in K /\ h = Hit(q, 1, Len(r.name), r.name)
           /\ BareName(r.name) = d.name /\ SameDefinition(ResolveReference(p, q.file, r), d)
    BY <2>5, HitsMean DEF K
  <2>7. ASSUME h = Hit(q, 1, Len(r.name), r.name) PROVE h.to = Len(r.name)
    BY <2>7 DEF Hit
  <2>8. ASSUME BareName(r.name) = d.name, SameDefinition(ResolveReference(p, q.file, r), d)
        PROVE  MeantPlace(p, q) = d.place
    BY <2>4, <2>8, ReferenceTo DEF r
  <2> QED
    BY <2>4, <2>6, <2>7, <2>8 DEF Whole, r, h
<1>4. ASSUME NEW q \in RefPlaces(p), RefAt(p, q).kind \in K, MeantPlace(p, q) = d.place
      PROVE  \E j \in DOMAIN R : R[j].place = q /\ Whole(p, K, R[j])
  <2> DEFINE r == RefAt(p, q)
             h == Hit(q, 1, Len(r.name), r.name)
  <2>1. /\ q.file \in DOMAIN p /\ q.node \in DOMAIN p[q.file].nodes
        /\ q.at \in DOMAIN p[q.file].nodes[q.node].refs
        /\ q = Place(q.file, q.node, "ref", q.at)
        /\ r = p[q.file].nodes[q.node].refs[q.at]
    BY ReferencePlaces
  <2>2. /\ BareName(r.name) = d.name /\ SameDefinition(ResolveReference(p, q.file, r), d)
        /\ q.file \in {g} \cup Dependents(p, g)
    BY <1>4, ReferenceTo
  <2>3. r.kind \in RefKindsFor(d.kind)
    BY <1>4 DEF K
  <2> HIDE DEF r
  <2>4. HitsOf(p, q, r, d, kinds) = <<h>>
    BY <2>2, <2>3, HitsMean
  <2>5. h.place = q /\ h.to = Len(r.name)
    BY DEF Hit
  <2> HIDE DEF h
  <2>6. HitAt(p, d, kinds, q.file, q.node, q.at) = <<h>>
    BY <2>1, <2>4 DEF HitAt
  <2>7. PICK j \in DOMAIN R : R[j] = h
    BY <1>1, <1>2, <2>1, <2>2, <2>6 DEF HitsOfReferences
  <2>8. R[j].place = q /\ R[j].to = Len(RefAt(p, q).name) /\ q.slot = "ref"
    BY <2>5, <2>7 DEF r, RefPlaces
  <2> QED
    BY <1>4, <2>8 DEF Whole
<1> QED
  BY <1>1, <1>3, <1>4 DEF R, K

\* Hits at different places are different.
LEMMA ApartCounted ==
  ASSUME NEW V, NEW s \in Seq(V), Apart(s)
  PROVE  Cardinality({s[k] : k \in DOMAIN s}) = Len(s)
<1> DEFINE n == Len(s)
           T == {s[k] : k \in DOMAIN s}
<1>1. n \in Nat /\ DOMAIN s = 1..n
  OBVIOUS
<1>2. s \in Bijection(1..n, T)
  <2>1. s \in [1..n -> T]
    <3>1. s = [k \in 1..n |-> s[k]]
      BY <1>1
    <3>2. \A k \in 1..n : s[k] \in T
      BY <1>1
    <3> HIDE DEF T, n
    <3> QED
      BY <3>1, <3>2
  <2>2. \A j, k \in 1..n : s[j] = s[k] => j = k
    BY <1>1 DEF Apart
  <2>3. \A t \in T : \E k \in 1..n : s[k] = t
    BY <1>1
  <2> HIDE DEF T, n
  <2> QED
    BY <2>1, <2>2, <2>3 DEF Bijection, Injection, Surjection, IsInjective
<1> HIDE DEF T
<1>3. IsFiniteSet(1..n) /\ Cardinality(1..n) = n
  BY <1>1, FS_Interval
<1>4. Cardinality(T) = Cardinality(1..n)
  BY <1>2, <1>3, FS_Bijection DEF ExistsBijection
<1> QED
  BY <1>3, <1>4 DEF T

\* An answer made of the hits of a search, and of one at the definition at
\* most.
Answers(p, d, R, s) ==
  /\ \E V : s \in Seq(V)
  /\ Apart(s)
  /\ \A j \in DOMAIN s : s[j] = Hit(d.place, 1, 1, <<d.name>>) \/ \E k \in DOMAIN R : s[j] = R[k]
  /\ \A k \in DOMAIN R : \E j \in DOMAIN s : s[j] = R[k]

\* An answer made of the hits of a search is right.
LEMMA AnswerExact ==
  ASSUME NEW p, IsProject(p), IsNamed(p), NamesApart(p), IsFiniteSet(Files),
         NEW g \in DOMAIN p, NEW d, StandsIn(p, g, d), NEW kinds, Searches(p, d, kinds),
         NEW s, Answers(p, d, ReferencesTo(p, d, kinds), s)
  PROVE  IsExact(p, d.place, s)
<1> DEFINE R == ReferencesTo(p, d, kinds)
           K == RefKindsFor(d.kind)
           hits == {s[k] : k \in DOMAIN s}
           whole == {h \in hits : Whole(p, K, h)}
<1>1. /\ \A j \in DOMAIN R :
           /\ R[j].place \in RefPlaces(p)
           /\ \/ d.kind = "enum" /\ RefAt(p, R[j].place).kind = "value"
              \/ /\ RefAt(p, R[j].place).kind \in K /\ MeantPlace(p, R[j].place) = d.place
                 /\ Whole(p, K, R[j])
      /\ \A q \in RefPlaces(p) : RefAt(p, q).kind \in K /\ MeantPlace(p, q) = d.place =>
           \E j \in DOMAIN R : R[j].place = q /\ Whole(p, K, R[j])
  BY ReferencesToExact
<1>2. /\ d.place.slot \in {"name", "member"}
      /\ d.kind = IF d.place.slot = "member" THEN "member" ELSE NodeAt(p, d.place).kind
  BY DefinitionPlaces
<1>3. KindsAt(p, d.place) = K
  BY <1>2 DEF KindsAt
<1> HIDE DEF R, K
<1>4. /\ \E V : s \in Seq(V)
      /\ Apart(s)
      /\ \A j \in DOMAIN s : s[j].place = d.place \/ \E k \in DOMAIN R : s[j] = R[k]
      /\ \A k \in DOMAIN R : \E j \in DOMAIN s : s[j] = R[k]
  <2>1. Hit(d.place, 1, 1, <<d.name>>).place = d.place
    BY DEF Hit
  <2> QED
    BY <2>1 DEF Answers, R
<1>5. Cardinality(hits) = Len(s)
  BY <1>4, ApartCounted
<1>6. ASSUME NEW j \in DOMAIN s
      PROVE  /\ Whole(p, K, s[j]) => /\ s[j].place \in RefPlaces(p)
                                     /\ MeantPlace(p, s[j].place) = d.place
                                     /\ RefAt(p, s[j].place).kind \in K
             /\ ~Whole(p, K, s[j]) => Excused(p, d.place, s[j])
  <2>1. CASE s[j].place = d.place
    BY <1>2, <2>1 DEF Whole, Excused
  <2>2. ASSUME NEW k \in DOMAIN R, s[j] = R[k]
        PROVE  /\ Whole(p, K, s[j]) => /\ s[j].place \in RefPlaces(p)
                                       /\ MeantPlace(p, s[j].place) = d.place
                                       /\ RefAt(p, s[j].place).kind \in K
               /\ ~Whole(p, K, s[j]) => Excused(p, d.place, s[j])
    <3>1. CASE d.kind = "enum" /\ RefAt(p, R[k].place).kind = "value"
      <4>1. "value" \notin K
        BY <3>1, KindsOfEnum DEF K
      <4>2. d.place.slot = "name" /\ NodeAt(p, d.place).kind = "enum"
        BY <1>2, <3>1
      <4> QED
        BY <2>2, <3>1, <4>1, <4>2 DEF Whole, Excused
    <3>2. CASE ~(d.kind = "enum" /\ RefAt(p, R[k].place).kind = "value")
      BY <1>1, <2>2, <3>2
    <3> QED
      BY <3>1, <3>2
  <2> QED
    BY <1>4, <2>1, <2>2
<1>7. \A h \in hits \ whole : Excused(p, d.place, h)
  BY <1>6
<1>8. {h.place : h \in whole} = {q \in RefPlaces(p) : MeantPlace(p, q) = d.place /\ RefAt(p, q).kind \in K}
  <2>1. ASSUME NEW h \in whole
        PROVE  h.place \in RefPlaces(p) /\ MeantPlace(p, h.place) = d.place /\ RefAt(p, h.place).kind \in K
    BY <1>6
  <2>2. ASSUME NEW q \in RefPlaces(p), MeantPlace(p, q) = d.place, RefAt(p, q).kind \in K
        PROVE  \E h \in whole : q = h.place
    <3>1. PICK k \in DOMAIN R : R[k].place = q /\ Whole(p, K, R[k])
      BY <1>1, <2>2
    <3>2. PICK j \in DOMAIN s : s[j] = R[k]
      BY <1>4
    <3>3. s[j] \in whole /\ q = s[j].place
      BY <3>1, <3>2
    <3> QED
      BY <3>3
  <2> HIDE DEF whole
  <2> QED
    BY <2>1, <2>2
<1> QED
  BY <1>3, <1>5, <1>7, <1>8 DEF IsExact

\* No hits are right if nothing is asked for.
LEMMA NoneExact == ASSUME NEW p PROVE IsExact(p, Silent, <<>>)
<1>1. Cardinality({}) = 0
  BY FS_EmptySet
<1>2. {<<>>[k] : k \in DOMAIN <<>>} = {}
  OBVIOUS
<1> QED
  BY <1>1, <1>2 DEF IsExact

\* The hits alone, and the definition before them.
LEMMA AnswersOf ==
  ASSUME NEW p, IsProject(p), IsNamed(p), NamesApart(p), IsFiniteSet(Files),
         NEW g \in DOMAIN p, NEW d, StandsIn(p, g, d), NEW kinds, Searches(p, d, kinds)
  PROVE  LET R == ReferencesTo(p, d, kinds)
         IN  /\ Answers(p, d, R, R)
             /\ Answers(p, d, R, <<Hit(d.place, 1, 1, <<d.name>>)>> \o R)
<1> DEFINE R == ReferencesTo(p, d, kinds)
           h == Hit(d.place, 1, 1, <<d.name>>)
           a == <<h>>
           s == a \o R
<1>1. /\ \E V : R \in Seq(V)
      /\ Apart(R)
      /\ \A j \in DOMAIN R : R[j].place \in RefPlaces(p)
  BY ReferencesToExact
<1>2. d.place.slot \in {"name", "member"} /\ h.place = d.place
  BY DefinitionPlaces DEF Hit
<1> HIDE DEF R, h
<1>3. Answers(p, d, R, R)
  BY <1>1 DEF Answers
<1>4. PICK V : R \in Seq(V)
  BY <1>1
<1> DEFINE W == V \cup {h}
<1>5. a \in Seq(W) /\ R \in Seq(W) /\ Len(a) = 1 /\ a[1] = h /\ DOMAIN a = {1}
  <2>1. h \in W /\ V \subseteq W
    OBVIOUS
  <2> HIDE DEF W
  <2> QED
    BY <1>4, <2>1
<1> HIDE DEF W, a
<1>6. Apart(a) /\ Elsewhere(a, R)
  <2>1. Apart(a)
    BY <1>5 DEF Apart
  <2>2. \A y \in DOMAIN R : R[y].place # d.place
    BY <1>1, <1>2 DEF RefPlaces
  <2> QED
    BY <1>2, <1>5, <2>1, <2>2 DEF Elsewhere
<1>7. Apart(s)
  BY <1>1, <1>5, <1>6, ApartConcat
<1>8. /\ s \in Seq(W) /\ DOMAIN s = 1..(1 + Len(R)) /\ Len(R) \in Nat /\ DOMAIN R = 1..Len(R)
      /\ \A i \in 1..(1 + Len(R)) : s[i] = IF i <= 1 THEN a[i] ELSE R[i - 1]
  <2>0. a \in Seq(W) /\ R \in Seq(W)
    BY <1>5
  <2>1. s \in Seq(W) /\ Len(R) \in Nat /\ DOMAIN R = 1..Len(R)
    BY <2>0
  <2>2. /\ DOMAIN s = 1..(Len(a) + Len(R))
        /\ \A i \in 1..(Len(a) + Len(R)) : s[i] = IF i <= Len(a) THEN a[i] ELSE R[i - Len(a)]
    BY <2>0
  <2>3. Len(a) = 1
    BY <1>5
  <2> QED
    BY <2>1, <2>2, <2>3
<1> HIDE DEF s
<1>9. ASSUME NEW j \in DOMAIN s PROVE s[j] = h \/ \E k \in DOMAIN R : s[j] = R[k]
  <2>1. CASE j = 1
    BY <1>5, <1>8, <2>1
  <2>2. CASE j # 1
    <3>1. j - 1 \in DOMAIN R /\ s[j] = R[j - 1]
      BY <1>8, <2>2
    <3> QED
      BY <3>1
  <2> QED
    BY <2>1, <2>2
<1>10. ASSUME NEW k \in DOMAIN R PROVE \E j \in DOMAIN s : s[j] = R[k]
  <2>1. k + 1 \in 1..(1 + Len(R)) /\ ~(k + 1 <= 1) /\ (k + 1) - 1 = k
    BY <1>8
  <2>2. k + 1 \in DOMAIN s /\ s[k + 1] = R[k]
    BY <1>8, <2>1
  <2> QED
    BY <2>2
<1>11. Answers(p, d, R, s)
  BY <1>7, <1>8, <1>9, <1>10 DEF Answers, h
<1> QED
  BY <1>3, <1>11 DEF R, s, a, h

\* A service at its own name is found.
LEMMA ServiceAtName ==
  ASSUME NEW p, IsProject(p), IsNamed(p), NamesApart(p), IsFiniteSet(Files),
         NEW f \in DOMAIN p, NEW n \in DOMAIN p[f].nodes, p[f].nodes[n].kind = "service"
  PROVE  ResolveService(p, f, <<p[f].nodes[n].name>>) = Definition(p, f, n)
<1> DEFINE x == p[f].nodes[n].name
           name == <<x>>
           files == DefinitionFiles(p, f, name)
           find == [g \in DOMAIN p |-> OfKind(Definitions(p, g, Identifier(p, f, name)), {"service"})]
<1>1. IsName(name) /\ Len(name) = 1 /\ name \in Seq({x})
  <2>1. name \in Seq({x}) /\ name # <<>> /\ Len(name) = 1
    OBVIOUS
  <2> QED
    BY <2>1 DEF IsName
<1>2. ParseIdent(p, f, name) = <<>>
  <2>1. Len(ParseIdent(p, f, name)) \in Nat /\ Len(ParseIdent(p, f, name)) < 1
    BY <1>1, QualifierIsIncluded DEF IsProject
  <2>2. SUFFICES ASSUME ParseIdent(p, f, name) # <<>> PROVE FALSE
    OBVIOUS
  <2>3. PICK g \in ToSet(p[f].includes) : ParseIdent(p, f, name) = IncludeName[g]
    BY <1>1, <2>2, QualifierIsIncluded DEF IsProject, Qualifiers
  <2>4. g \in Files
    BY DEF IsProject, IsGraph, ToSet
  <2>5. IncludeName[g] \in Seq(STRING) \ {<<>>}
    BY <2>4, NamesAssumption DEF Files
  <2> QED
    BY <2>1, <2>3, <2>5
<1>3. files \in Seq(Files) /\ 1 \in DOMAIN files /\ files[1] = f
  BY <1>1, <1>2, DefinitionFilesLead DEF IsProject
<1>4. Identifier(p, f, name) = name
  <2>1. Len(<<>>) + 1 = 1
    OBVIOUS
  <2>2. SubSeq(name, 1, Len(name)) = name
    BY <1>1, SubSeqFull
  <2> HIDE DEF name
  <2> QED
    BY <1>2, <2>1, <2>2 DEF Identifier, After
<1>5. Definitions(p, f, name) = Definition(p, f, n)
  <2> DEFINE named == {m \in DOMAIN p[f].nodes : <<p[f].nodes[m].name>> = name}
  <2>1. named = {n}
    <3>1. ASSUME NEW m \in named PROVE m = n
      <4>1. StandsIn(p, f, Definition(p, f, m)) /\ StandsIn(p, f, Definition(p, f, n))
        BY DEF StandsIn
      <4>2. Definition(p, f, m).name = Definition(p, f, n).name
        BY DEF Definition
      <4>3. Definition(p, f, m).place = Definition(p, f, n).place
        BY <4>1, <4>2, SameName
      <4>4. Place(f, m, "name", 0) = Place(f, n, "name", 0)
        BY <4>3 DEF Definition
      <4> QED
        BY <4>4 DEF Place
    <3> QED
      BY <3>1
  <2>2. Max({n}) = n
    <3>1. PICK k \in Nat : DOMAIN p[f].nodes = 1..k
      BY DEF IsProject, HoldsNodes
    <3>2. {n} \in SUBSET (0..k) /\ {n} # {}
      BY <3>1
    <3>3. Max({n}) \in {n}
      BY <3>2, LeastAndGreatest
    <3> QED
      BY <3>3
  <2>3. Definitions(p, f, name) = IF named = {} THEN Nothing ELSE Definition(p, f, Max(named))
    BY DEF Definitions
  <2> HIDE DEF named
  <2> QED
    BY <2>1, <2>2, <2>3
<1>6. Definition(p, f, n).kind = "service"
  BY DEF Definition
<1>7. OfKind(Definition(p, f, n), {"service"}) = Definition(p, f, n) /\ Definition(p, f, n) # Nothing
  BY <1>6 DEF OfKind, Nothing
<1>8. find[f] = Definition(p, f, n) /\ f \in DOMAIN find
  BY <1>4, <1>5, <1>7
<1>9. ResolveService(p, f, name) = FirstFound(files, find)
  BY DEF ResolveService
<1> HIDE DEF find, files
<1>10. FirstFound(files, find) = find[f]
  BY <1>3, <1>7, <1>8, FirstIsFound
<1> QED
  BY <1>8, <1>9, <1>10

\* The answer to a request at a place.
LEMMA SearchExact ==
  ASSUME NEW p, IsProject(p), IsNamed(p), NamesApart(p), IsFiniteSet(Files), NEW at \in Places(p)
  PROVE  IsExact(p, AskedFor(p, at), Search(p, at))
<1> USE DEF AskedFor
<1>1. ASSUME NEW g \in DOMAIN p, NEW d, StandsIn(p, g, d), NEW kinds, Searches(p, d, kinds)
      PROVE  /\ IsExact(p, d.place, ReferencesTo(p, d, kinds))
             /\ IsExact(p, d.place, <<Hit(d.place, 1, 1, <<d.name>>)>> \o ReferencesTo(p, d, kinds))
  BY <1>1, AnswersOf, AnswerExact
<1>2. \A d : Searches(p, d, RefKindsFor(d.kind))
  BY DEF Searches
<1>3. CASE at.slot = "ref"
  <2> DEFINE r == RefAt(p, at)
             f == at.file
             d == ResolveReference(p, f, r)
  <2>1. at \in RefPlaces(p)
    BY <1>3 DEF RefPlaces
  <2>2. f \in DOMAIN p /\ r.kind \in SlotKinds /\ IsName(r.name) /\ TextAt(p, at) = r.name
    BY <2>1, ReferencePlaces
  <2>3. AskedFor(p, at) = IF d = Nothing THEN Silent ELSE d.place
    BY <1>3 DEF MeantPlace, PlaceOf, MeantBy
  <2>4. Search(p, at) = IF d = Nothing THEN <<>>
          ELSE IF r.kind = "extends" THEN ReferencesTo(p, d, RefKindsFor("service"))
          ELSE <<Hit(d.place, 1, 1, <<d.name>>)>> \o ReferencesTo(p, d, RefKindsFor(d.kind))
    <3>1. CASE r.kind \in TypeSlots
      <4>1. Target(p, at) = "type" /\ d = ResolveType(p, f, r.name) /\ r.kind # "extends"
        BY <1>3, <3>1 DEF Target, ResolveReference, TypeSlots
      <4>2. ~MayRename(p, at) => d = Nothing
        BY <2>2, <4>1 DEF MayRename, ResolveType
      <4>3. Search(p, at) = SearchFromReference(p, IF MayRename(p, at) THEN d ELSE Nothing)
        BY <2>2, <4>1 DEF Search
      <4>4. Search(p, at) = SearchFromReference(p, d)
        BY <4>2, <4>3
      <4> HIDE DEF d
      <4> QED
        BY <4>1, <4>4 DEF SearchFromReference
    <3>2. CASE r.kind = "value"
      <4>1. Target(p, at) = "value" /\ d = ResolveValue(p, f, r.name) /\ r.kind # "extends"
        BY <1>3, <3>2 DEF Target, ResolveReference, TypeSlots
      <4>2. Search(p, at) = SearchFromReference(p, d)
        BY <2>2, <4>1 DEF Search
      <4> HIDE DEF d
      <4> QED
        BY <4>1, <4>2 DEF SearchFromReference
    <3>3. CASE r.kind = "extends"
      <4>1. Target(p, at) = "service" /\ d = ResolveService(p, f, r.name)
        BY <1>3, <3>3 DEF Target, ResolveReference, TypeSlots
      <4>2. Search(p, at) = SearchService(p, f, r.name)
        BY <2>2, <4>1 DEF Search
      <4>3. SearchService(p, f, r.name) =
              IF d = Nothing THEN <<>> ELSE ReferencesTo(p, d, RefKindsFor("service"))
        BY <2>2, <4>1 DEF SearchService
      <4> HIDE DEF d
      <4> QED
        BY <3>3, <4>2, <4>3
    <3> QED
      BY <2>2, <3>1, <3>2, <3>3 DEF SlotKinds
  <2>5. CASE d = Nothing
    BY <2>3, <2>4, <2>5, NoneExact
  <2>6. CASE d # Nothing
    <3>1. r.kind = "extends" => d.kind = "service"
      <4>1. r.kind = "extends" => d = ResolveService(p, f, r.name)
        BY DEF ResolveReference, TypeSlots
      <4> QED
        BY <2>2, <2>6, <4>1, ResolveMeans
    <3>2. Means(p, f, r.name, d)
      BY <2>2, ReferenceMeans
    <3> HIDE DEF d, r, f
    <3>3. PICK g \in DOMAIN p : StandsIn(p, g, d)
      BY <2>6, <3>2 DEF Means
    <3>4. Search(p, at) = IF r.kind = "extends" THEN ReferencesTo(p, d, RefKindsFor(d.kind))
            ELSE <<Hit(d.place, 1, 1, <<d.name>>)>> \o ReferencesTo(p, d, RefKindsFor(d.kind))
      BY <2>4, <2>6, <3>1
    <3> QED
      BY <1>1, <1>2, <2>3, <2>6, <3>3, <3>4
  <2> QED
    BY <2>5, <2>6
<1>4. CASE at.slot # "ref"
  <2>1. PICK f \in DOMAIN p : \E n \in DOMAIN p[f].nodes :
          \/ at = Place(f, n, "name", 0)
          \/ \E i \in DOMAIN p[f].nodes[n].members : at = Place(f, n, "member", i)
          \/ \E i \in DOMAIN p[f].nodes[n].refs : at = Place(f, n, "ref", i)
    BY PlacesAre DEF IsPlace
  <2>2. PICK n \in DOMAIN p[f].nodes :
          \/ at = Place(f, n, "name", 0)
          \/ \E i \in DOMAIN p[f].nodes[n].members : at = Place(f, n, "member", i)
          \/ \E i \in DOMAIN p[f].nodes[n].refs : at = Place(f, n, "ref", i)
    BY <2>1
  <2>3. \A slot, i : /\ Place(f, n, slot, i).file = f /\ Place(f, n, slot, i).node = n
                     /\ Place(f, n, slot, i).slot = slot /\ Place(f, n, slot, i).at = i
    BY DEF Place
  <2>4. NodeAt(p, at) = p[f].nodes[n] /\ at.file = f /\ at.node = n
    BY <2>2, <2>3 DEF NodeAt
  <2>5. CASE at.slot = "name" /\ NodeAt(p, at).kind = "service"
    <3> DEFINE d == Definition(p, f, n)
    <3>1. Target(p, at) = "service" /\ TextAt(p, at) = <<p[f].nodes[n].name>>
      BY <1>4, <2>4, <2>5 DEF Target, TextAt
    <3>2. Search(p, at) = SearchService(p, f, <<p[f].nodes[n].name>>)
      BY <2>4, <3>1 DEF Search
    <3>3. d = ResolveService(p, f, <<p[f].nodes[n].name>>)
      BY <2>4, <2>5, ServiceAtName
    <3>4. d.kind = "service" /\ d.place = at /\ d # Nothing /\ StandsIn(p, f, d)
      BY <2>2, <2>3, <2>4, <2>5 DEF Definition, StandsIn, Nothing
    <3> HIDE DEF d
    <3>5. Search(p, at) = ReferencesTo(p, d, RefKindsFor(d.kind))
      BY <3>2, <3>3, <3>4 DEF SearchService
    <3> QED
      BY <1>1, <1>2, <1>4, <3>4, <3>5
  <2>6. CASE ~(at.slot = "name" /\ NodeAt(p, at).kind = "service")
    <3> DEFINE d == IF at.slot = "member" THEN Member(p, at.file, at.node, at.at)
                    ELSE Definition(p, at.file, at.node)
               kinds == RefKindsFor(d.kind) \cup IF d.kind = "enum" THEN {"value"} ELSE {}
    <3>1. Search(p, at) = ReferencesTo(p, d, kinds)
      <4>1. Target(p, at) = "definition"
        BY <1>4, <2>6 DEF Target
      <4> QED
        BY <4>1 DEF Search, SearchDefinition
    <3>2. StandsIn(p, f, d) /\ d.place = at
      <4>1. CASE at = Place(f, n, "name", 0)
        BY <2>3, <2>4, <4>1 DEF StandsIn, Definition
      <4>2. ASSUME NEW i \in DOMAIN p[f].nodes[n].members, at = Place(f, n, "member", i)
            PROVE  StandsIn(p, f, d) /\ d.place = at
        BY <2>3, <2>4, <4>2 DEF StandsIn, Member
      <4> QED
        BY <1>4, <2>2, <2>3, <4>1, <4>2
    <3> HIDE DEF d
    <3>3. Searches(p, d, kinds)
      BY DEF Searches
    <3> QED
      BY <1>1, <1>4, <3>1, <3>2, <3>3
  <2> QED
    BY <2>5, <2>6
<1> QED
  BY <1>3, <1>4

-----------------------------------------------------------------------------
(***************************************************************************)
(* Names stay apart, whatever is renamed.                                  *)
(***************************************************************************)
\* A hit is a range of a name of the project.
HitSound(p, h) ==
  /\ h.place \in Places(p)
  /\ h.to \in 1..Len(TextAt(p, h.place)) /\ h.from \in 1..h.to
  /\ Len(TextAt(p, h.place)) \in Nat
  /\ \E S : h.text \in Seq(S)
  /\ h.place.slot # "ref" => Len(h.text) <= 1

\* The hit in a reference is a range of its name.
LEMMA HitsOfSound ==
  ASSUME NEW p, NEW d, NEW kinds, NEW place, NEW ref, IsName(ref.name),
         place \in Places(p), place.slot = "ref", TextAt(p, place) = ref.name,
         NEW h, HitsOf(p, place, ref, d, kinds) = <<h>>
  PROVE  HitSound(p, h)
<1> DEFINE whole == Hit(place, 1, Len(ref.name), ref.name)
           i == EnumSegment(ref.name, d.name)
           part == Hit(place, i, i, <<d.name>>)
<1>1. PICK S : ref.name \in Seq(S)
  BY DEF IsName
<1>2. h = whole \/ (h = part /\ i # 0)
  <2>1. \/ HitsOf(p, place, ref, d, kinds) = <<>>
        \/ HitsOf(p, place, ref, d, kinds) = <<whole>>
        \/ HitsOf(p, place, ref, d, kinds) = <<part>> /\ i # 0
    BY DEF HitsOf, QualifiesBy
  <2>2. <<>> # <<h>> /\ \A x : <<x>> = <<h>> => x = h
    OBVIOUS
  <2> HIDE DEF whole, part, i
  <2> QED
    BY <2>1, <2>2
<1>3. Len(ref.name) \in Nat /\ Len(ref.name) > 0
  BY <1>1 DEF IsName
<1>4. CASE h = whole
  <2>1. h.place = place /\ h.from = 1 /\ h.to = Len(ref.name) /\ h.text = ref.name
    BY <1>4 DEF Hit
  <2> QED
    BY <1>1, <1>3, <2>1 DEF HitSound
<1>5. CASE h = part /\ i # 0
  <2>1. h.place = place /\ h.from = i /\ h.to = i /\ h.text = <<d.name>>
    BY <1>5 DEF Hit
  <2>2. i \in 1..Len(ref.name)
    BY <1>1, <1>5, EnumSegmentInName
  <2>3. <<d.name>> \in Seq({d.name})
    OBVIOUS
  <2>4. \E T : h.text \in Seq(T)
    BY <2>1, <2>3
  <2> HIDE DEF i
  <2>5. h.from \in 1..h.to
    BY <1>3, <2>1, <2>2
  <2> QED
    BY <1>3, <2>1, <2>2, <2>4, <2>5 DEF HitSound
<1> QED
  BY <1>2, <1>4, <1>5

\* What a search finds: at references, but for one hit at another place.
FindsSound(p, s) ==
  /\ \E V : s \in Seq(V)
  /\ Apart(s)
  /\ \A j \in DOMAIN s : HitSound(p, s[j])

\* Every search for references finds ranges of names.
LEMMA ReferencesToSound ==
  ASSUME NEW p, IsProject(p), IsNamed(p), NEW d, NEW kinds
  PROVE  /\ FindsSound(p, ReferencesTo(p, d, kinds))
         /\ \A j \in DOMAIN ReferencesTo(p, d, kinds) : ReferencesTo(p, d, kinds)[j].place.slot = "ref"
<1> DEFINE R == ReferencesTo(p, d, kinds)
<1>1. /\ \E V : R \in Seq(V)
      /\ Apart(R)
      /\ HitsAtReferences(p, d, kinds, R)
  BY ReferencesApart
<1> HIDE DEF R
<1>2. ASSUME NEW j \in DOMAIN R PROVE HitSound(p, R[j]) /\ R[j].place.slot = "ref"
  <2> DEFINE h == R[j]
  <2>1. PICK f \in DOMAIN p : \E n \in DOMAIN p[f].nodes : \E i \in DOMAIN p[f].nodes[n].refs :
          h.place = Place(f, n, "ref", i) /\ HitAt(p, d, kinds, f, n, i) = <<h>>
    BY <1>1 DEF HitsAtReferences
  <2>2. PICK n \in DOMAIN p[f].nodes : \E i \in DOMAIN p[f].nodes[n].refs :
          h.place = Place(f, n, "ref", i) /\ HitAt(p, d, kinds, f, n, i) = <<h>>
    BY <2>1
  <2>3. PICK i \in DOMAIN p[f].nodes[n].refs :
          h.place = Place(f, n, "ref", i) /\ HitAt(p, d, kinds, f, n, i) = <<h>>
    BY <2>2
  <2> DEFINE q == Place(f, n, "ref", i)
             r == p[f].nodes[n].refs[i]
  <2>4. q \in RefPlaces(p) /\ RefAt(p, q) = r
    BY ReferencePlaces
  <2>5. IsName(r.name) /\ q \in Places(p) /\ q.slot = "ref" /\ TextAt(p, q) = r.name
    BY <2>4, ReferencePlaces DEF RefPlaces
  <2>6. HitsOf(p, q, r, d, kinds) = <<h>>
    BY <2>3 DEF HitAt
  <2> HIDE DEF q, r, h
  <2>7. HitSound(p, h)
    BY <2>5, <2>6, HitsOfSound
  <2> QED
    BY <2>3, <2>5, <2>7 DEF h, q
<1> QED
  BY <1>1, <1>2 DEF FindsSound, R

\* The hits that are rewritten.
HitsSound(p, hits) ==
  /\ \E m \in Nat : DOMAIN hits = 1..m
  /\ \A k \in DOMAIN hits : HitSound(p, hits[k].hit)
  /\ \A j, k \in DOMAIN hits :
       hits[j].hit.place.slot # "ref" /\ hits[k].hit.place.slot # "ref" =>
         hits[j].hit.place = hits[k].hit.place
  /\ \A j, k \in DOMAIN hits :
       j # k /\ hits[j].hit.place = hits[k].hit.place =>
         hits[j].hit.from <= hits[k].hit.to /\ hits[k].hit.from <= hits[j].hit.to

\* A name is a sequence of segments, and that of a definition is one.
LEMMA TextIsName ==
  ASSUME NEW p, IsProject(p), IsNamed(p), NEW place \in Places(p)
  PROVE  /\ IsName(TextAt(p, place))
         /\ Len(TextAt(p, place)) \in Nat /\ Len(TextAt(p, place)) > 0
         /\ place.slot # "ref" => \E x : TextAt(p, place) = <<x>>
<1> DEFINE t == TextAt(p, place)
<1>1. CASE place.slot = "ref"
  <2>1. place \in RefPlaces(p)
    BY <1>1 DEF RefPlaces
  <2>2. IsName(t)
    BY <2>1, ReferencePlaces
  <2> HIDE DEF t
  <2>3. Len(t) \in Nat /\ Len(t) > 0
    BY <2>2 DEF IsName
  <2> QED
    BY <1>1, <2>2, <2>3 DEF t
<1>2. CASE place.slot # "ref"
  <2>1. IsPlace(p, place)
    BY PlacesAre
  <2>2. place.slot = "name" \/ place.slot = "member"
    BY <1>2, <2>1 DEF IsPlace, Place
  <2>3. \E x : t = <<x>>
    BY <2>2 DEF TextAt
  <2> HIDE DEF t
  <2>4. PICK x : t = <<x>>
    BY <2>3
  <2>5. t \in Seq({x}) /\ t # <<>> /\ Len(t) = 1
    BY <2>4
  <2>6. IsName(t)
    BY <2>5 DEF IsName
  <2> QED
    BY <2>3, <2>5, <2>6 DEF t
<1> QED
  BY <1>1, <1>2

\* The name under the cursor is added where it is not among those found.
LEMMA WithCursorSound ==
  ASSUME NEW p, IsProject(p), IsNamed(p), NEW at \in Places(p), NEW found, NEW in,
         FindsSound(p, found),
         \A j, k \in DOMAIN found : found[j].place.slot # "ref" /\ found[k].place.slot # "ref" => j = k,
         at.slot # "ref" => \A j \in DOMAIN found : found[j].place.slot = "ref"
  PROVE  HitsSound(p, WithCursor(p, at, found, in))
<1> DEFINE n == Len(found)
           hits == WithCursor(p, at, found, in)
           t == TextAt(p, at)
           cursor == Hit(at, 1, Len(t), <<>>)
           row == [k \in DOMAIN found |-> [hit |-> found[k], file |-> found[k].place.file]]
           last == [hit |-> cursor, file |-> in]
<1>1. /\ n \in Nat /\ DOMAIN found = 1..n
      /\ Apart(found)
      /\ \A k \in 1..n : HitSound(p, found[k])
  BY DEF FindsSound
<1>2. hits = Append(row, last) /\ last.hit = cursor
  BY DEF WithCursor
<1>3. Len(t) \in Nat /\ Len(t) > 0
  BY TextIsName
<1>4. cursor.place = at /\ cursor.from = 1 /\ cursor.to = Len(t) /\ cursor.text = <<>>
  BY DEF Hit
<1> HIDE DEF last, cursor
<1>5. HitSound(p, cursor)
  <2>1. <<>> \in Seq({}) /\ Len(<<>>) = 0
    OBVIOUS
  <2>2. (\E S : cursor.text \in Seq(S)) /\ Len(cursor.text) <= 1
    BY <1>4, <2>1
  <2>3. cursor.to \in 1..Len(t) /\ cursor.from \in 1..cursor.to
    BY <1>3, <1>4
  <2> QED
    BY <1>3, <1>4, <2>2, <2>3 DEF HitSound
<1>6. DOMAIN row = 1..n /\ \A k \in 1..n : row[k].hit = found[k]
  BY <1>1
<1>7. \E W : row \in Seq(W)
  <2> DEFINE W == {row[k] : k \in 1..n}
  <2> HIDE DEF row, n
  <2>1. row = [k \in 1..n |-> row[k]]
    BY <1>1, <1>6 DEF row
  <2>2. row \in [1..n -> W]
    BY <2>1
  <2> HIDE DEF W
  <2>3. row \in Seq(W)
    BY <1>1, <2>2, SeqDef
  <2> QED
    BY <2>3
<1> HIDE DEF row, n, hits
<1>8. DOMAIN hits = 1..(n + 1) /\ hits[n + 1].hit = cursor /\ \A k \in 1..n : hits[k].hit = found[k]
  <2>1. PICK W : row \in Seq(W)
    BY <1>7
  <2>2. Len(row) = n
    BY <1>1, <1>6, <2>1
  <2>3. /\ DOMAIN hits = 1..(Len(row) + 1) /\ hits[Len(row) + 1] = last
        /\ \A k \in 1..Len(row) : hits[k] = row[k]
    BY <1>2, <2>1
  <2> QED
    BY <1>2, <1>6, <2>2, <2>3
<1>9. \A k \in 1..(n + 1) : k \in 1..n \/ k = n + 1
  BY <1>1
<1> HIDE DEF t
<1>10. \A k \in 1..(n + 1) : HitSound(p, hits[k].hit)
  BY <1>1, <1>5, <1>8, <1>9
<1>11. ASSUME NEW j \in 1..(n + 1), NEW k \in 1..(n + 1),
              hits[j].hit.place.slot # "ref", hits[k].hit.place.slot # "ref"
       PROVE  hits[j].hit.place = hits[k].hit.place
  <2>1. CASE j \in 1..n /\ k \in 1..n
    BY <1>1, <1>8, <1>11, <2>1
  <2>2. CASE ~(j \in 1..n /\ k \in 1..n)
    <3>1. at.slot = "ref" \/ \A i \in 1..n : hits[i].hit.place.slot = "ref"
      BY <1>1, <1>8
    <3>2. hits[n + 1].hit.place = at
      BY <1>4, <1>8
    <3>3. j = n + 1 \/ k = n + 1
      BY <1>9, <2>2
    <3>4. at.slot # "ref"
      BY <1>11, <3>2, <3>3
    <3> QED
      BY <1>9, <1>11, <3>1, <3>4
  <2> QED
    BY <2>1, <2>2
<1>12. ASSUME NEW j \in 1..n, hits[j].hit.place = at
       PROVE  /\ hits[j].hit.from <= cursor.to /\ cursor.from <= hits[j].hit.to
  <2>1. hits[j].hit.to \in 1..Len(t) /\ hits[j].hit.from \in 1..hits[j].hit.to
    BY <1>1, <1>8, <1>12 DEF HitSound, t
  <2> QED
    BY <1>3, <1>4, <2>1 DEF t
<1>13. ASSUME NEW j \in 1..(n + 1), NEW k \in 1..(n + 1), j # k, hits[j].hit.place = hits[k].hit.place
       PROVE  hits[j].hit.from <= hits[k].hit.to /\ hits[k].hit.from <= hits[j].hit.to
  <2>1. CASE j \in 1..n /\ k \in 1..n
    <3>1. found[j].place # found[k].place
      BY <1>1, <1>13, <2>1 DEF Apart
    <3> QED
      BY <1>8, <1>13, <2>1, <3>1
  <2>2. CASE j = n + 1
    BY <1>4, <1>8, <1>9, <1>12, <1>13, <2>2
  <2>3. CASE k = n + 1
    BY <1>4, <1>8, <1>9, <1>12, <1>13, <2>3
  <2> QED
    BY <1>9, <2>1, <2>2, <2>3
<1>14. n + 1 \in Nat
  BY <1>1
<1>15. HitsSound(p, hits)
  BY <1>8, <1>10, <1>11, <1>13, <1>14 DEF HitsSound
<1> QED
  BY <1>15 DEF hits

\* To find nothing is sound.
LEMMA NoneFound == ASSUME NEW p PROVE FindsSound(p, <<>>) /\ \A j \in DOMAIN <<>> : <<>>[j].place.slot = "ref"
<1>1. <<>> \in Seq({})
  OBVIOUS
<1> QED
  BY <1>1 DEF FindsSound, Apart

\* A search from a reference adds the definition only.
LEMMA SearchFromReferenceSound ==
  ASSUME NEW p, IsProject(p), IsNamed(p), NamesApart(p), IsFiniteSet(Files), NEW f, NEW name,
         NEW d, Means(p, f, name, d)
  PROVE  /\ FindsSound(p, SearchFromReference(p, d))
         /\ \A j, k \in DOMAIN SearchFromReference(p, d) :
              SearchFromReference(p, d)[j].place.slot # "ref"
              /\ SearchFromReference(p, d)[k].place.slot # "ref" => j = k
<1> DEFINE s == SearchFromReference(p, d)
           K == RefKindsFor(d.kind)
           R == ReferencesTo(p, d, K)
           h == Hit(d.place, 1, 1, <<d.name>>)
<1>1. CASE d = Nothing
  <2>1. s = <<>>
    BY <1>1 DEF SearchFromReference
  <2> QED
    BY <2>1, NoneFound
<1>2. CASE d # Nothing
  <2>1. PICK g \in DOMAIN p : StandsIn(p, g, d)
    BY <1>2 DEF Means
  <2>2. Searches(p, d, K)
    BY DEF Searches
  <2>3. s = <<h>> \o R
    BY <1>2 DEF SearchFromReference
  <2> HIDE DEF K
  <2>4. Answers(p, d, R, s)
    <3>1. Answers(p, d, ReferencesTo(p, d, K),
                  <<Hit(d.place, 1, 1, <<d.name>>)>> \o ReferencesTo(p, d, K))
      BY <2>1, <2>2, AnswersOf
    <3> QED
      BY <2>3, <3>1
  <2>5. FindsSound(p, R) /\ \A j \in DOMAIN R : R[j].place.slot = "ref"
    BY ReferencesToSound
  <2>6. HitSound(p, h) /\ h.place = d.place /\ d.place.slot # "ref"
    <3>1. d.place \in Places(p) /\ d.place.slot # "ref" /\ TextAt(p, d.place) = <<d.name>>
      BY <2>1, DefinitionPlaces
    <3>2. h.place = d.place /\ h.from = 1 /\ h.to = 1 /\ h.text = <<d.name>>
      BY DEF Hit
    <3>3. <<d.name>> \in Seq({d.name}) /\ Len(<<d.name>>) = 1
      OBVIOUS
    <3>4. \E S : h.text \in Seq(S)
      BY <3>2, <3>3
    <3> HIDE DEF h
    <3>5. Len(TextAt(p, h.place)) = 1 /\ Len(h.text) <= 1
      BY <3>1, <3>2, <3>3
    <3>6. /\ Len(TextAt(p, h.place)) \in Nat
          /\ h.to \in 1..Len(TextAt(p, h.place)) /\ h.from \in 1..h.to
      BY <3>2, <3>5
    <3> QED
      BY <3>1, <3>2, <3>4, <3>5, <3>6 DEF HitSound
  <2> HIDE DEF R, h, s
  <2>7. /\ \E V : s \in Seq(V)
        /\ Apart(s)
        /\ \A j \in DOMAIN s : s[j] = h \/ \E k \in DOMAIN R : s[j] = R[k]
    BY <2>4 DEF Answers, h
  <2>8. \A j \in DOMAIN s : HitSound(p, s[j])
    BY <2>5, <2>6, <2>7 DEF FindsSound
  <2>9. \A j \in DOMAIN s : s[j].place.slot # "ref" => s[j].place = d.place
    BY <2>5, <2>6, <2>7
  <2>10. \A j, k \in DOMAIN s : s[j].place.slot # "ref" /\ s[k].place.slot # "ref" => j = k
    BY <2>7, <2>9 DEF Apart
  <2> QED
    BY <2>7, <2>8, <2>10 DEF FindsSound, s
<1> QED
  BY <1>1, <1>2

\* The hits that a rename rewrites are ranges of names.
LEMMA RenameHitsSound ==
  ASSUME NEW p, IsProject(p), IsNamed(p), NamesApart(p), IsFiniteSet(Files), NEW at \in Places(p)
  PROVE  HitsSound(p, Hits(p, at))
<1>1. ASSUME NEW d, NEW kinds, NEW in
      PROVE  HitsSound(p, WithCursor(p, at, ReferencesTo(p, d, kinds), in))
  BY ReferencesToSound, WithCursorSound
<1>2. ASSUME NEW in PROVE HitsSound(p, WithCursor(p, at, <<>>, in))
  <2>1. FindsSound(p, <<>>)
    BY NoneFound
  <2> QED
    BY <2>1, WithCursorSound
<1>3. CASE Target(p, at) = "service"
  <2>1. \A f, name : SearchService(p, f, name) = <<>>
                     \/ \E d : SearchService(p, f, name) = ReferencesTo(p, d, RefKindsFor("service"))
    BY DEF SearchService
  <2>2. Hits(p, at) = WithCursor(p, at, SearchService(p, ServiceFile(p, at), ServiceName(p, at)),
                                 ServiceFile(p, at))
    BY <1>3 DEF Hits
  <2> QED
    BY <1>1, <1>2, <2>1, <2>2
<1>4. CASE Target(p, at) = "definition"
  <2>1. \E d, kinds : Search(p, at) = ReferencesTo(p, d, kinds)
    BY <1>4 DEF Search, SearchDefinition
  <2>2. Hits(p, at) = WithCursor(p, at, Search(p, at), at.file)
    BY <1>4 DEF Hits
  <2> QED
    BY <1>1, <2>1, <2>2
<1>5. CASE at.slot = "ref" /\ Target(p, at) \in {"type", "value"}
  <2> DEFINE name == TextAt(p, at)
             f == at.file
             d == IF Target(p, at) = "value" THEN ResolveValue(p, f, name)
                  ELSE IF MayRename(p, at) THEN ResolveType(p, f, name) ELSE Nothing
  <2>1. at \in RefPlaces(p)
    BY <1>5 DEF RefPlaces
  <2>2. f \in DOMAIN p /\ IsName(name)
    BY <2>1, ReferencePlaces
  <2>3. Search(p, at) = SearchFromReference(p, d)
    BY <1>5 DEF Search
  <2>4. Hits(p, at) = WithCursor(p, at, Search(p, at), at.file)
    BY <1>5 DEF Hits
  <2> HIDE DEF f, name
  <2>5. Means(p, f, name, d)
    <3>1. Means(p, f, name, Nothing)
      BY DEF Means
    <3> QED
      BY <2>2, <3>1, ResolveMeans
  <2> HIDE DEF d
  <2> QED
    BY <1>5, <2>3, <2>4, <2>5, SearchFromReferenceSound, WithCursorSound
<1>6. at.slot = "ref" => RefAt(p, at).kind \in SlotKinds
  BY ReferencePlaces DEF RefPlaces
<1>7. \/ Target(p, at) = "service" \/ Target(p, at) = "definition"
      \/ at.slot = "ref" /\ Target(p, at) \in {"type", "value"}
  <2>1. CASE at.slot # "ref"
    BY <2>1 DEF Target
  <2>2. CASE at.slot = "ref" /\ RefAt(p, at).kind \in TypeSlots
    BY <2>2 DEF Target
  <2>3. CASE at.slot = "ref" /\ RefAt(p, at).kind \notin TypeSlots
    <3>1. RefAt(p, at).kind = "value" \/ RefAt(p, at).kind = "extends"
      BY <1>6, <2>3 DEF SlotKinds
    <3> QED
      BY <2>3, <3>1 DEF Target, TypeSlots
  <2> QED
    BY <2>1, <2>2, <2>3
<1> QED
  BY <1>3, <1>4, <1>5, <1>7

\* The edits of a rename: one for each hit, of which those at definitions
\* are all at one, and those at one place overlap.
EditSound(p, new, e) ==
  /\ e.place \in Places(p)
  /\ e.to \in 1..Len(TextAt(p, e.place)) /\ e.from \in 1..e.to
  /\ IsName(e.text)
  /\ e.place.slot # "ref" => e.text = <<new>>
EditsSound(p, new, edits) ==
  /\ \E V : edits \in Seq(V)
  /\ \A k \in DOMAIN edits : EditSound(p, new, edits[k])
  /\ \A j, k \in DOMAIN edits :
       edits[j].place.slot # "ref" /\ edits[k].place.slot # "ref" => edits[j].place = edits[k].place
  /\ \A j, k \in DOMAIN edits :
       j # k /\ edits[j].place = edits[k].place => Overlaps(edits[j], edits[k])

\* The edits made of such hits are sound.
LEMMA EditsOfSound ==
  ASSUME NEW p, NEW hits, HitsSound(p, hits), NEW new
  PROVE  EditsSound(p, new, Edits(hits, new))
<1> DEFINE edits == Edits(hits, new)
<1>1. PICK m \in Nat : DOMAIN hits = 1..m
  BY DEF HitsSound
<1>2. /\ DOMAIN edits = 1..m
      /\ \A k \in 1..m : /\ edits[k].place = hits[k].hit.place /\ edits[k].from = hits[k].hit.from
                         /\ edits[k].to = hits[k].hit.to /\ edits[k].text = NewText(hits[k].hit, new)
  BY <1>1 DEF Edits
<1>3. \E V : edits \in Seq(V)
  <2> DEFINE V == {edits[k] : k \in 1..m}
  <2>1. edits = [k \in 1..m |-> edits[k]]
    BY <1>1 DEF Edits
  <2> HIDE DEF edits
  <2>2. edits \in [1..m -> V]
    BY <2>1
  <2> HIDE DEF V
  <2>3. edits \in Seq(V)
    BY <2>2, SeqDef
  <2> QED
    BY <2>3
<1> HIDE DEF edits
<1>4. ASSUME NEW h, HitSound(p, h)
      PROVE  IsName(NewText(h, new)) /\ (h.place.slot # "ref" => NewText(h, new) = <<new>>)
  <2>1. PICK S : h.text \in Seq(S)
    BY <1>4 DEF HitSound
  <2> DEFINE t == h.text
             n == Len(t)
             a == SubSeq(t, 1, n - 1)
             b == <<new>>
             T == S \cup {new}
  <2>2. b \in Seq(T) /\ b # <<>> /\ Len(b) = 1
    OBVIOUS
  <2>3. n \in Nat
    BY <2>1
  <2>4. CASE n > 1
    <3>1. a \in Seq(S)
      <4>1. 1 \in 1..(n + 1) /\ n - 1 \in (1 - 1)..n
        BY <2>3, <2>4
      <4> HIDE DEF n
      <4> QED
        BY <2>1, <4>1, SubSeqProperties DEF n
    <3>2. NewText(h, new) = a \o b
      BY <2>4 DEF NewText
    <3>3. h.place.slot = "ref"
      BY <1>4, <2>3, <2>4 DEF HitSound
    <3> HIDE DEF a, b
    <3>4. a \in Seq(T) /\ b \in Seq(T)
      BY <2>2, <3>1
    <3> HIDE DEF T
    <3>5. a \o b \in Seq(T) /\ Len(a \o b) = Len(a) + Len(b) /\ Len(a) \in Nat
      BY <3>4
    <3>6. a \o b # <<>>
      BY <2>2, <3>5
    <3> QED
      BY <3>2, <3>3, <3>5, <3>6 DEF IsName
  <2>5. CASE ~(n > 1)
    <3>1. NewText(h, new) = b
      BY <2>5 DEF NewText
    <3> HIDE DEF T
    <3> QED
      BY <2>2, <3>1 DEF IsName
  <2> QED
    BY <2>4, <2>5
<1>5. ASSUME NEW k \in 1..m PROVE EditSound(p, new, edits[k])
  <2>1. HitSound(p, hits[k].hit)
    BY <1>1 DEF HitsSound
  <2> QED
    BY <1>2, <1>4, <2>1 DEF HitSound, EditSound
<1>6. ASSUME NEW j \in 1..m, NEW k \in 1..m, edits[j].place.slot # "ref", edits[k].place.slot # "ref"
      PROVE  edits[j].place = edits[k].place
  BY <1>1, <1>2, <1>6 DEF HitsSound
<1>7. ASSUME NEW j \in 1..m, NEW k \in 1..m, j # k, edits[j].place = edits[k].place
      PROVE  Overlaps(edits[j], edits[k])
  BY <1>1, <1>2, <1>7 DEF HitsSound, Overlaps
<1>8. EditsSound(p, new, edits)
  BY <1>2, <1>3, <1>5, <1>6, <1>7 DEF EditsSound
<1> QED
  BY <1>8 DEF edits

\* What a rewritten name is, if edits at one place overlap and edits fit.
LEMMA RewrittenMeans ==
  ASSUME NEW p, NEW new, NEW edits, EditsSound(p, new, edits), Fits(edits), NEW place
  PROVE  /\ (\A k \in DOMAIN edits : edits[k].place # place) => Rewritten(p, edits, place) = TextAt(p, place)
         /\ \A k \in DOMAIN edits :
              edits[k].place = place => Rewritten(p, edits, place) = Edited(TextAt(p, place), edits[k])
<1> DEFINE N == Len(edits)
           t == TextAt(p, place)
           At == {k \in 1..N : edits[k].place = place}
           e == edits[CHOOSE k \in At : TRUE]
           text[k \in 0 .. Len(edits)] ==
             IF k = 0 THEN TextAt(p, place)
             ELSE IF edits[k].place = place THEN Edited(text[k - 1], edits[k])
             ELSE text[k - 1]
           Step(h) == [k \in 0..N |-> IF k = 0 THEN t
                                      ELSE IF edits[k].place = place THEN Edited(h[k - 1], edits[k])
                                      ELSE h[k - 1]]
           Eq(h) == h = Step(h)
           F == [k \in 0..N |-> IF \E j \in 1..k : j \in At THEN Edited(t, e) ELSE t]
<1>1. N \in Nat /\ DOMAIN edits = 1..N
  BY DEF EditsSound
<1>2. \A j, k \in At : j = k
  BY <1>1 DEF Fits, EditsSound
<1>3. \A k \in At : edits[k] = e
  <2>1. ASSUME NEW k \in At PROVE k = CHOOSE j \in At : TRUE
    <3>1. (CHOOSE j \in At : TRUE) \in At
      OBVIOUS
    <3> HIDE DEF At
    <3> QED
      BY <1>2, <3>1
  <2> QED
    BY <2>1
<1> HIDE DEF e, N
<1>4. Eq(F)
  <2>1. ASSUME NEW k \in 0..N
        PROVE  F[k] = IF k = 0 THEN t
                      ELSE IF edits[k].place = place THEN Edited(F[k - 1], edits[k])
                      ELSE F[k - 1]
    <3>1. CASE k = 0
      BY <3>1
    <3>2. CASE k # 0 /\ edits[k].place = place
      <4>1. k \in At /\ k - 1 \in 0..N /\ k \in 1..k
        BY <1>1, <3>2
      <4>2. edits[k] = e /\ ~ \E j \in 1..(k - 1) : j \in At
        <5> HIDE DEF At
        <5>1. \A j \in 1..(k - 1) : j # k
          BY <1>1
        <5> QED
          BY <1>2, <1>3, <4>1, <5>1
      <4>3. F[k - 1] = t
        BY <4>1, <4>2
      <4>4. F[k] = Edited(t, e)
        BY <4>1
      <4> QED
        BY <3>2, <4>2, <4>3, <4>4
    <3>3. CASE k # 0 /\ edits[k].place # place
      <4>1. k \notin At /\ k - 1 \in 0..N
        BY <1>1, <3>3
      <4>2. (\E j \in 1..k : j \in At) <=> (\E j \in 1..(k - 1) : j \in At)
        <5> HIDE DEF At
        <5>1. \A j \in 1..k : j = k \/ j \in 1..(k - 1)
          BY <1>1
        <5>2. \A j \in 1..(k - 1) : j \in 1..k
          BY <1>1
        <5> QED
          BY <4>1, <5>1, <5>2
      <4> HIDE DEF At
      <4>3. F[k] = F[k - 1]
        BY <4>1, <4>2
      <4> QED
        BY <3>3, <4>3
    <3> QED
      BY <3>1, <3>2, <3>3
  <2> HIDE DEF At, t
  <2>2. F = [k \in 0..N |-> F[k]]
    OBVIOUS
  <2> HIDE DEF F
  <2> QED
    BY <2>1, <2>2
<1>5. Eq(CHOOSE h : Eq(h))
  <2> HIDE DEF Eq
  <2> QED
    BY <1>4
<1>6. Eq(text)
  BY <1>5 DEF N
<1>7. Rewritten(p, edits, place) = text[N]
  BY DEF Rewritten, N
<1> DEFINE h == text
<1>8. Eq(h) /\ Rewritten(p, edits, place) = h[N]
  BY <1>6, <1>7
<1> HIDE DEF h
<1> DEFINE T == {k \in 0..N : h[k] = F[k]}
<1>9. 0 \in T
  <2>1. 0 \in 0..N /\ F[0] = t
    BY <1>1
  <2> HIDE DEF F
  <2> QED
    BY <1>8, <2>1
<1>10. ASSUME NEW k \in 1..N, k - 1 \in T PROVE k \in T
  <2> HIDE DEF F
  <2>1. k \in 0..N /\ k # 0 /\ h[k - 1] = F[k - 1]
    BY <1>1, <1>10
  <2>2. h[k] = IF edits[k].place = place THEN Edited(h[k - 1], edits[k]) ELSE h[k - 1]
    BY <1>8, <2>1
  <2>3. F[k] = IF edits[k].place = place THEN Edited(F[k - 1], edits[k]) ELSE F[k - 1]
    BY <1>4, <2>1
  <2> QED
    BY <2>1, <2>2, <2>3
<1>11. 0..N \subseteq T
  <2> HIDE DEF T
  <2> QED
    BY <1>1, <1>9, <1>10, BoundedInduction
<1>12. Rewritten(p, edits, place) = F[N] /\ N \in 0..N
  <2> HIDE DEF F
  <2> QED
    BY <1>1, <1>8, <1>11
<1>13. Rewritten(p, edits, place) = IF \E j \in 1..N : j \in At THEN Edited(t, e) ELSE t
  BY <1>12
<1> QED
  BY <1>1, <1>3, <1>13

\* What an edit makes of a name is a name.
LEMMA EditedIsName ==
  ASSUME NEW p, IsProject(p), IsNamed(p), NEW new, NEW e, EditSound(p, new, e)
  PROVE  /\ IsName(Edited(TextAt(p, e.place), e))
         /\ e.place.slot # "ref" => Edited(TextAt(p, e.place), e) = <<new>>
<1> DEFINE t == TextAt(p, e.place)
           n == Len(t)
           a == SubSeq(t, 1, e.from - 1)
           b == SubSeq(t, e.to + 1, n)
<1>1. /\ IsName(t) /\ n \in Nat
      /\ e.place.slot # "ref" => \E x : t = <<x>>
  BY TextIsName DEF EditSound
<1>2. /\ e.to \in 1..n /\ e.from \in 1..e.to
      /\ IsName(e.text)
      /\ e.place.slot # "ref" => e.text = <<new>>
  BY DEF EditSound
<1>3. Edited(t, e) = (a \o e.text) \o b
  BY DEF Edited, After
<1>4. PICK S : t \in Seq(S)
  BY <1>1 DEF IsName
<1>5. PICK R : e.text \in Seq(R)
  BY <1>2 DEF IsName
<1> DEFINE T == S \cup R
<1>6. a \in Seq(S) /\ b \in Seq(S) /\ Len(a) = e.from - 1 /\ Len(b) = n - e.to
  <2>1. 1 \in 1..(n + 1) /\ e.from - 1 \in (1 - 1)..n /\ (e.from - 1) - 1 + 1 = e.from - 1
    BY <1>1, <1>2
  <2>2. e.to + 1 \in 1..(n + 1) /\ n \in (e.to + 1 - 1)..n /\ n - (e.to + 1) + 1 = n - e.to
    BY <1>1, <1>2
  <2> DEFINE m == n
  <2> HIDE DEF t, m
  <2>3. a \in Seq(S) /\ Len(a) = (e.from - 1) - 1 + 1
    BY <1>4, <2>1, SubSeqProperties
  <2>4. b \in Seq(S) /\ Len(b) = n - (e.to + 1) + 1
    BY <1>4, <2>2, SubSeqProperties
  <2> QED
    BY <2>1, <2>2, <2>3, <2>4
<1> HIDE DEF a, b, t
<1>7. a \in Seq(T) /\ b \in Seq(T) /\ e.text \in Seq(T)
  BY <1>5, <1>6
<1> HIDE DEF T
<1>8. (a \o e.text) \o b \in Seq(T) /\ Len((a \o e.text) \o b) = Len(a) + Len(e.text) + Len(b)
  BY <1>7
<1>9. Len(e.text) \in Nat /\ Len(e.text) > 0 /\ Len(a) \in Nat /\ Len(b) \in Nat
  BY <1>2, <1>5, <1>7 DEF IsName
<1>10. IsName(Edited(t, e))
  <2>1. (a \o e.text) \o b # <<>>
    BY <1>8, <1>9
  <2> QED
    BY <1>3, <1>8, <2>1 DEF IsName
<1>11. ASSUME e.place.slot # "ref" PROVE Edited(t, e) = <<new>>
  <2>1. n = 1
    BY <1>1, <1>11
  <2>2. e.to = 1 /\ e.from = 1
    BY <1>2, <2>1
  <2>3. Len(a) = 0 /\ Len(b) = 0
    BY <1>6, <2>1, <2>2
  <2>4. a = <<>> /\ b = <<>>
    BY <1>7, <2>3
  <2>5. (<<>> \o e.text) \o <<>> = e.text
    BY <1>5
  <2> QED
    BY <1>2, <1>3, <1>11, <2>4, <2>5
<1> QED
  BY <1>10, <1>11 DEF t

\* What the edits make of a project: the places stay, and the names at them
\* are the rewritten ones.
LEMMA MadeMeans ==
  ASSUME NEW p, IsProject(p), NEW edits
  PROVE  LET q == Made(p, edits)
         IN  /\ DOMAIN q = DOMAIN p
             /\ \A f \in DOMAIN p :
                  /\ DOMAIN q[f].nodes = DOMAIN p[f].nodes
                  /\ \A n \in DOMAIN p[f].nodes :
                       /\ q[f].nodes[n].name = Rewritten(p, edits, Place(f, n, "name", 0))[1]
                       /\ DOMAIN q[f].nodes[n].members = DOMAIN p[f].nodes[n].members
                       /\ \A i \in DOMAIN p[f].nodes[n].members :
                            q[f].nodes[n].members[i] = Rewritten(p, edits, Place(f, n, "member", i))[1]
                       /\ DOMAIN q[f].nodes[n].refs = DOMAIN p[f].nodes[n].refs
                       /\ \A i \in DOMAIN p[f].nodes[n].refs :
                            q[f].nodes[n].refs[i].name = Rewritten(p, edits, Place(f, n, "ref", i))
<1> DEFINE text(f, n, slot, i) == Rewritten(p, edits, Place(f, n, slot, i))
           refs(f, n) == [i \in DOMAIN p[f].nodes[n].refs |->
                            [p[f].nodes[n].refs[i] EXCEPT !.name = text(f, n, "ref", i)]]
           members(f, n) == [i \in DOMAIN p[f].nodes[n].members |-> text(f, n, "member", i)[1]]
           node(f, n) == Node(p[f].nodes[n].kind, text(f, n, "name", 0)[1], members(f, n), refs(f, n))
           q == Made(p, edits)
<1>1. q = [f \in DOMAIN p |-> [p[f] EXCEPT !.nodes = [n \in DOMAIN @ |-> node(f, n)]]]
  BY DEF Made
<1>2. \A f, n : /\ node(f, n).refs = refs(f, n) /\ node(f, n).members = members(f, n)
                /\ node(f, n).name = text(f, n, "name", 0)[1]
  BY DEF Node
<1>3. \A f, n : /\ DOMAIN members(f, n) = DOMAIN p[f].nodes[n].members
                /\ \A i \in DOMAIN p[f].nodes[n].members : members(f, n)[i] = text(f, n, "member", i)[1]
                /\ DOMAIN refs(f, n) = DOMAIN p[f].nodes[n].refs
                /\ \A i \in DOMAIN p[f].nodes[n].refs :
                     refs(f, n)[i] = [p[f].nodes[n].refs[i] EXCEPT !.name = text(f, n, "ref", i)]
  OBVIOUS
<1> HIDE DEF node, q, refs, members
<1>4. DOMAIN q = DOMAIN p
  BY <1>1
<1>5. ASSUME NEW f \in DOMAIN p
      PROVE  /\ DOMAIN q[f].nodes = DOMAIN p[f].nodes
             /\ \A n \in DOMAIN p[f].nodes : q[f].nodes[n] = node(f, n)
  <2> DEFINE a == p[f]
             b == q[f]
             nodes == [n \in DOMAIN a.nodes |-> node(f, n)]
  <2>1. HoldsNodes(a)
    BY DEF IsProject
  <2>2. b = [a EXCEPT !.nodes = nodes]
    BY <1>1
  <2>3. DOMAIN nodes = DOMAIN a.nodes /\ \A n \in DOMAIN a.nodes : nodes[n] = node(f, n)
    OBVIOUS
  <2> HIDE DEF a, b, nodes
  <2>4. b.nodes = nodes
    BY <2>1, <2>2 DEF HoldsNodes
  <2> QED
    BY <2>3, <2>4 DEF a, b
<1>6. ASSUME NEW f \in DOMAIN p, NEW n \in DOMAIN p[f].nodes, NEW i \in DOMAIN p[f].nodes[n].refs
      PROVE  refs(f, n)[i].name = text(f, n, "ref", i)
  <2> DEFINE a == p[f].nodes[n].refs[i]
             t == text(f, n, "ref", i)
  <2>1. HasReferences(p[f].nodes[n].refs)
    BY DEF IsProject, HoldsNodes
  <2>2. a \in [kind : SlotKinds, name : {a.name}]
    BY <2>1 DEF HasReferences
  <2>3. refs(f, n)[i] = [a EXCEPT !.name = t]
    BY <1>3
  <2> HIDE DEF a, t
  <2>4. refs(f, n)[i].name = t
    BY <2>2, <2>3
  <2> QED
    BY <2>4 DEF t
<1>7. ASSUME NEW f \in DOMAIN p, NEW n \in DOMAIN p[f].nodes
      PROVE  /\ q[f].nodes[n].name = text(f, n, "name", 0)[1]
             /\ DOMAIN q[f].nodes[n].members = DOMAIN p[f].nodes[n].members
             /\ \A i \in DOMAIN p[f].nodes[n].members :
                  q[f].nodes[n].members[i] = text(f, n, "member", i)[1]
             /\ DOMAIN q[f].nodes[n].refs = DOMAIN p[f].nodes[n].refs
             /\ \A i \in DOMAIN p[f].nodes[n].refs :
                  q[f].nodes[n].refs[i].name = text(f, n, "ref", i)
  BY <1>2, <1>3, <1>5, <1>6
<1> QED
  BY <1>4, <1>5, <1>7 DEF q

\* What a name is after the edits.
LEMMA RewrittenNames ==
  ASSUME NEW p, IsProject(p), IsNamed(p), NEW new, NEW edits, EditsSound(p, new, edits), Fits(edits),
         NEW place \in Places(p)
  PROVE  LET t == Rewritten(p, edits, place)
         IN  /\ IsName(t)
             /\ place.slot # "ref" => IF \E k \in DOMAIN edits : edits[k].place = place THEN t = <<new>>
                                      ELSE t = TextAt(p, place)
<1> DEFINE t == Rewritten(p, edits, place)
<1>1. IsName(TextAt(p, place))
  BY TextIsName
<1>2. CASE \E k \in DOMAIN edits : edits[k].place = place
  <2>1. PICK k \in DOMAIN edits : edits[k].place = place
    BY <1>2
  <2>2. t = Edited(TextAt(p, place), edits[k])
    BY <2>1, RewrittenMeans
  <2>3. EditSound(p, new, edits[k])
    BY DEF EditsSound
  <2> DEFINE e == edits[k]
  <2> HIDE DEF e, t
  <2>4. t = Edited(TextAt(p, e.place), e) /\ EditSound(p, new, e) /\ e.place = place
    BY <2>1, <2>2, <2>3 DEF e
  <2>5. IsName(t) /\ (e.place.slot # "ref" => t = <<new>>)
    BY <2>4, EditedIsName
  <2> QED
    BY <1>2, <2>4, <2>5 DEF t
<1>3. CASE ~ \E k \in DOMAIN edits : edits[k].place = place
  <2>1. t = TextAt(p, place)
    BY <1>3, RewrittenMeans
  <2> QED
    BY <1>1, <1>3, <2>1
<1> QED
  BY <1>2, <1>3

\* After sound edits that fit every name is a name.
LEMMA MadeIsNamed ==
  ASSUME NEW p, IsProject(p), IsNamed(p), NEW new, NEW edits, EditsSound(p, new, edits), Fits(edits)
  PROVE  IsNamed(Made(p, edits))
<1> DEFINE q == Made(p, edits)
<1>1. DOMAIN q = DOMAIN p
  BY MadeMeans
<1>2. ASSUME NEW f \in DOMAIN p PROVE DOMAIN q[f].nodes = DOMAIN p[f].nodes
  BY MadeMeans
<1>3. ASSUME NEW f \in DOMAIN p, NEW n \in DOMAIN p[f].nodes
      PROVE  \E m \in Nat : DOMAIN q[f].nodes[n].members = 1..m
  <2>1. DOMAIN q[f].nodes[n].members = DOMAIN p[f].nodes[n].members
    BY MadeMeans
  <2> QED
    BY <2>1 DEF IsNamed
<1>4. ASSUME NEW f \in DOMAIN p, NEW n \in DOMAIN p[f].nodes, NEW i \in DOMAIN q[f].nodes[n].refs
      PROVE  IsName(q[f].nodes[n].refs[i].name)
  <2>1. i \in DOMAIN p[f].nodes[n].refs
    BY MadeMeans
  <2>2. q[f].nodes[n].refs[i].name = Rewritten(p, edits, Place(f, n, "ref", i))
    BY <2>1, MadeMeans
  <2>3. Place(f, n, "ref", i) \in Places(p)
    BY <2>1, ReferencePlaces DEF RefPlaces
  <2> HIDE DEF q
  <2> QED
    BY <2>2, <2>3, RewrittenNames
<1> HIDE DEF q
<1>5. IsNamed(q)
  BY <1>1, <1>2, <1>3, <1>4 DEF IsNamed
<1> QED
  BY <1>5 DEF q

\* Two projects that differ in nothing but names.
SameShape(p, q) ==
  /\ DOMAIN q = DOMAIN p
  /\ \A f \in DOMAIN p :
       /\ q[f].includes = p[f].includes
       /\ DOMAIN q[f].nodes = DOMAIN p[f].nodes
       /\ \A n \in DOMAIN p[f].nodes :
            /\ q[f].nodes[n].kind = p[f].nodes[n].kind
            /\ DOMAIN q[f].nodes[n].members = DOMAIN p[f].nodes[n].members
            /\ DOMAIN q[f].nodes[n].refs = DOMAIN p[f].nodes[n].refs
            /\ \A i \in DOMAIN p[f].nodes[n].refs :
                 q[f].nodes[n].refs[i].kind = p[f].nodes[n].refs[i].kind

\* Edits change nothing but names.
LEMMA MadeShape ==
  ASSUME NEW p, IsProject(p), NEW edits
  PROVE  SameShape(p, Made(p, edits))
<1> DEFINE text(f, n, slot, i) == Rewritten(p, edits, Place(f, n, slot, i))
           refs(f, n) == [i \in DOMAIN p[f].nodes[n].refs |->
                            [p[f].nodes[n].refs[i] EXCEPT !.name = text(f, n, "ref", i)]]
           members(f, n) == [i \in DOMAIN p[f].nodes[n].members |-> text(f, n, "member", i)[1]]
           node(f, n) == Node(p[f].nodes[n].kind, text(f, n, "name", 0)[1], members(f, n), refs(f, n))
           q == Made(p, edits)
<1>1. q = [f \in DOMAIN p |-> [p[f] EXCEPT !.nodes = [n \in DOMAIN @ |-> node(f, n)]]]
  BY DEF Made
<1>2. \A f, n : node(f, n).kind = p[f].nodes[n].kind /\ node(f, n).refs = refs(f, n)
  BY DEF Node
<1>3. \A f, n : \A i \in DOMAIN p[f].nodes[n].refs :
        refs(f, n)[i] = [p[f].nodes[n].refs[i] EXCEPT !.name = text(f, n, "ref", i)]
  OBVIOUS
<1>4. /\ DOMAIN q = DOMAIN p
      /\ \A f \in DOMAIN p :
           /\ DOMAIN q[f].nodes = DOMAIN p[f].nodes
           /\ \A n \in DOMAIN p[f].nodes :
                /\ DOMAIN q[f].nodes[n].members = DOMAIN p[f].nodes[n].members
                /\ DOMAIN q[f].nodes[n].refs = DOMAIN p[f].nodes[n].refs
  BY MadeMeans
<1> HIDE DEF node, q, refs, members
<1>5. ASSUME NEW f \in DOMAIN p
      PROVE  /\ q[f].includes = p[f].includes
             /\ \A n \in DOMAIN p[f].nodes : q[f].nodes[n] = node(f, n)
  <2> DEFINE a == p[f]
             b == q[f]
             nodes == [n \in DOMAIN a.nodes |-> node(f, n)]
  <2>1. HoldsNodes(a)
    BY DEF IsProject
  <2>2. b = [a EXCEPT !.nodes = nodes]
    BY <1>1
  <2>3. \A n \in DOMAIN a.nodes : nodes[n] = node(f, n)
    OBVIOUS
  <2> HIDE DEF a, b, nodes
  <2>4. b.nodes = nodes /\ b.includes = a.includes
    BY <2>1, <2>2 DEF HoldsNodes
  <2> QED
    BY <2>3, <2>4 DEF a, b
<1>6. ASSUME NEW f \in DOMAIN p, NEW n \in DOMAIN p[f].nodes, NEW i \in DOMAIN p[f].nodes[n].refs
      PROVE  refs(f, n)[i].kind = p[f].nodes[n].refs[i].kind
  <2> DEFINE a == p[f].nodes[n].refs[i]
             t == text(f, n, "ref", i)
  <2>1. HasReferences(p[f].nodes[n].refs)
    BY DEF IsProject, HoldsNodes
  <2>2. a \in [kind : SlotKinds, name : {a.name}]
    BY <2>1 DEF HasReferences
  <2>3. refs(f, n)[i] = [a EXCEPT !.name = t]
    BY <1>3
  <2> HIDE DEF a, t
  <2>4. refs(f, n)[i].kind = a.kind
    BY <2>2, <2>3
  <2> QED
    BY <2>4 DEF a
<1>7. SameShape(p, q)
  BY <1>2, <1>4, <1>5, <1>6 DEF SameShape
<1> QED
  BY <1>7 DEF q

\* Projects of one shape have the same places.
LEMMA SamePlaces ==
  ASSUME NEW p, NEW q, SameShape(p, q)
  PROVE  Places(q) = Places(p)
<1>1. ASSUME NEW place PROVE IsPlace(q, place) <=> IsPlace(p, place)
  BY DEF SameShape, IsPlace
<1> QED
  BY <1>1, PlacesAre

\* The names of definitions after the edits.
LEMMA MadeTexts ==
  ASSUME NEW p, IsProject(p), IsNamed(p), NEW new, NEW edits, EditsSound(p, new, edits), Fits(edits)
  PROVE  LET q == Made(p, edits)
         IN  \A place \in Places(p) :
               IF place.slot = "ref" THEN TextAt(q, place) = Rewritten(p, edits, place)
               ELSE IF \E k \in DOMAIN edits : edits[k].place = place THEN TextAt(q, place) = <<new>>
               ELSE TextAt(q, place) = TextAt(p, place)
<1> DEFINE q == Made(p, edits)
           t(place) == Rewritten(p, edits, place)
           Hit1(place) == \E k \in DOMAIN edits : edits[k].place = place
<1>1. SUFFICES ASSUME NEW place \in Places(p)
               PROVE  IF place.slot = "ref" THEN TextAt(q, place) = t(place)
                      ELSE IF Hit1(place) THEN TextAt(q, place) = <<new>>
                      ELSE TextAt(q, place) = TextAt(p, place)
  OBVIOUS
<1>2. IsPlace(p, place)
  BY PlacesAre
<1>3. PICK f \in DOMAIN p : \E n \in DOMAIN p[f].nodes :
        \/ place = Place(f, n, "name", 0)
        \/ \E i \in DOMAIN p[f].nodes[n].members : place = Place(f, n, "member", i)
        \/ \E i \in DOMAIN p[f].nodes[n].refs : place = Place(f, n, "ref", i)
  BY <1>2 DEF IsPlace
<1>4. PICK n \in DOMAIN p[f].nodes :
        \/ place = Place(f, n, "name", 0)
        \/ \E i \in DOMAIN p[f].nodes[n].members : place = Place(f, n, "member", i)
        \/ \E i \in DOMAIN p[f].nodes[n].refs : place = Place(f, n, "ref", i)
  BY <1>3
<1>5. \A slot, i : /\ Place(f, n, slot, i).file = f /\ Place(f, n, slot, i).node = n
                   /\ Place(f, n, slot, i).slot = slot /\ Place(f, n, slot, i).at = i
  BY DEF Place
<1>6. place.slot # "ref" => \E x : TextAt(p, place) = <<x>>
  BY TextIsName
<1>7. place.slot # "ref" => IF Hit1(place) THEN t(place) = <<new>> ELSE t(place) = TextAt(p, place)
  BY RewrittenNames
<1> HIDE DEF t, Hit1
<1>8. place.slot # "ref" => <<t(place)[1]>> = t(place)
  <2>1. \A x : <<x>>[1] = x
    OBVIOUS
  <2>2. place.slot # "ref" => \E x : t(place) = <<x>>
    BY <1>6, <1>7
  <2> QED
    BY <2>1, <2>2
<1>9. CASE place = Place(f, n, "name", 0)
  <2>1. q[f].nodes[n].name = t(place)[1]
    BY <1>9, MadeMeans DEF t
  <2> HIDE DEF q
  <2>2. TextAt(q, place) = <<t(place)[1]>> /\ place.slot = "name"
    BY <1>5, <1>9, <2>1 DEF TextAt, NodeAt
  <2> QED
    BY <1>7, <1>8, <2>2
<1>10. ASSUME NEW i \in DOMAIN p[f].nodes[n].members, place = Place(f, n, "member", i)
       PROVE  IF place.slot = "ref" THEN TextAt(q, place) = t(place)
              ELSE IF Hit1(place) THEN TextAt(q, place) = <<new>>
              ELSE TextAt(q, place) = TextAt(p, place)
  <2>1. q[f].nodes[n].members[i] = t(place)[1]
    BY <1>10, MadeMeans DEF t
  <2> HIDE DEF q
  <2>2. TextAt(q, place) = <<t(place)[1]>> /\ place.slot = "member"
    BY <1>5, <1>10, <2>1 DEF TextAt, NodeAt
  <2> QED
    BY <1>7, <1>8, <2>2
<1>11. ASSUME NEW i \in DOMAIN p[f].nodes[n].refs, place = Place(f, n, "ref", i)
       PROVE  place.slot = "ref" /\ TextAt(q, place) = t(place)
  <2>1. q[f].nodes[n].refs[i].name = t(place)
    BY <1>11, MadeMeans DEF t
  <2> HIDE DEF q
  <2> QED
    BY <1>5, <1>11, <2>1 DEF TextAt, RefAt, NodeAt
<1> QED
  BY <1>4, <1>9, <1>10, <1>11

\* A definition gets a name that is free, or keeps its own.
LEMMA MadeApart ==
  ASSUME NEW p, IsProject(p), IsNamed(p), NamesApart(p), NEW new, Free(p, new),
         NEW edits, EditsSound(p, new, edits), Fits(edits)
  PROVE  NamesApart(Made(p, edits))
<1> DEFINE q == Made(p, edits)
           Hit1(place) == \E k \in DOMAIN edits : edits[k].place = place
<1>1. ASSUME NEW place \in Places(q), place.slot # "ref"
      PROVE  /\ place \in Places(p)
             /\ IF Hit1(place) THEN TextAt(q, place) = <<new>> ELSE TextAt(q, place) = TextAt(p, place)
  <2>1. Places(q) = Places(p)
    BY MadeShape, SamePlaces
  <2> QED
    BY <1>1, <2>1, MadeTexts
<1>2. \A d, e \in Places(p) : d.slot # "ref" /\ e.slot # "ref" /\ Hit1(d) /\ Hit1(e) => d = e
  BY DEF EditsSound
<1>3. \A d \in Places(p) : TextAt(p, d) # <<new>>
  <2> SUFFICES ASSUME NEW d \in Places(p), TextAt(p, d) = <<new>> PROVE FALSE
    OBVIOUS
  <2>1. Contains(<<new>>, new)
    BY DEF Contains
  <2> QED
    BY <2>1 DEF Free
<1> HIDE DEF q, Hit1
<1>4. NamesApart(q)
  <2> SUFFICES ASSUME NEW d \in Places(q), NEW e \in Places(q), d.slot # "ref", e.slot # "ref",
                      d.file = e.file, d # e
               PROVE  TextAt(q, d) # TextAt(q, e)
    BY DEF NamesApart
  <2>1. d \in Places(p) /\ e \in Places(p)
    BY <1>1
  <2>2. TextAt(p, d) # TextAt(p, e)
    BY <2>1 DEF NamesApart
  <2> QED
    BY <1>1, <1>2, <1>3, <2>1, <2>2
<1> QED
  BY <1>4 DEF q

\* The edits of a rename are those of hits in the project, with a free name.
RenameSound ==
  answer.to = "rename" => \E new : Free(project, new) /\ EditsSound(project, new, answer.edits)

\* In the projects to start with every name is a name.
LEMMA ProjectsNamed == \A p \in Projects : IsNamed(p)
<1> SUFFICES ASSUME NEW p \in Projects PROVE IsNamed(p)
  OBVIOUS
<1> DEFINE Ref == [kind : SlotKinds, name : Seq(STRING) \ {<<>>}]
           ANode == [kind : STRING, name : STRING, members : Seq(STRING), refs : Seq(Ref)]
<1>1. ASSUME NEW f \in DOMAIN p, NEW n \in DOMAIN p[f].nodes
      PROVE  /\ \E m \in Nat : DOMAIN p[f].nodes[n].members = 1..m
             /\ \A i \in DOMAIN p[f].nodes[n].refs : IsName(p[f].nodes[n].refs[i].name)
  <2>1. p[f] \in [includes : Seq(Files), nodes : Seq(ANode)]
    BY ProjectsAssumption
  <2> HIDE DEF ANode
  <2>2. p[f].nodes[n] \in ANode
    BY <2>1
  <2> DEFINE node == p[f].nodes[n]
  <2> HIDE DEF Ref, node
  <2>3. node.members \in Seq(STRING) /\ node.refs \in Seq(Ref)
    BY <2>2 DEF ANode, node
  <2>4. DOMAIN node.members = 1..Len(node.members) /\ Len(node.members) \in Nat
    BY <2>3
  <2>5. \A i \in DOMAIN node.refs : node.refs[i] \in Ref
    BY <2>3
  <2>6. \A r \in Ref : IsName(r.name)
    BY DEF Ref, IsName
  <2> QED
    BY <2>4, <2>5, <2>6 DEF node
<1> QED
  BY <1>1 DEF IsNamed

\* However files include each other and whatever was renamed before:
\* References answers with all references to what the one under the cursor
\* means, and with nothing else, if the names in every file differ.
THEOREM ReferencesAreExact ==
  ASSUME \A p \in Projects : NamesApart(p)
  PROVE  Spec => []ReferencesExact
<1> DEFINE Inv == /\ IsProject(project) /\ IsNamed(project) /\ NamesApart(project)
                  /\ RenameSound /\ ReferencesExact
<1>1. IsFiniteSet(Files)
  BY ProjectsAssumption
<1>2. Init => Inv
  BY ProjectsAreProjects, ProjectsNamed DEF Init, RenameSound, ReferencesExact, Silent
<1>3. ASSUME Inv, [Next]_vars PROVE Inv'
  <2>1. ASSUME NEW place \in Places(project), AskReferences(place) PROVE Inv'
    <3>1. project' = project /\ answer' = [to |-> "references", at |-> place, hits |-> Search(project, place)]
      BY <2>1 DEF AskReferences
    <3>2. IsExact(project, AskedFor(project, place), Search(project, place))
      BY <1>1, <1>3, SearchExact
    <3>3. answer'.at = place /\ answer'.hits = Search(project, place) /\ answer'.to # "rename"
      BY <3>1
    <3>4. IsExact(project', AskedFor(project', answer'.at), answer'.hits)
      BY <3>1, <3>2, <3>3
    <3>5. ReferencesExact'
      BY <3>4 DEF ReferencesExact, IsExact, AskedFor, Whole, Excused, KindsAt
    <3> QED
      BY <1>3, <3>1, <3>3, <3>5 DEF RenameSound
  <2>2. ASSUME NEW place \in Places(project), NEW new \in NewNames, AskRename(place, new)
        PROVE  Inv'
    <3>1. /\ project' = project /\ Free(project, new)
          /\ answer' = [to |-> "rename", at |-> place, edits |-> Edits(Hits(project, place), new)]
      BY <2>2 DEF AskRename
    <3>2. HitsSound(project, Hits(project, place))
      BY <1>1, <1>3, RenameHitsSound
    <3>3. EditsSound(project, new, Edits(Hits(project, place), new))
      BY <3>2, EditsOfSound
    <3>4. answer'.edits = Edits(Hits(project, place), new) /\ answer'.to # "references"
      BY <3>1
    <3>5. RenameSound' /\ ReferencesExact'
      BY <3>1, <3>3, <3>4 DEF RenameSound, ReferencesExact
    <3> QED
      BY <1>3, <3>1, <3>5
  <2>3. CASE Apply
    <3>1. /\ Fits(answer.edits) /\ project' = Made(project, answer.edits)
          /\ answer.to = "rename" /\ answer'.to = "nothing"
      BY <2>3 DEF Apply, Silent
    <3>2. PICK new : Free(project, new) /\ EditsSound(project, new, answer.edits)
      BY <1>3, <3>1 DEF RenameSound
    <3>3. IsProject(project') /\ IsNamed(project') /\ NamesApart(project')
      BY <1>3, <3>1, <3>2, MadeIsProject, MadeIsNamed, MadeApart
    <3>4. RenameSound' /\ ReferencesExact'
      BY <3>1 DEF RenameSound, ReferencesExact
    <3> QED
      BY <3>3, <3>4
  <2>4. CASE UNCHANGED vars
    BY <1>3, <2>4 DEF vars, RenameSound, ReferencesExact
  <2> QED
    BY <1>3, <2>1, <2>2, <2>3, <2>4 DEF Next
<1> QED
  BY <1>2, <1>3, PTL DEF Spec

-----------------------------------------------------------------------------
(***************************************************************************)
(* What names mean before and after a rename.                              *)
(***************************************************************************)
\* The loop of visit sees the includes of a file and nothing else of it.
VisitedBy(includes, call, seen) ==
  LET after[i \in 0 .. Len(includes)] ==
        LET h == includes[i]
        IN  IF i = 0 THEN seen
            ELSE IF Contains(after[i - 1], h) THEN after[i - 1]
            ELSE call[h][Append(after[i - 1], h)]
  IN  after[Len(includes)]

\* So that is all that Visited depends on.
LEMMA VisitedIncludes ==
  ASSUME NEW p, NEW call, NEW g, NEW seen
  PROVE  Visited(p, call, g, seen) = VisitedBy(p[g].includes, call, seen)
BY DEF Visited, VisitedBy

\* Files of one shape lead to the same files, in the same order.
LEMMA SameVisit ==
  ASSUME NEW p, NEW q, IsGraph(p), IsGraph(q), IsFiniteSet(Files), SameShape(p, q), NEW f, NEW order
  PROVE  Visit(q, f, order) = Visit(p, f, order)
<1> DEFINE N == Cardinality(Files)
<1>1. N \in Nat
  BY FS_CardinalityType
<1>2. PICK a : IsVisits(a, p, N) /\ \A g, c : Visit(p, g, c) = a[N][g][c]
  BY VisitRecursion
<1>3. PICK b : IsVisits(b, q, N) /\ \A g, c : Visit(q, g, c) = b[N][g][c]
  BY VisitRecursion
<1>4. ASSUME NEW call PROVE Revisited(q, call) = Revisited(p, call)
  <2>1. DOMAIN q = DOMAIN p
    BY DEF SameShape
  <2>2. \A g \in DOMAIN p : \A seen : Visited(q, call, g, seen) = Visited(p, call, g, seen)
    <3>1. \A g \in DOMAIN p : q[g].includes = p[g].includes
      BY DEF SameShape
    <3> QED
      BY <3>1, VisitedIncludes
  <2> QED
    BY <2>1, <2>2 DEF Revisited
<1> HIDE DEF N
<1> DEFINE T == {n \in 0..N : b[n] = a[n]}
<1>5. 0 \in T
  BY <1>1, <1>2, <1>3 DEF IsVisits
<1>6. ASSUME NEW n \in 1..N, n - 1 \in T PROVE n \in T
  <2>1. a[n] = Revisited(p, a[n - 1]) /\ b[n] = Revisited(q, b[n - 1]) /\ b[n - 1] = a[n - 1]
    BY <1>2, <1>3, <1>6 DEF IsVisits
  <2>2. n \in 0..N
    BY <1>1
  <2> QED
    BY <1>4, <2>1, <2>2
<1>7. 0..N \subseteq T
  <2> HIDE DEF T
  <2> QED
    BY <1>1, <1>5, <1>6, BoundedInduction
<1>8. b[N] = a[N]
  BY <1>1, <1>7
<1> QED
  BY <1>2, <1>3, <1>8

-----------------------------------------------------------------------------
\* What a name is looked up as, and what a file has for it.
Sorts == {"type", "value", "service"}
In(p, sort, g, id) ==
  CASE sort = "type"    -> OfKind(Definitions(p, g, id), TypeKinds)
    [] sort = "value"   -> OrElse(EnumValues(p, g, id), OfKind(Definitions(p, g, id), {"const"}))
    [] sort = "service" -> OfKind(Definitions(p, g, id), {"service"})

\* A place where a name of a sort is defined in a file.
Suits(p, sort, place) ==
  CASE sort = "type"    -> place.slot = "name" /\ NodeAt(p, place).kind \in TypeKinds
    [] sort = "value"   -> place.slot = "member" \/ NodeAt(p, place).kind = "const"
    [] sort = "service" -> place.slot = "name" /\ NodeAt(p, place).kind = "service"
Spot(p, sort, g, id, place) ==
  /\ place \in Places(p) /\ place.slot # "ref" /\ place.file = g
  /\ TextAt(p, place) = <<id>> /\ Suits(p, sort, place)

\* Definitions of one name: if there is one, one is found.
LEMMA DefinitionsFound ==
  ASSUME NEW p, IsProject(p), NEW g \in DOMAIN p, NEW n \in DOMAIN p[g].nodes
  PROVE  Definitions(p, g, <<p[g].nodes[n].name>>) # Nothing
<1>1. n \in {m \in DOMAIN p[g].nodes : <<p[g].nodes[m].name>> = <<p[g].nodes[n].name>>}
  OBVIOUS
<1>2. \A m : Definition(p, g, m) # Nothing
  BY DEF Definition, Nothing
<1> QED
  BY <1>1, <1>2 DEF Definitions

\* Members of one name: if there is one, one is found.
LEMMA EnumValuesFound ==
  ASSUME NEW p, IsProject(p), NEW g \in DOMAIN p, NEW n \in DOMAIN p[g].nodes,
         NEW i \in DOMAIN p[g].nodes[n].members
  PROVE  EnumValues(p, g, <<p[g].nodes[n].members[i]>>) # Nothing
<1> DEFINE id == <<p[g].nodes[n].members[i]>>
           within(m) == {j \in DOMAIN p[g].nodes[m].members : <<p[g].nodes[m].members[j]>> = id}
           enums == {m \in DOMAIN p[g].nodes : within(m) # {}}
<1>1. n \in enums
  OBVIOUS
<1>2. \A m, j : Member(p, g, m, j) # Nothing
  BY DEF Member, Nothing
<1>3. EnumValues(p, g, id) = IF enums = {} THEN Nothing ELSE Member(p, g, Max(enums), Max(within(Max(enums))))
  BY DEF EnumValues
<1> HIDE DEF enums, within
<1> QED
  BY <1>1, <1>2, <1>3

\* What is found in a file stands where such a name is defined.
LEMMA InStands ==
  ASSUME NEW p, IsProject(p), IsNamed(p), NEW g \in DOMAIN p, NEW id, NEW sort \in Sorts,
         In(p, sort, g, <<id>>) # Nothing
  PROVE  LET d == In(p, sort, g, <<id>>)
         IN  StandsIn(p, g, d) /\ d.name = id /\ Spot(p, sort, g, id, d.place)
<1> DEFINE d == In(p, sort, g, <<id>>)
           e == Definitions(p, g, <<id>>)
           v == EnumValues(p, g, <<id>>)
<1>1. e = Nothing \/ (StandsIn(p, g, e) /\ <<e.name>> = <<id>>)
  BY DefinitionsStand
<1>2. v = Nothing \/ (StandsIn(p, g, v) /\ <<v.name>> = <<id>>)
  BY EnumValuesStand
<1>3. v # Nothing => v.place.slot = "member"
  <2>1. v = Nothing \/ \E m, j : v = Member(p, g, m, j)
    BY DEF EnumValues
  <2>2. \A m, j : Member(p, g, m, j).place.slot = "member"
    BY DEF Member, Place
  <2> HIDE DEF v
  <2> QED
    BY <2>1, <2>2
<1>4. e # Nothing => \E n : e = Definition(p, g, n)
  BY DEF Definitions
<1>5. \A n : Definition(p, g, n).place.slot = "name"
  BY DEF Definition, Place
<1>6. d = CASE sort = "type"    -> OfKind(e, TypeKinds)
            [] sort = "value"   -> OrElse(v, OfKind(e, {"const"}))
            [] sort = "service" -> OfKind(e, {"service"})
  BY DEF In
<1>7. d # Nothing
  OBVIOUS
<1> HIDE DEF d, e, v
<1>8. /\ sort = "type" => d = e /\ e.kind \in TypeKinds
      /\ sort = "value" => d = v \/ (d = e /\ e.kind = "const")
      /\ sort = "service" => d = e /\ e.kind = "service"
  BY <1>6, <1>7 DEF OfKind, OrElse
<1>9. StandsIn(p, g, d) /\ <<d.name>> = <<id>>
  BY <1>1, <1>2, <1>7, <1>8 DEF Sorts
<1>10. /\ d.place \in Places(p) /\ d.place.file = g /\ d.place.slot \in {"name", "member"}
       /\ TextAt(p, d.place) = <<d.name>>
       /\ d.kind = IF d.place.slot = "member" THEN "member" ELSE NodeAt(p, d.place).kind
  BY <1>9, DefinitionPlaces
<1>11. Suits(p, sort, d.place)
  <2>1. d = e => d.place.slot = "name"
    BY <1>4, <1>5, <1>7
  <2>2. d = v => d.place.slot = "member"
    BY <1>3, <1>7
  <2>3. CASE sort = "type"
    BY <1>8, <1>10, <2>1, <2>3 DEF Suits
  <2>4. CASE sort = "value"
    <3>1. CASE d = v
      BY <2>2, <2>4, <3>1 DEF Suits
    <3>2. CASE d = e /\ e.kind = "const"
      <4>1. d.kind = "const" /\ d.place.slot = "name"
        BY <2>1, <3>2
      <4> QED
        BY <1>10, <2>4, <4>1 DEF Suits
    <3> QED
      BY <1>8, <2>4, <3>1, <3>2
  <2>5. CASE sort = "service"
    BY <1>8, <1>10, <2>1, <2>5 DEF Suits
  <2> QED
    BY <2>3, <2>4, <2>5 DEF Sorts
<1>12. d.name = id
  BY <1>9
<1>13. Spot(p, sort, g, id, d.place)
  BY <1>10, <1>11, <1>12 DEF Spot
<1> QED
  BY <1>9, <1>12, <1>13 DEF d

\* Where such a name is defined in a file, it is found.
LEMMA SpotFound ==
  ASSUME NEW p, IsProject(p), IsNamed(p), NamesApart(p), NEW g \in DOMAIN p, NEW id, NEW sort \in Sorts,
         NEW place, Spot(p, sort, g, id, place)
  PROVE  In(p, sort, g, <<id>>) # Nothing /\ In(p, sort, g, <<id>>).place = place
<1> DEFINE d == In(p, sort, g, <<id>>)
           e == Definitions(p, g, <<id>>)
           v == EnumValues(p, g, <<id>>)
<1>1. /\ place \in Places(p) /\ place.slot # "ref" /\ place.file = g
      /\ TextAt(p, place) = <<id>> /\ Suits(p, sort, place)
  BY DEF Spot
<1>2. IsPlace(p, place)
  BY <1>1, PlacesAre
<1>3. \A f, n, slot, i : /\ Place(f, n, slot, i).file = f /\ Place(f, n, slot, i).node = n
                         /\ Place(f, n, slot, i).slot = slot /\ Place(f, n, slot, i).at = i
  BY DEF Place
<1>4. PICK n \in DOMAIN p[g].nodes :
        \/ place = Place(g, n, "name", 0)
        \/ \E i \in DOMAIN p[g].nodes[n].members : place = Place(g, n, "member", i)
  BY <1>1, <1>2, <1>3 DEF IsPlace
<1>5. NodeAt(p, place) = p[g].nodes[n]
  BY <1>1, <1>3, <1>4 DEF NodeAt
<1>6. d # Nothing => d.place = place
  <2>1. ASSUME d # Nothing PROVE Spot(p, sort, g, id, d.place)
    BY <2>1, InStands
  <2> HIDE DEF d
  <2> QED
    BY <1>1, <2>1 DEF Spot, NamesApart
<1>7. e = Nothing \/ (StandsIn(p, g, e) /\ <<e.name>> = <<id>>)
  BY DefinitionsStand
<1>8. ASSUME e # Nothing PROVE e.place = place
  <2>1. StandsIn(p, g, e) /\ <<e.name>> = <<id>>
    BY <1>7, <1>8
  <2> HIDE DEF e
  <2>2. /\ e.place \in Places(p) /\ e.place.file = g /\ e.place.slot \in {"name", "member"}
        /\ TextAt(p, e.place) = <<e.name>>
    BY <2>1, DefinitionPlaces
  <2> QED
    BY <1>1, <2>1, <2>2 DEF NamesApart
<1>9. ASSUME place.slot = "member" PROVE v # Nothing
  <2>1. PICK i \in DOMAIN p[g].nodes[n].members : place = Place(g, n, "member", i)
    BY <1>3, <1>4, <1>9
  <2>2. TextAt(p, place) = <<p[g].nodes[n].members[i]>>
    BY <1>3, <1>5, <2>1 DEF TextAt
  <2> QED
    BY <1>1, <2>2, EnumValuesFound
<1>10. ASSUME place.slot = "name" PROVE e # Nothing /\ e.kind = NodeAt(p, place).kind
  <2>1. TextAt(p, place) = <<p[g].nodes[n].name>>
    BY <1>5, <1>10 DEF TextAt
  <2>2. e # Nothing
    BY <1>1, <2>1, DefinitionsFound
  <2>3. StandsIn(p, g, e) /\ e.place = place
    BY <1>7, <1>8, <2>2
  <2> HIDE DEF e
  <2>4. e.kind = IF e.place.slot = "member" THEN "member" ELSE NodeAt(p, e.place).kind
    BY <2>3, DefinitionPlaces
  <2> QED
    BY <1>10, <2>2, <2>3, <2>4
<1>11. place.slot = "name" \/ place.slot = "member"
  BY <1>3, <1>4
<1>12. d = CASE sort = "type"    -> OfKind(e, TypeKinds)
            [] sort = "value"   -> OrElse(v, OfKind(e, {"const"}))
            [] sort = "service" -> OfKind(e, {"service"})
  BY DEF In
<1> HIDE DEF d, e, v
<1>13. d # Nothing
  <2>1. CASE sort = "type"
    BY <1>1, <1>10, <1>12, <2>1 DEF Suits, OfKind
  <2>2. CASE sort = "value"
    <3>1. Suits(p, sort, place) => place.slot = "member" \/ NodeAt(p, place).kind = "const"
      BY <2>2 DEF Suits
    <3>2. d = OrElse(v, OfKind(e, {"const"}))
      BY <1>12, <2>2
    <3>3. v # Nothing \/ (e # Nothing /\ e.kind = "const")
      BY <1>1, <1>9, <1>10, <1>11, <3>1
    <3> QED
      BY <3>2, <3>3 DEF OrElse, OfKind
  <2>3. CASE sort = "service"
    BY <1>1, <1>10, <1>12, <2>3 DEF Suits, OfKind
  <2> QED
    BY <2>1, <2>2, <2>3 DEF Sorts
<1> QED
  BY <1>6, <1>13 DEF d

-----------------------------------------------------------------------------
\* Where the first definition in a row of files stands.
PlaceFound(p, sort, files, id) ==
  PlaceOf(FirstFound(files, [g \in DOMAIN p |-> In(p, sort, g, <<id>>)]))

\* FirstFound is what the first file has that has something.
LEMMA FirstFoundIs ==
  ASSUME NEW S, NEW files \in Seq(S), NEW find
  PROVE  LET d == FirstFound(files, find)
             Here(k) == k \in DOMAIN files /\ files[k] \in DOMAIN find /\ find[files[k]] # Nothing
         IN  \/ d = Nothing /\ \A k : ~Here(k)
             \/ \E k : Here(k) /\ d = find[files[k]] /\ \A j : Here(j) => k <= j
<1> DEFINE K == {k \in DOMAIN files : files[k] \in DOMAIN find /\ find[files[k]] # Nothing}
           N == Len(files)
<1>1. FirstFound(files, find) = IF K = {} THEN Nothing ELSE find[files[Min(K)]]
  BY DEF FirstFound
<1>2. K \in SUBSET (0..N) /\ N \in Nat
  OBVIOUS
<1>3. K # {} => Min(K) \in K /\ \A k \in K : Min(K) <= k
  <2> HIDE DEF K, N
  <2> QED
    BY <1>2, LeastAndGreatest
<1> QED
  BY <1>1, <1>3

\* The place of a name in a row of files, by the first file that has it.
HasSpot(p, sort, g, id) == \E place : Spot(p, sort, g, id, place)
LEMMA PlaceFoundIs ==
  ASSUME NEW p, IsProject(p), IsNamed(p), NamesApart(p), NEW files, files \in Seq(Files),
         NEW id, NEW sort \in Sorts
  PROVE  LET d == PlaceFound(p, sort, files, id)
             Here(k) == k \in DOMAIN files /\ files[k] \in DOMAIN p /\ HasSpot(p, sort, files[k], id)
         IN  \/ d = Silent /\ \A k : ~Here(k)
             \/ /\ d # Silent
                /\ \E k : /\ Here(k) /\ Spot(p, sort, files[k], id, d)
                          /\ \A j : Here(j) => k <= j
<1> DEFINE find == [g \in DOMAIN p |-> In(p, sort, g, <<id>>)]
           e == FirstFound(files, find)
           d == PlaceFound(p, sort, files, id)
           Has(k) == k \in DOMAIN files /\ files[k] \in DOMAIN find /\ find[files[k]] # Nothing
           Here(k) == k \in DOMAIN files /\ files[k] \in DOMAIN p /\ HasSpot(p, sort, files[k], id)
<1>1. DOMAIN find = DOMAIN p /\ \A g \in DOMAIN p : find[g] = In(p, sort, g, <<id>>)
  OBVIOUS
<1>2. d = IF e = Nothing THEN Silent ELSE e.place
  BY DEF PlaceFound, PlaceOf
<1>3. \/ e = Nothing /\ \A k : ~Has(k)
      \/ \E k : Has(k) /\ e = find[files[k]] /\ \A j : Has(j) => k <= j
  <2> HIDE DEF find
  <2> QED
    BY FirstFoundIs
<1> HIDE DEF find, e, d
<1>4. \A g \in DOMAIN p : find[g] # Nothing => Spot(p, sort, g, id, find[g].place)
  BY <1>1, InStands
<1>5. \A g \in DOMAIN p : HasSpot(p, sort, g, id) => find[g] # Nothing
  BY <1>1, SpotFound DEF HasSpot
<1>6. \A k : Has(k) <=> Here(k)
  BY <1>1, <1>4, <1>5 DEF HasSpot
<1>7. \A g, place : Spot(p, sort, g, id, place) => place # Silent
  <2>1. \A f, n, slot, i : Place(f, n, slot, i) # Silent
    BY DEF Place, Silent
  <2>2. \A place : IsPlace(p, place) => place # Silent
    BY <2>1 DEF IsPlace
  <2> QED
    BY <2>2, PlacesAre DEF Spot
<1>8. CASE e = Nothing
  <2>1. \A k : ~Has(k)
    BY <1>1, <1>3, <1>8
  <2> HIDE DEF Has, Here
  <2> QED
    BY <1>2, <1>6, <1>8, <2>1 DEF d, Here
<1>9. CASE e # Nothing
  <2>1. PICK k : Has(k) /\ e = find[files[k]] /\ \A j : Has(j) => k <= j
    BY <1>3, <1>9
  <2>2. d = find[files[k]].place /\ files[k] \in DOMAIN p
    BY <1>1, <1>2, <1>9, <2>1
  <2>3. Spot(p, sort, files[k], id, d) /\ d # Silent
    BY <1>4, <1>7, <2>1, <2>2
  <2>4. Here(k) /\ \A j : Here(j) => k <= j
    <3> HIDE DEF Has, Here
    <3> QED
      BY <1>6, <2>1
  <2> QED
    BY <2>3, <2>4 DEF d
<1> QED
  BY <1>8, <1>9

\* What a rename at a definition makes of the definitions: the one at that
\* place gets a new name that is free, and the others keep theirs.
Moves(p, q, at, new) ==
  /\ IsFiniteSet(Files)
  /\ IsProject(p) /\ IsNamed(p) /\ NamesApart(p)
  /\ IsProject(q) /\ IsNamed(q) /\ NamesApart(q)
  /\ SameShape(p, q) /\ Free(p, new)
  /\ at \in Places(p) /\ at.slot # "ref"
  /\ \A place \in Places(p) : place.slot # "ref" =>
       TextAt(q, place) = IF place = at THEN <<new>> ELSE TextAt(p, place)

\* In projects of one shape the places are of the same kinds.
LEMMA ShapePlaces ==
  ASSUME NEW p, NEW q, SameShape(p, q)
  PROVE  /\ Places(q) = Places(p) /\ RefPlaces(q) = RefPlaces(p)
         /\ \A place \in Places(p) : NodeAt(q, place).kind = NodeAt(p, place).kind
         /\ \A place \in Places(p) : \A sort : Suits(q, sort, place) <=> Suits(p, sort, place)
<1>2. Places(q) = Places(p)
  BY SamePlaces
<1>3. RefPlaces(q) = RefPlaces(p)
  BY <1>2 DEF RefPlaces
<1>4. ASSUME NEW place \in Places(p)
      PROVE  NodeAt(q, place).kind = NodeAt(p, place).kind
  <2>1. PICK f \in DOMAIN p : \E n \in DOMAIN p[f].nodes : place.file = f /\ place.node = n
    <3>1. IsPlace(p, place)
      BY PlacesAre
    <3>2. \A f, n, slot, i : Place(f, n, slot, i).file = f /\ Place(f, n, slot, i).node = n
      BY DEF Place
    <3> QED
      BY <3>1, <3>2 DEF IsPlace
  <2> QED
    BY <2>1 DEF SameShape, NodeAt
<1>5. \A place \in Places(p) : \A sort : Suits(q, sort, place) <=> Suits(p, sort, place)
  BY <1>4 DEF Suits
<1> QED
  BY <1>2, <1>3, <1>4, <1>5

\* What is defined where: nothing changes for a name that is not the new one
\* but that the renamed definition has it no longer, which alone has the new.
LEMMA SpotMoves ==
  ASSUME NEW p, NEW q, NEW at, NEW new, Moves(p, q, at, new), NEW sort \in Sorts, NEW g, NEW place
  PROVE  /\ \A id : id # new =>
              (Spot(q, sort, g, id, place) <=> Spot(p, sort, g, id, place) /\ place # at)
         /\ Spot(q, sort, g, new, place) <=> place = at /\ g = at.file /\ Suits(p, sort, at)
<1>1. /\ Places(q) = Places(p)
      /\ place \in Places(p) => (Suits(q, sort, place) <=> Suits(p, sort, place))
  BY ShapePlaces DEF Moves
<1>2. place \in Places(p) /\ place.slot # "ref" =>
        TextAt(q, place) = IF place = at THEN <<new>> ELSE TextAt(p, place)
  BY DEF Moves
<1>3. place \in Places(p) => TextAt(p, place) # <<new>>
  <2>1. Contains(<<new>>, new)
    BY DEF Contains
  <2> QED
    BY <2>1 DEF Moves, Free
<1>4. ASSUME NEW id, id # new
      PROVE  Spot(q, sort, g, id, place) <=> Spot(p, sort, g, id, place) /\ place # at
  <2>1. <<id>> # <<new>>
    BY <1>4
  <2> QED
    BY <1>1, <1>2, <2>1 DEF Spot
<1>5. at \in Places(p) /\ at.slot # "ref"
  BY DEF Moves
<1>6. Spot(q, sort, g, new, place) <=> place = at /\ g = at.file /\ Suits(p, sort, at)
  BY <1>1, <1>2, <1>3, <1>5 DEF Spot
<1> QED
  BY <1>4, <1>6

\* A name that meant something else keeps its place.
LEMMA PlaceStays ==
  ASSUME NEW p, NEW q, NEW at, NEW new, Moves(p, q, at, new), NEW sort \in Sorts,
         NEW files, files \in Seq(Files), NEW id, id # new, PlaceFound(p, sort, files, id) # at
  PROVE  PlaceFound(q, sort, files, id) = PlaceFound(p, sort, files, id)
<1> DEFINE d == PlaceFound(p, sort, files, id)
           e == PlaceFound(q, sort, files, id)
           Here(k) == k \in DOMAIN files /\ files[k] \in DOMAIN p /\ HasSpot(p, sort, files[k], id)
           There(k) == k \in DOMAIN files /\ files[k] \in DOMAIN q /\ HasSpot(q, sort, files[k], id)
<1>1. \/ d = Silent /\ \A k : ~Here(k)
      \/ /\ d # Silent
         /\ \E k : /\ Here(k) /\ Spot(p, sort, files[k], id, d)
                   /\ \A j : Here(j) => k <= j
  BY PlaceFoundIs DEF Moves
<1>2. \/ e = Silent /\ \A k : ~There(k)
      \/ /\ e # Silent
         /\ \E k : /\ There(k) /\ Spot(q, sort, files[k], id, e)
                   /\ \A j : There(j) => k <= j
  BY PlaceFoundIs DEF Moves
<1>3. ASSUME NEW g, NEW place
      PROVE  Spot(q, sort, g, id, place) <=> Spot(p, sort, g, id, place) /\ place # at
  <2>1. \A x : x # new => (Spot(q, sort, g, x, place) <=> Spot(p, sort, g, x, place) /\ place # at)
    BY SpotMoves
  <2> QED
    BY <2>1
<1>4. \A k : There(k) => Here(k)
  BY <1>3 DEF HasSpot, Moves, SameShape
<1>5. DOMAIN q = DOMAIN p /\ DOMAIN files \subseteq Int
  BY DEF Moves, SameShape
<1>6. d # at
  OBVIOUS
<1>7. \A g, x, y : Spot(p, sort, g, id, x) /\ Spot(p, sort, g, id, y) => x = y
  BY DEF Spot, Moves, NamesApart
<1> HIDE DEF d, e
<1>8. CASE d = Silent
  BY <1>1, <1>2, <1>4, <1>8 DEF d, e
<1>9. CASE d # Silent
  <2>1. PICK k : Here(k) /\ Spot(p, sort, files[k], id, d) /\ \A j : Here(j) => k <= j
    BY <1>1, <1>9
  <2>2. There(k) /\ Spot(q, sort, files[k], id, d)
    BY <1>3, <1>5, <1>6, <2>1 DEF HasSpot
  <2>3. PICK m : There(m) /\ Spot(q, sort, files[m], id, e) /\ \A j : There(j) => m <= j
    BY <1>2, <2>2
  <2>4. k <= m /\ m <= k /\ k \in Int /\ m \in Int
    BY <1>4, <1>5, <2>1, <2>2, <2>3
  <2>5. k = m
    BY <2>4
  <2>6. Spot(p, sort, files[k], id, e)
    BY <1>3, <2>3, <2>5
  <2> QED
    BY <1>7, <2>1, <2>6 DEF d, e
<1> QED
  BY <1>8, <1>9

\* The name that meant the renamed definition keeps its place as the new one.
LEMMA PlaceMoves ==
  ASSUME NEW p, NEW q, NEW at, NEW new, Moves(p, q, at, new), NEW sort \in Sorts,
         NEW files, files \in Seq(Files), NEW id, PlaceFound(p, sort, files, id) = at
  PROVE  PlaceFound(q, sort, files, new) = at
<1> DEFINE d == PlaceFound(p, sort, files, id)
           e == PlaceFound(q, sort, files, new)
           Here(k) == k \in DOMAIN files /\ files[k] \in DOMAIN p /\ HasSpot(p, sort, files[k], id)
           There(k) == k \in DOMAIN files /\ files[k] \in DOMAIN q /\ HasSpot(q, sort, files[k], new)
<1>1. \/ d = Silent /\ \A k : ~Here(k)
      \/ /\ d # Silent
         /\ \E k : /\ Here(k) /\ Spot(p, sort, files[k], id, d)
                   /\ \A j : Here(j) => k <= j
  BY PlaceFoundIs DEF Moves
<1>2. \/ e = Silent /\ \A k : ~There(k)
      \/ /\ e # Silent
         /\ \E k : /\ There(k) /\ Spot(q, sort, files[k], new, e)
                   /\ \A j : There(j) => k <= j
  BY PlaceFoundIs DEF Moves
<1>3. \A g, place : Spot(q, sort, g, new, place) <=> place = at /\ g = at.file /\ Suits(p, sort, at)
  BY SpotMoves
<1>4. d = at /\ DOMAIN q = DOMAIN p
  BY DEF Moves, SameShape
<1>5. at # Silent
  <2>1. \A f, n, slot, i : Place(f, n, slot, i) # Silent
    BY DEF Place, Silent
  <2>2. IsPlace(p, at)
    BY PlacesAre DEF Moves
  <2> QED
    BY <2>1, <2>2 DEF IsPlace
<1> HIDE DEF d, e
<1>6. PICK k : Here(k) /\ Spot(p, sort, files[k], id, at)
  BY <1>1, <1>4, <1>5
<1>7. files[k] = at.file /\ Suits(p, sort, at)
  BY <1>6 DEF Spot
<1>8. There(k)
  BY <1>3, <1>4, <1>6, <1>7 DEF HasSpot
<1>9. PICK m : Spot(q, sort, files[m], new, e)
  BY <1>2, <1>8
<1> QED
  BY <1>3, <1>9 DEF e

-----------------------------------------------------------------------------
\* A name with another segment at one place.
Replaced(t, s, i, new) ==
  /\ Len(s) = Len(t) /\ i \in 1..Len(t) /\ s[i] = new
  /\ \A j \in 1..Len(t) : j # i => s[j] = t[j]

\* A prefix, segment by segment.
LEMMA PrefixMeans ==
  ASSUME NEW name, IsName(name), NEW prefix \in Seq(STRING)
  PROVE  HasPrefix(name, prefix) <=>
           /\ Len(prefix) < Len(name)
           /\ \A j \in 1..Len(prefix) : name[j] = prefix[j]
<1> DEFINE m == Len(prefix)
           n == Len(name)
           a == SubSeq(name, 1, m)
<1>1. PICK S : name \in Seq(S)
  BY DEF IsName
<1>2. m \in Nat /\ n \in Nat
  BY <1>1
<1>3. HasPrefix(name, prefix) <=> m < n /\ a = prefix
  BY DEF HasPrefix
<1>4. ASSUME m < n PROVE a = prefix <=> \A j \in 1..m : name[j] = prefix[j]
  <2>1. /\ a \in Seq(S) /\ Len(a) = m
        /\ \A j \in 1..m : a[j] = name[j]
    <3>1. 1 \in 1..(n + 1) /\ m \in (1 - 1)..n
      BY <1>2, <1>4
    <3>2. /\ SubSeq(name, 1, m) \in Seq(S)
          /\ Len(SubSeq(name, 1, m)) = m - 1 + 1
          /\ \A j \in 1..(m - 1 + 1) : SubSeq(name, 1, m)[j] = name[1 + j - 1]
      BY <1>1, <3>1, SubSeqProperties
    <3> HIDE DEF m
    <3>3. m - 1 + 1 = m /\ \A j \in 1..m : 1 + j - 1 = j
      BY <1>2
    <3> QED
      BY <3>2, <3>3
  <2> HIDE DEF a
  <2>2. prefix \in Seq(STRING) /\ Len(prefix) = m
    OBVIOUS
  <2>3. ASSUME \A j \in 1..m : name[j] = prefix[j] PROVE a = prefix
    <3>1. a = [j \in 1..m |-> a[j]] /\ prefix = [j \in 1..m |-> prefix[j]]
      BY <2>1, <2>2
    <3>2. \A j \in 1..m : a[j] = prefix[j]
      BY <2>1, <2>3
    <3> HIDE DEF m
    <3> QED
      BY <3>1, <3>2
  <2> QED
    BY <2>1, <2>3
<1> HIDE DEF m, n, a
<1>5. HasPrefix(name, prefix) <=> m < n /\ \A j \in 1..m : name[j] = prefix[j]
  BY <1>3, <1>4
<1> QED
  BY <1>5 DEF m, n

\* The last segment is part of no qualifier, and a segment that is in no file
\* name is neither: another in its place changes nothing for the qualifier.
LEMMA SameQualifier ==
  ASSUME NEW p, NEW q, SameShape(p, q), IsGraph(p), NEW f \in DOMAIN p,
         NEW t, NEW s, IsName(t), IsName(s), NEW i, NEW new, Replaced(t, s, i, new),
         i = Len(t) \/ \A g \in Files : ~Contains(IncludeName[g], t[i]) /\ ~Contains(IncludeName[g], new)
  PROVE  ParseIdent(q, f, s) = ParseIdent(p, f, t)
<1> DEFINE n == Len(t)
<1>1. n \in Nat
  BY DEF IsName
<1>2. ASSUME NEW g \in Files PROVE HasPrefix(s, IncludeName[g]) <=> HasPrefix(t, IncludeName[g])
  <2> DEFINE prefix == IncludeName[g]
             m == Len(prefix)
  <2>1. prefix \in Seq(STRING)
    BY NamesAssumption DEF Files
  <2>2. m \in Nat /\ Len(s) = n /\ i \in 1..n /\ s[i] = new
    BY <2>1 DEF Replaced
  <2>3. /\ HasPrefix(t, prefix) <=> m < n /\ \A j \in 1..m : t[j] = prefix[j]
        /\ HasPrefix(s, prefix) <=> m < n /\ \A j \in 1..m : s[j] = prefix[j]
    BY <2>1, <2>2, PrefixMeans
  <2>4. i = n \/ (\A j \in 1..m : prefix[j] # t[i] /\ prefix[j] # new)
    BY DEF Contains
  <2>5. \A j \in 1..n : j # i => s[j] = t[j]
    BY DEF Replaced
  <2> HIDE DEF prefix, m, n
  <2>6. ASSUME m < n, i <= m
        PROVE  ~(\A j \in 1..m : t[j] = prefix[j]) /\ ~(\A j \in 1..m : s[j] = prefix[j])
    <3>1. i \in 1..m /\ i # n
      BY <1>1, <2>2, <2>6
    <3>2. prefix[i] # t[i] /\ prefix[i] # s[i]
      BY <2>2, <2>4, <3>1
    <3> QED
      BY <3>1, <3>2
  <2>7. ASSUME m < n, ~(i <= m) PROVE \A j \in 1..m : s[j] = t[j]
    <3>1. \A j \in 1..m : j \in 1..n /\ j # i
      BY <1>1, <2>2, <2>7
    <3> QED
      BY <2>5, <3>1
  <2>8. HasPrefix(t, prefix) <=> HasPrefix(s, prefix)
    BY <2>3, <2>6, <2>7
  <2> QED
    BY <2>8 DEF prefix
<1>3. q[f].includes = p[f].includes /\ ToSet(p[f].includes) \subseteq Files
  BY DEF SameShape, IsGraph, ToSet
<1>4. {g \in ToSet(q[f].includes) : HasPrefix(s, IncludeName[g])} =
      {g \in ToSet(p[f].includes) : HasPrefix(t, IncludeName[g])}
  BY <1>2, <1>3
<1>5. Qualifiers(q, f, s) = Qualifiers(p, f, t)
  BY <1>4 DEF Qualifiers
<1> QED
  BY <1>5 DEF ParseIdent

\* With one qualifier the files are the same that are searched.
LEMMA SameFiles ==
  ASSUME NEW p, NEW q, SameShape(p, q), IsGraph(p), IsGraph(q), IsFiniteSet(Files), NEW f \in DOMAIN p,
         NEW t, NEW s, ParseIdent(q, f, s) = ParseIdent(p, f, t)
  PROVE  DefinitionFiles(q, f, s) = DefinitionFiles(p, f, t)
<1>1. q[f].includes = p[f].includes
  BY DEF SameShape
<1>2. Visit(q, f, <<f>>) = Visit(p, f, <<f>>)
  BY SameVisit
<1>3. \A r : IncludedAs(q, f, r) = IncludedAs(p, f, r)
  BY <1>1 DEF IncludedAs
<1> QED
  BY <1>2, <1>3 DEF DefinitionFiles

\* Where a name that is looked up as one of a sort leads to.
Resolve(p, sort, f, name) ==
  CASE sort = "type"    -> ResolveType(p, f, name)
    [] sort = "value"   -> ResolveValue(p, f, name)
    [] sort = "service" -> ResolveService(p, f, name)
Lost(p, sort, f, name) ==
  \/ sort = "type" /\ name \in BasicType
  \/ sort # "value" /\ Len(ParseIdent(p, f, name)) + 1 # Len(name)

\* A definition has a name of one segment.
LEMMA LongNamesLost ==
  ASSUME NEW p, IsProject(p), NEW g \in DOMAIN p, NEW id, Len(id) # 1
  PROVE  Definitions(p, g, id) = Nothing
<1>1. \A x : Len(<<x>>) = 1
  OBVIOUS
<1> QED
  BY <1>1, DefinitionsStand

\* A name of one segment.
LEMMA OneSegment ==
  ASSUME NEW S, NEW s \in Seq(S), Len(s) = 1
  PROVE  s = <<s[1]>>
OBVIOUS

\* Where no file has anything, nothing is found.
LEMMA NothingFound ==
  ASSUME NEW files, NEW find, \A g \in DOMAIN find : find[g] = Nothing
  PROVE  FirstFound(files, find) = Nothing
<1>1. {k \in DOMAIN files : files[k] \in DOMAIN find /\ find[files[k]] # Nothing} = {}
  OBVIOUS
<1> QED
  BY <1>1 DEF FirstFound

\* Where a name leads to, by the files that are searched for its last segment.
LEMMA ResolveIs ==
  ASSUME NEW p, IsProject(p), IsNamed(p), NEW f \in DOMAIN p, NEW name, IsName(name), NEW sort \in Sorts
  PROVE  PlaceOf(Resolve(p, sort, f, name)) =
           IF Lost(p, sort, f, name) THEN Silent
           ELSE PlaceFound(p, sort, DefinitionFiles(p, f, name), BareName(name))
<1> DEFINE id == Identifier(p, f, name)
           files == DefinitionFiles(p, f, name)
           k == Len(ParseIdent(p, f, name))
           x == BareName(name)
<1>1. IsGraph(p)
  BY DEF IsProject
<1>2. BareName(id) = x /\ (\A y : id = <<y>> => y = x) /\ k \in Nat /\ k < Len(name)
  BY <1>1, IdentifierEnds, QualifierIsIncluded
<1>3. PICK S : name \in Seq(S) /\ Len(name) \in Nat
  BY DEF IsName
<1>4. id \in Seq(S) /\ Len(id) = Len(name) - k
  <2> DEFINE n == Len(name)
  <2>1. k + 1 \in 1..(n + 1) /\ n \in (k + 1 - 1)..n
    BY <1>2, <1>3
  <2>2. /\ SubSeq(name, k + 1, n) \in Seq(S)
        /\ Len(SubSeq(name, k + 1, n)) = n - (k + 1) + 1
    BY <1>3, <2>1, SubSeqProperties
  <2>3. id = SubSeq(name, k + 1, n)
    BY DEF Identifier, After
  <2> HIDE DEF id, k
  <2> QED
    BY <1>2, <1>3, <2>2, <2>3
<1>5. ResolveType(p, f, name) =
        IF name \in BasicType THEN Nothing
        ELSE FirstFound(files, [g \in DOMAIN p |-> OfKind(Definitions(p, g, id), TypeKinds)])
  BY DEF ResolveType, IsName
<1>6. ResolveValue(p, f, name) =
        FirstFound(files, [g \in DOMAIN p |->
          OrElse(EnumValues(p, g, <<x>>), OfKind(Definitions(p, g, <<x>>), {"const"}))])
  BY <1>2 DEF ResolveValue
<1>7. ResolveService(p, f, name) =
        FirstFound(files, [g \in DOMAIN p |-> OfKind(Definitions(p, g, id), {"service"})])
  BY DEF ResolveService
<1> HIDE DEF id, files, k, x
<1>8. ASSUME k + 1 = Len(name) PROVE id = <<x>>
  <2>1. Len(id) = 1
    BY <1>2, <1>3, <1>4, <1>8
  <2>2. id = <<id[1]>>
    BY <1>4, <2>1, OneSegment
  <2> QED
    BY <1>2, <2>2
<1>9. ASSUME k + 1 # Len(name), NEW kinds
      PROVE  FirstFound(files, [g \in DOMAIN p |-> OfKind(Definitions(p, g, id), kinds)]) = Nothing
  <2>1. Len(id) # 1
    BY <1>2, <1>3, <1>4, <1>9
  <2>2. \A g \in DOMAIN p : Definitions(p, g, id) = Nothing
    BY <2>1, LongNamesLost
  <2>3. \A g \in DOMAIN p : OfKind(Definitions(p, g, id), kinds) = Nothing
    BY <2>2 DEF OfKind
  <2> DEFINE find == [g \in DOMAIN p |-> OfKind(Definitions(p, g, id), kinds)]
  <2>4. \A g \in DOMAIN find : find[g] = Nothing
    BY <2>3
  <2> HIDE DEF find
  <2>5. FirstFound(files, find) = Nothing
    BY <2>4, NothingFound
  <2> QED
    BY <2>5 DEF find
<1>10. PlaceOf(Nothing) = Silent
  BY DEF PlaceOf
<1>11. CASE sort = "type"
  <2>1. [g \in DOMAIN p |-> In(p, sort, g, <<x>>)] =
        [g \in DOMAIN p |-> OfKind(Definitions(p, g, <<x>>), TypeKinds)]
    BY <1>11 DEF In
  <2>2. Resolve(p, sort, f, name) = ResolveType(p, f, name)
    BY <1>11 DEF Resolve
  <2>3. Lost(p, sort, f, name) <=> name \in BasicType \/ k + 1 # Len(name)
    BY <1>11 DEF Lost, k
  <2> QED
    BY <1>5, <1>8, <1>9, <1>10, <2>1, <2>2, <2>3 DEF PlaceFound, files, x
<1>12. CASE sort = "value"
  <2>1. [g \in DOMAIN p |-> In(p, sort, g, <<x>>)] =
        [g \in DOMAIN p |-> OrElse(EnumValues(p, g, <<x>>), OfKind(Definitions(p, g, <<x>>), {"const"}))]
    BY <1>12 DEF In
  <2>2. Resolve(p, sort, f, name) = ResolveValue(p, f, name)
    BY <1>12 DEF Resolve
  <2>3. ~Lost(p, sort, f, name)
    BY <1>12 DEF Lost
  <2> QED
    BY <1>6, <2>1, <2>2, <2>3 DEF PlaceFound, files, x
<1>13. CASE sort = "service"
  <2>1. [g \in DOMAIN p |-> In(p, sort, g, <<x>>)] =
        [g \in DOMAIN p |-> OfKind(Definitions(p, g, <<x>>), {"service"})]
    BY <1>13 DEF In
  <2>2. Resolve(p, sort, f, name) = ResolveService(p, f, name)
    BY <1>13 DEF Resolve
  <2>3. Lost(p, sort, f, name) <=> k + 1 # Len(name)
    BY <1>13 DEF Lost, k
  <2> QED
    BY <1>7, <1>8, <1>9, <1>10, <2>1, <2>2, <2>3 DEF PlaceFound, files, x
<1> QED
  BY <1>11, <1>12, <1>13 DEF Sorts

\* A name that leads to the renamed definition leads there with the new name,
\* and every other name leads to where it led.
Reads(p, q, sort, f, t, s) ==
  /\ IsName(t) /\ IsName(s) /\ Len(s) = Len(t)
  /\ ParseIdent(q, f, s) = ParseIdent(p, f, t)
  /\ sort = "type" => (s \in BasicType <=> t \in BasicType)
LEMMA ResolveMoves ==
  ASSUME NEW p, NEW q, NEW at, NEW new, Moves(p, q, at, new), NEW sort \in Sorts, NEW f \in DOMAIN p,
         NEW t, NEW s, Reads(p, q, sort, f, t, s)
  PROVE  LET d == PlaceOf(Resolve(p, sort, f, t))
             e == PlaceOf(Resolve(q, sort, f, s))
         IN  /\ BareName(s) = BareName(t) /\ BareName(t) # new /\ d # at => e = d
             /\ BareName(s) = new /\ d = at => e = at
<1> DEFINE d == PlaceOf(Resolve(p, sort, f, t))
           e == PlaceOf(Resolve(q, sort, f, s))
           files == DefinitionFiles(p, f, t)
           x == BareName(t)
           y == BareName(s)
<1>1. /\ IsProject(p) /\ IsNamed(p) /\ IsGraph(p) /\ IsProject(q) /\ IsNamed(q) /\ IsGraph(q)
      /\ IsFiniteSet(Files) /\ SameShape(p, q) /\ f \in DOMAIN q
  BY DEF Moves, IsProject, SameShape
<1>2. d = IF Lost(p, sort, f, t) THEN Silent ELSE PlaceFound(p, sort, files, x)
  BY <1>1, ResolveIs DEF Reads
<1>3. e = IF Lost(q, sort, f, s) THEN Silent ELSE PlaceFound(q, sort, DefinitionFiles(q, f, s), y)
  BY <1>1, ResolveIs DEF Reads
<1>4. DefinitionFiles(q, f, s) = files
  BY <1>1, SameFiles DEF Reads
<1>5. Lost(q, sort, f, s) <=> Lost(p, sort, f, t)
  BY DEF Lost, Reads
<1>6. files \in Seq(Files)
  BY <1>1, DefinitionFilesLead DEF Reads
<1>7. at # Silent
  <2>1. \A g, n, slot, i : Place(g, n, slot, i) # Silent
    BY DEF Place, Silent
  <2>2. IsPlace(p, at)
    BY PlacesAre DEF Moves
  <2> QED
    BY <2>1, <2>2 DEF IsPlace
<1> HIDE DEF d, e, files, x, y
<1>8. ASSUME y = x, x # new, d # at PROVE e = d
  BY <1>2, <1>3, <1>4, <1>5, <1>6, <1>8, PlaceStays
<1>9. ASSUME y = new, d = at PROVE e = at
  BY <1>2, <1>3, <1>4, <1>5, <1>6, <1>7, <1>9, PlaceMoves
<1> QED
  BY <1>8, <1>9 DEF d, e, x, y

-----------------------------------------------------------------------------

\* The segments up to one, and those after it.
LEMMA HeadMeans ==
  ASSUME NEW S, NEW t \in Seq(S), NEW i \in 0..Len(t)
  PROVE  LET a == SubSeq(t, 1, i)
         IN  a \in Seq(S) /\ Len(a) = i /\ \A j \in 1..i : a[j] = t[j]
<1> DEFINE n == Len(t)
<1>1. n \in Nat /\ i \in Nat /\ i <= n
  OBVIOUS
<1> HIDE DEF n
<1>2. 1 \in 1..(n + 1) /\ i \in (1 - 1)..n /\ i - 1 + 1 = i
  BY <1>1
<1>3. /\ SubSeq(t, 1, i) \in Seq(S) /\ Len(SubSeq(t, 1, i)) = i - 1 + 1
      /\ \A j \in 1..(i - 1 + 1) : SubSeq(t, 1, i)[j] = t[1 + j - 1]
  BY <1>2, SubSeqProperties DEF n
<1> DEFINE a == SubSeq(t, 1, i)
<1>4. /\ a \in Seq(S) /\ Len(a) = i - 1 + 1
      /\ \A j \in 1..(i - 1 + 1) : a[j] = t[1 + j - 1]
  BY <1>3
<1> HIDE DEF a
<1>5. \A j \in 1..i : 1 + j - 1 = j
  BY <1>1
<1>6. a \in Seq(S) /\ Len(a) = i /\ \A j \in 1..i : a[j] = t[j]
  BY <1>2, <1>4, <1>5
<1> QED
  BY <1>6 DEF a

LEMMA TailMeans ==
  ASSUME NEW S, NEW t \in Seq(S), NEW i \in 0..Len(t)
  PROVE  LET b == After(t, i)
         IN  b \in Seq(S) /\ Len(b) = Len(t) - i /\ \A j \in 1..(Len(t) - i) : b[j] = t[i + j]
<1> DEFINE n == Len(t)
           k == i + 1
<1>1. n \in Nat /\ i \in Nat /\ i <= n
  OBVIOUS
<1>2. k \in 1..(n + 1) /\ n \in (k - 1)..n /\ n - k + 1 = n - i
  BY <1>1
<1>3. After(t, i) = SubSeq(t, k, n)
  BY DEF After
<1>4. t \in Seq(S) /\ Len(t) = n
  OBVIOUS
<1>5. \A j \in 1..(n - i) : k + j - 1 = i + j
  BY <1>1
<1> HIDE DEF k, n
<1> DEFINE b == SubSeq(t, k, n)
<1>6. /\ SubSeq(t, k, n) \in Seq(S) /\ Len(SubSeq(t, k, n)) = n - k + 1
      /\ \A j \in 1..(n - k + 1) : SubSeq(t, k, n)[j] = t[k + j - 1]
  BY <1>2, <1>4, SubSeqProperties
<1>7. /\ b \in Seq(S) /\ Len(b) = n - k + 1
      /\ \A j \in 1..(n - k + 1) : b[j] = t[k + j - 1]
  BY <1>6
<1> HIDE DEF b
<1>8. b \in Seq(S) /\ Len(b) = n - i /\ \A j \in 1..(n - i) : b[j] = t[i + j]
  BY <1>2, <1>5, <1>7
<1> QED
  BY <1>3, <1>8 DEF b, n

\* What the edit of a hit makes of a name: one segment is replaced.
LEMMA SegmentsReplaced ==
  ASSUME NEW S, NEW t \in Seq(S), NEW i \in 1..Len(t), NEW new
  PROVE  LET s == (SubSeq(t, 1, i - 1) \o <<new>>) \o After(t, i)
         IN  Replaced(t, s, i, new)
<1> DEFINE n == Len(t)
           T == S \cup {new}
           a == SubSeq(t, 1, i - 1)
           b == After(t, i)
           c == a \o <<new>>
           s == c \o b
<1>1. n \in Nat /\ i \in Nat /\ 1 <= i /\ i <= n
  OBVIOUS
<1>2. a \in Seq(S) /\ Len(a) = i - 1 /\ \A j \in 1..(i - 1) : a[j] = t[j]
  <2>1. i - 1 \in 0..n
    BY <1>1
  <2> QED
    BY <2>1, HeadMeans
<1>3. b \in Seq(S) /\ Len(b) = n - i /\ \A j \in 1..(n - i) : b[j] = t[i + j]
  <2>1. i \in 0..n
    BY <1>1
  <2> QED
    BY <2>1, TailMeans
<1> HIDE DEF a, b
<1>4. a \in Seq(T) /\ b \in Seq(T) /\ <<new>> \in Seq(T)
  BY <1>2, <1>3
<1> HIDE DEF T
<1>5. c \in Seq(T) /\ Len(c) = i /\ c[i] = new /\ \A j \in 1..(i - 1) : c[j] = a[j]
  <2>1. Len(<<new>>) = 1 /\ <<new>>[1] = new
    OBVIOUS
  <2> DEFINE one == <<new>>
  <2> HIDE DEF one
  <2>2. /\ a \o one \in Seq(T) /\ Len(a \o one) = Len(a) + Len(one)
        /\ \A j \in 1..(Len(a) + Len(one)) : (a \o one)[j] = IF j <= Len(a) THEN a[j] ELSE one[j - Len(a)]
    BY <1>4 DEF one
  <2>3. Len(one) = 1 /\ one[1] = new /\ c = a \o one
    BY <2>1 DEF one
  <2> HIDE DEF c
  <2>4. /\ i \in 1..(Len(a) + Len(one)) /\ ~(i <= Len(a)) /\ i - Len(a) = 1
        /\ \A j \in 1..(i - 1) : j \in 1..(Len(a) + Len(one)) /\ j <= Len(a)
    BY <1>1, <1>2, <2>3
  <2> QED
    BY <1>1, <1>2, <2>2, <2>3, <2>4
<1> HIDE DEF c
<1>6. /\ Len(s) = n /\ \A j \in 1..i : s[j] = c[j]
      /\ \A j \in 1..n : ~(j <= i) => s[j] = b[j - i]
  <2>1. /\ c \o b \in Seq(T) /\ Len(c \o b) = Len(c) + Len(b)
        /\ \A j \in 1..(Len(c) + Len(b)) : (c \o b)[j] = IF j <= Len(c) THEN c[j] ELSE b[j - Len(c)]
    BY <1>4, <1>5, ConcatProperties
  <2>2. Len(c) + Len(b) = n /\ \A j \in 1..i : j \in 1..n /\ j <= i
    BY <1>1, <1>3, <1>5
  <2> QED
    BY <1>5, <2>1, <2>2
<1> HIDE DEF s
<1>7. s[i] = new
  BY <1>1, <1>5, <1>6
<1>8. ASSUME NEW j \in 1..n, j # i PROVE s[j] = t[j]
  <2>1. CASE j < i
    <3>1. j \in 1..(i - 1) /\ j \in 1..i
      BY <1>1, <2>1
    <3> QED
      BY <1>2, <1>5, <1>6, <3>1
  <2>2. CASE i < j
    <3>1. j - i \in 1..(n - i) /\ i + (j - i) = j /\ ~(j <= i)
      BY <1>1, <2>2
    <3> QED
      BY <1>3, <1>6, <3>1
  <2> QED
    BY <1>1, <1>8, <2>1, <2>2
<1>9. Replaced(t, s, i, new)
  BY <1>1, <1>6, <1>7, <1>8 DEF Replaced
<1> QED
  BY <1>9 DEF s, c, a, b

\* An edit of one segment, and one of a whole name that keeps the qualifier.
LEMMA EditedSegment ==
  ASSUME NEW t, IsName(t), NEW i \in 1..Len(t), NEW new, NEW e, e.from = i, e.to = i, e.text = <<new>>
  PROVE  Replaced(t, Edited(t, e), i, new)
<1>1. PICK S : t \in Seq(S)
  BY DEF IsName
<1>2. Edited(t, e) = (SubSeq(t, 1, i - 1) \o <<new>>) \o After(t, i)
  BY DEF Edited
<1> QED
  BY <1>1, <1>2, SegmentsReplaced

LEMMA EditedName ==
  ASSUME NEW t, IsName(t), NEW new, NEW e, e.from = 1, e.to = Len(t),
         e.text = IF Len(t) > 1 THEN SubSeq(t, 1, Len(t) - 1) \o <<new>> ELSE <<new>>
  PROVE  Replaced(t, Edited(t, e), Len(t), new)
<1> DEFINE n == Len(t)
           a == SubSeq(t, 1, n - 1)
           b == After(t, n)
<1>1. PICK S : t \in Seq(S)
  BY DEF IsName
<1>2. n \in Nat /\ n > 0 /\ n \in 1..n
  BY <1>1 DEF IsName
<1>3. a \in Seq(S) /\ Len(a) = n - 1
  <2>1. n - 1 \in 0..n
    BY <1>2
  <2> QED
    BY <1>1, <2>1, HeadMeans
<1>4. SubSeq(t, 1, 0) \in Seq(S) /\ SubSeq(t, 1, 0) = <<>>
  <2>1. 0 \in 0..n
    BY <1>2
  <2>2. SubSeq(t, 1, 0) \in Seq(S) /\ Len(SubSeq(t, 1, 0)) = 0
    BY <1>1, <2>1, HeadMeans
  <2> QED
    BY <2>2
<1>5. Edited(t, e) = (SubSeq(t, 1, 0) \o e.text) \o b
  BY DEF Edited
<1>6. e.text = a \o <<new>>
  <2>1. CASE n > 1
    BY <2>1
  <2>2. CASE ~(n > 1)
    <3> HIDE DEF a
    <3>1. Len(a) = 0
      BY <1>2, <1>3, <2>2
    <3>2. a = <<>>
      BY <1>3, <3>1
    <3>3. <<>> \o <<new>> = <<new>>
      OBVIOUS
    <3> HIDE DEF a
    <3> QED
      BY <2>2, <3>2, <3>3
  <2> QED
    BY <2>1, <2>2
<1> DEFINE c == a \o <<new>>
           T == S \cup {new}
<1>7. SubSeq(t, 1, 0) \o e.text = c
  <2> HIDE DEF a
  <2>1. a \in Seq(T) /\ <<new>> \in Seq(T)
    BY <1>3
  <2>2. c \in Seq(T)
    BY <2>1
  <2> HIDE DEF c
  <2>3. <<>> \o c = c
    BY <2>2
  <2>4. e.text = c
    BY <1>6 DEF c
  <2> QED
    BY <1>4, <2>3, <2>4
<1>8. Replaced(t, c \o b, n, new)
  BY <1>1, <1>2, SegmentsReplaced
<1> QED
  BY <1>5, <1>7, <1>8

-----------------------------------------------------------------------------
\* The definition at a place, and the kinds of references that a rename at it
\* searches for.
DefAt(p, at) ==
  IF at.slot = "member" THEN Member(p, at.file, at.node, at.at) ELSE Definition(p, at.file, at.node)
Sought(d) == RefKindsFor(d.kind) \cup IF d.kind = "enum" THEN {"value"} ELSE {}

\* It stands at that place.
LEMMA DefAtStands ==
  ASSUME NEW p, NEW at \in Places(p), at.slot # "ref"
  PROVE  /\ at.file \in DOMAIN p /\ StandsIn(p, at.file, DefAt(p, at)) /\ DefAt(p, at).place = at
         /\ at # Silent
<1>1. IsPlace(p, at)
  BY PlacesAre
<1>2. \A f, n, slot, i : /\ Place(f, n, slot, i).file = f /\ Place(f, n, slot, i).node = n
                         /\ Place(f, n, slot, i).slot = slot /\ Place(f, n, slot, i).at = i
                         /\ Place(f, n, slot, i) # Silent
  BY DEF Place, Silent
<1>3. PICK f \in DOMAIN p : \E n \in DOMAIN p[f].nodes :
        \/ at = Place(f, n, "name", 0)
        \/ \E i \in DOMAIN p[f].nodes[n].members : at = Place(f, n, "member", i)
  BY <1>1, <1>2 DEF IsPlace
<1>4. PICK n \in DOMAIN p[f].nodes :
        \/ at = Place(f, n, "name", 0)
        \/ \E i \in DOMAIN p[f].nodes[n].members : at = Place(f, n, "member", i)
  BY <1>3
<1>5. at # Silent /\ at.file = f
  BY <1>2, <1>4
<1>6. \A i : Definition(p, f, n).place = Place(f, n, "name", 0) /\ Member(p, f, n, i).place = Place(f, n, "member", i)
  BY DEF Definition, Member
<1>7. CASE at = Place(f, n, "name", 0)
  <2>1. DefAt(p, at) = Definition(p, f, n)
    BY <1>2, <1>7 DEF DefAt
  <2> QED
    BY <1>5, <1>6, <1>7, <2>1 DEF StandsIn
<1>8. ASSUME NEW i \in DOMAIN p[f].nodes[n].members, at = Place(f, n, "member", i)
      PROVE  StandsIn(p, at.file, DefAt(p, at)) /\ DefAt(p, at).place = at
  <2>1. DefAt(p, at) = Member(p, f, n, i)
    BY <1>2, <1>8 DEF DefAt
  <2> QED
    BY <1>5, <1>6, <1>8, <2>1 DEF StandsIn
<1> QED
  BY <1>4, <1>5, <1>7, <1>8

\* A place that a name leads to is that of such a definition.
LEMMA ResolveSuits ==
  ASSUME NEW p, IsProject(p), IsNamed(p), NamesApart(p), IsFiniteSet(Files), NEW f \in DOMAIN p,
         NEW name, IsName(name), NEW sort \in Sorts, PlaceOf(Resolve(p, sort, f, name)) # Silent
  PROVE  LET place == PlaceOf(Resolve(p, sort, f, name))
         IN  /\ place \in Places(p) /\ place.slot # "ref" /\ Suits(p, sort, place)
             /\ TextAt(p, place) = <<BareName(name)>>
             /\ sort # "value" => Len(ParseIdent(p, f, name)) + 1 = Len(name)
<1> DEFINE d == PlaceOf(Resolve(p, sort, f, name))
           files == DefinitionFiles(p, f, name)
<1>1. IsGraph(p)
  BY DEF IsProject
<1>2. files \in Seq(Files)
  BY <1>1, DefinitionFilesLead
<1>3. /\ ~Lost(p, sort, f, name)
      /\ d = PlaceFound(p, sort, files, BareName(name)) /\ d # Silent
  BY ResolveIs
<1> HIDE DEF d, files
<1>4. \E g : Spot(p, sort, g, BareName(name), d)
  BY <1>2, <1>3, PlaceFoundIs
<1>5. /\ d \in Places(p) /\ d.slot # "ref" /\ Suits(p, sort, d) /\ TextAt(p, d) = <<BareName(name)>>
  BY <1>4 DEF Spot
<1> QED
  BY <1>3, <1>5 DEF d, Lost

SortOf(kind) == IF kind \in TypeSlots THEN "type" ELSE IF kind = "value" THEN "value" ELSE "service"

\* What a reference means is looked up by its kind.
LEMMA MeantResolves ==
  ASSUME NEW p, IsProject(p), IsNamed(p), NEW place \in RefPlaces(p)
  PROVE  LET ref == RefAt(p, place)
         IN  /\ SortOf(ref.kind) \in Sorts
             /\ MeantPlace(p, place) = PlaceOf(Resolve(p, SortOf(ref.kind), place.file, ref.name))
             /\ MeantBy(p, place) = Resolve(p, SortOf(ref.kind), place.file, ref.name)
<1> DEFINE ref == RefAt(p, place)
<1>1. ref.kind \in SlotKinds
  BY ReferencePlaces
<1> HIDE DEF ref
<1>2. ResolveReference(p, place.file, ref) = Resolve(p, SortOf(ref.kind), place.file, ref.name)
  BY <1>1 DEF ResolveReference, Resolve, SortOf, SlotKinds, TypeSlots
<1>3. SortOf(ref.kind) \in Sorts
  BY DEF SortOf, Sorts
<1> QED
  BY <1>2, <1>3 DEF MeantPlace, MeantBy, ref

\* What a definition is follows from where it stands.
LEMMA MeantStands ==
  ASSUME NEW p, IsProject(p), IsNamed(p), IsFiniteSet(Files), NEW f \in DOMAIN p,
         NEW name, IsName(name), NEW sort \in Sorts
  PROVE  LET d == Resolve(p, sort, f, name)
         IN  \/ d = Nothing /\ PlaceOf(d) = Silent
             \/ /\ d # Nothing /\ PlaceOf(d) = d.place /\ d.place # Silent
                /\ \E g \in DOMAIN p : StandsIn(p, g, d) /\ g \in Reach(p, f)
                /\ d.name = BareName(name)
                /\ d.kind = IF d.place.slot = "member" THEN "member" ELSE NodeAt(p, d.place).kind
<1> DEFINE d == Resolve(p, sort, f, name)
<1>1. Means(p, f, name, d)
  BY ResolveMeans DEF Resolve, Sorts
<1> HIDE DEF d
<1>2. CASE d = Nothing
  BY <1>2 DEF PlaceOf, d
<1>3. CASE d # Nothing
  <2>1. PICK g \in DOMAIN p : g \in Reach(p, f) /\ StandsIn(p, g, d) /\ d.name = BareName(name)
    BY <1>1, <1>3 DEF Means
  <2>2. /\ d.place # Silent
        /\ d.kind = IF d.place.slot = "member" THEN "member" ELSE NodeAt(p, d.place).kind
    BY <2>1, DefinitionPlaces
  <2> QED
    BY <1>3, <2>1, <2>2 DEF PlaceOf, d
<1> QED
  BY <1>2, <1>3

\* Every reference to the renamed definition is of a kind that is sought.
LEMMA KindsMeet ==
  ASSUME NEW p, IsProject(p), IsNamed(p), NamesApart(p), IsFiniteSet(Files), ExceptionsThrown(p),
         NEW at \in Places(p), Target(p, at) = "definition", at.slot # "ref",
         NEW place \in RefPlaces(p), MeantPlace(p, place) = at
  PROVE  /\ RefAt(p, place).kind \in RefKindsFor(DefAt(p, at).kind)
         /\ DefAt(p, at).kind = "enum" => RefAt(p, place).kind # "value"
<1> DEFINE ref == RefAt(p, place)
           sort == SortOf(ref.kind)
           d == DefAt(p, at)
           e == MeantBy(p, place)
<1>1. /\ place.file \in DOMAIN p /\ ref.kind \in SlotKinds /\ IsName(ref.name)
  BY ReferencePlaces
<1>2. /\ sort \in Sorts /\ at = PlaceOf(Resolve(p, sort, place.file, ref.name))
      /\ e = Resolve(p, sort, place.file, ref.name)
  BY MeantResolves
<1>3. StandsIn(p, at.file, d) /\ d.place = at /\ at # Silent /\ at.file \in DOMAIN p
  BY DefAtStands
<1>4. d.kind = IF at.slot = "member" THEN "member" ELSE NodeAt(p, at).kind
  BY <1>3, DefinitionPlaces
<1>5. Suits(p, sort, at)
  BY <1>1, <1>2, <1>3, ResolveSuits
<1>6. e.kind = d.kind
  <2>1. \/ e = Nothing /\ PlaceOf(e) = Silent
        \/ /\ PlaceOf(e) = e.place
           /\ e.kind = IF e.place.slot = "member" THEN "member" ELSE NodeAt(p, e.place).kind
    BY <1>1, <1>2, MeantStands
  <2> QED
    BY <1>2, <1>3, <1>4, <2>1
<1>7. e.kind = "exception" => ref.kind # "field"
  BY DEF ExceptionsThrown
<1>8. at.slot = "name" \/ at.slot = "member"
  BY <1>3, DefinitionPlaces
<1>9. ~(at.slot = "name" /\ NodeAt(p, at).kind = "service")
  BY DEF Target
<1> HIDE DEF ref, d, e
<1>10. CASE ref.kind \in TypeSlots
  <2>1. at.slot = "name" /\ NodeAt(p, at).kind \in TypeKinds
    BY <1>5, <1>10 DEF Suits, SortOf
  <2>2. d.kind \in TypeKinds
    BY <1>4, <2>1
  <2>3. ref.kind # "value"
    BY <1>10 DEF TypeSlots
  <2>4. CASE d.kind = "exception"
    <3>1. ref.kind \in {"signature", "annotation"}
      BY <1>6, <1>7, <1>10, <2>4 DEF TypeSlots
    <3> QED
      BY <2>3, <2>4, <3>1 DEF RefKindsFor, ref, d
  <2>5. CASE d.kind # "exception"
    <3>1. RefKindsFor(d.kind) = TypeSlots
      BY <2>2, <2>5 DEF RefKindsFor, TypeKinds
    <3> QED
      BY <1>10, <2>3, <3>1 DEF ref, d
  <2> QED
    BY <2>4, <2>5
<1>11. CASE ref.kind = "value"
  <2>1. sort = "value"
    BY <1>11 DEF SortOf, TypeSlots
  <2>2. at.slot = "member" \/ NodeAt(p, at).kind = "const"
    BY <1>5, <2>1 DEF Suits
  <2>3. d.kind \in {"member", "const"}
    BY <1>4, <2>2
  <2>4. RefKindsFor(d.kind) = {"value"}
    BY <2>3 DEF RefKindsFor, TypeKinds
  <2> QED
    BY <1>11, <2>3, <2>4 DEF ref, d
<1>12. CASE ref.kind = "extends"
  <2>1. sort = "service"
    BY <1>12 DEF SortOf, TypeSlots
  <2> QED
    BY <1>5, <1>9, <2>1 DEF Suits
<1> QED
  BY <1>1, <1>10, <1>11, <1>12 DEF SlotKinds

-----------------------------------------------------------------------------
\* The edits of the hits that are found, and that of the name itself.
AreEdits(edits, found, at, new) ==
  LET n == Len(found)
  IN  /\ n \in Nat /\ DOMAIN edits = 1..(n + 1)
      /\ \A k \in 1..n : /\ edits[k].place = found[k].place
                         /\ edits[k].from = found[k].from /\ edits[k].to = found[k].to
                         /\ edits[k].text = NewText(found[k], new)
      /\ edits[n + 1].place = at
LEMMA EditsAre ==
  ASSUME NEW V, NEW found \in Seq(V), NEW p, NEW at, NEW new
  PROVE  AreEdits(Edits(WithCursor(p, at, found, at.file), new), found, at, new)
<1> DEFINE n == Len(found)
           hits == WithCursor(p, at, found, at.file)
           row == [k \in DOMAIN found |-> [hit |-> found[k], file |-> found[k].place.file]]
           last == [hit |-> Hit(at, 1, Len(TextAt(p, at)), <<>>), file |-> at.file]
           edits == Edits(hits, new)
<1>1. n \in Nat /\ DOMAIN found = 1..n
  OBVIOUS
<1>2. hits = Append(row, last) /\ last.hit.place = at
  BY DEF WithCursor, Hit
<1> HIDE DEF last
<1>3. DOMAIN row = 1..n /\ \A k \in 1..n : row[k].hit = found[k]
  BY <1>1
<1>4. \E W : row \in Seq(W)
  <2> DEFINE W == {row[k] : k \in 1..n}
  <2> HIDE DEF row
  <2>1. row = [k \in 1..n |-> row[k]]
    BY <1>1 DEF row
  <2>2. row \in [1..n -> W]
    BY <2>1
  <2> HIDE DEF W
  <2>3. row \in Seq(W)
    BY <1>1, <2>2, SeqDef
  <2> QED
    BY <2>3
<1> HIDE DEF row, n, hits
<1>5. /\ DOMAIN hits = 1..(n + 1) /\ hits[n + 1] = last
      /\ \A k \in 1..n : hits[k] = row[k]
  <2>1. PICK W : row \in Seq(W)
    BY <1>4
  <2>2. Len(row) = n
    BY <1>1, <1>3, <2>1
  <2>3. DOMAIN hits = 1..(Len(row) + 1) /\ hits[Len(row) + 1] = last
        /\ \A k \in 1..Len(row) : hits[k] = row[k]
    BY <1>2, <2>1
  <2> QED
    BY <2>2, <2>3
<1>6. /\ DOMAIN edits = 1..(n + 1)
      /\ \A k \in 1..(n + 1) : /\ edits[k].place = hits[k].hit.place
                               /\ edits[k].from = hits[k].hit.from /\ edits[k].to = hits[k].hit.to
                               /\ edits[k].text = NewText(hits[k].hit, new)
  BY <1>5 DEF Edits
<1> HIDE DEF edits
<1>7. n + 1 \in 1..(n + 1) /\ \A k \in 1..n : k \in 1..(n + 1)
  BY <1>1
<1>8. \A k \in 1..n : hits[k].hit = found[k]
  BY <1>3, <1>5
<1>9. /\ \A k \in 1..n : /\ edits[k].place = found[k].place
                         /\ edits[k].from = found[k].from /\ edits[k].to = found[k].to
                         /\ edits[k].text = NewText(found[k], new)
      /\ edits[n + 1].place = at
  BY <1>2, <1>5, <1>6, <1>7, <1>8
<1> QED
  BY <1>1, <1>6, <1>9 DEF edits, hits, n, AreEdits

\* The beginning of a name is a name.
LEMMA PartIsName ==
  ASSUME NEW t, IsName(t), NEW i \in 1..Len(t)
  PROVE  LET u == SubSeq(t, 1, i)
         IN  IsName(u) /\ Len(u) = i /\ \A j \in 1..i : u[j] = t[j]
<1> DEFINE u == SubSeq(t, 1, i)
<1>1. PICK S : t \in Seq(S)
  BY DEF IsName
<1>2. Len(t) \in Nat /\ i \in 0..Len(t) /\ i # 0
  BY <1>1
<1>3. u \in Seq(S) /\ Len(u) = i /\ \A j \in 1..i : u[j] = t[j]
  BY <1>1, <1>2, HeadMeans
<1> HIDE DEF u
<1>4. u # <<>>
  BY <1>2, <1>3
<1> QED
  BY <1>3, <1>4 DEF IsName, u

\* The first segment of a name that is an enum.
LEMMA EnumSegmentIs ==
  ASSUME NEW t, IsName(t), NEW enum
  PROVE  LET i == EnumSegment(t, enum)
         IN  IF i = 0 THEN \A j \in 1..Len(t) : t[j] # enum
             ELSE i \in 1..Len(t) /\ t[i] = enum /\ \A j \in 1..Len(t) : t[j] = enum => i <= j
<1> DEFINE I == {i \in 1..Len(t) : t[i] = enum}
<1>1. EnumSegment(t, enum) = IF I # {} THEN Min(I) ELSE 0
  BY DEF EnumSegment, SelectInSeq
<1>2. Len(t) \in Nat
  BY DEF IsName
<1>3. I \in SUBSET (0..Len(t)) /\ 0 \notin I
  BY <1>2
<1>4. I # {} => Min(I) \in I /\ \A j \in I : Min(I) <= j
  <2> HIDE DEF I
  <2> QED
    BY <1>2, <1>3, LeastAndGreatest
<1> QED
  BY <1>1, <1>3, <1>4

\* The hits at a reference: it is one to the definition, or a value that is
\* qualified with it.
InEnum(p, place, d) ==
  /\ RefAt(p, place).kind = "value" /\ d.kind = "enum"
  /\ QualifiesBy(p, place.file, RefAt(p, place), d)
LEMMA FoundMeans ==
  ASSUME NEW p, IsProject(p), IsNamed(p), NamesApart(p), IsFiniteSet(Files), ExceptionsThrown(p),
         NEW at \in Places(p), Target(p, at) = "definition", at.slot # "ref",
         NEW place \in RefPlaces(p)
  PROVE  LET d == DefAt(p, at)
             R == ReferencesTo(p, d, Sought(d))
             name == RefAt(p, place).name
             i == EnumSegment(name, d.name)
         IN  /\ \A j \in DOMAIN R : R[j].place = place =>
                  \/ InEnum(p, place, d) /\ R[j] = Hit(place, i, i, <<d.name>>)
                  \/ MeantPlace(p, place) = at /\ R[j] = Hit(place, 1, Len(name), name)
             /\ InEnum(p, place, d) \/ MeantPlace(p, place) = at => \E j \in DOMAIN R : R[j].place = place
<1> DEFINE d == DefAt(p, at)
           kinds == Sought(d)
           R == ReferencesTo(p, d, kinds)
           ref == RefAt(p, place)
           i == EnumSegment(ref.name, d.name)
           K == RefKindsFor(d.kind)
<1>1. StandsIn(p, at.file, d) /\ d.place = at /\ at.file \in DOMAIN p
  BY DefAtStands
<1>2. /\ place.file \in DOMAIN p /\ place.node \in DOMAIN p[place.file].nodes
      /\ place.at \in DOMAIN p[place.file].nodes[place.node].refs
      /\ place = Place(place.file, place.node, "ref", place.at)
      /\ ref = p[place.file].nodes[place.node].refs[place.at]
      /\ ref.kind \in SlotKinds /\ IsName(ref.name)
  BY ReferencePlaces
<1>3. HitAt(p, d, kinds, place.file, place.node, place.at) = HitsOf(p, place, ref, d, kinds)
  BY <1>2 DEF HitAt
<1>4. HitsAtReferences(p, d, kinds, R) /\ HitsOfReferences(p, d, kinds, R)
  <2> HIDE DEF d, kinds
  <2> QED
    BY ReferencesApart
<1>5. Searches(p, d, kinds)
  BY DEF Searches, Sought
<1>6. MeantPlace(p, place) = at <=> BareName(ref.name) = d.name /\ SameDefinition(ResolveReference(p, place.file, ref), d)
  BY <1>1, ReferenceTo
<1> HIDE DEF R
<1>7. ASSUME NEW j \in DOMAIN R, R[j].place = place
      PROVE  HitsOf(p, place, ref, d, kinds) = <<R[j]>>
  <2>1. PICK f \in DOMAIN p : \E n \in DOMAIN p[f].nodes : \E m \in DOMAIN p[f].nodes[n].refs :
          R[j].place = Place(f, n, "ref", m) /\ HitAt(p, d, kinds, f, n, m) = <<R[j]>>
    BY <1>4 DEF HitsAtReferences
  <2>2. PICK n, m : R[j].place = Place(f, n, "ref", m) /\ HitAt(p, d, kinds, f, n, m) = <<R[j]>>
    BY <2>1
  <2>3. f = place.file /\ n = place.node /\ m = place.at
    BY <1>7, <2>2 DEF Place
  <2> QED
    BY <1>3, <2>2, <2>3
<1>8. HitsOf(p, place, ref, d, kinds) =
        IF ref.kind \notin kinds THEN <<>>
        ELSE IF ref.kind = "value" /\ d.kind = "enum"
             THEN IF QualifiesBy(p, place.file, ref, d)
                  THEN <<Hit(place, i, i, <<d.name>>)>> ELSE <<>>
        ELSE IF BareName(ref.name) = d.name
                /\ SameDefinition(ResolveReference(p, place.file, ref), d)
             THEN <<Hit(place, 1, Len(ref.name), ref.name)>>
        ELSE <<>>
  BY DEF HitsOf
<1> DEFINE h == HitsOf(p, place, ref, d, kinds)
<1> HIDE DEF h, ref, i, d, kinds
<1>9. ASSUME NEW x, h = <<x>>
      PROVE  \/ InEnum(p, place, d) /\ x = Hit(place, i, i, <<d.name>>)
             \/ MeantPlace(p, place) = at /\ x = Hit(place, 1, Len(ref.name), ref.name)
  <2>1. <<x>> # <<>> /\ \A y : <<x>> = <<y>> => x = y
    OBVIOUS
  <2>2. CASE ref.kind = "value" /\ d.kind = "enum"
    <3>1. QualifiesBy(p, place.file, ref, d) /\ h = <<Hit(place, i, i, <<d.name>>)>>
      BY <1>8, <1>9, <2>1, <2>2 DEF h
    <3>2. x = Hit(place, i, i, <<d.name>>)
      BY <1>9, <2>1, <3>1
    <3> QED
      BY <2>2, <3>1, <3>2 DEF InEnum, ref
  <2>3. CASE ~(ref.kind = "value" /\ d.kind = "enum")
    <3>1. /\ BareName(ref.name) = d.name /\ SameDefinition(ResolveReference(p, place.file, ref), d)
          /\ h = <<Hit(place, 1, Len(ref.name), ref.name)>>
      BY <1>8, <1>9, <2>1, <2>3 DEF h
    <3>2. x = Hit(place, 1, Len(ref.name), ref.name)
      BY <1>9, <2>1, <3>1
    <3> QED
      BY <1>6, <3>1, <3>2
  <2> QED
    BY <2>2, <2>3
<1>10. \A j \in DOMAIN R : R[j].place = place =>
         \/ InEnum(p, place, d) /\ R[j] = Hit(place, i, i, <<d.name>>)
         \/ MeantPlace(p, place) = at /\ R[j] = Hit(place, 1, Len(ref.name), ref.name)
  BY <1>7, <1>9 DEF h
<1>11. ASSUME MeantPlace(p, place) = at PROVE \E j \in DOMAIN R : R[j].place = place
  <2>1. ref.kind \in K
    BY <1>11, KindsMeet DEF ref, d
  <2>2. \A r \in RefPlaces(p) : RefAt(p, r).kind \in K /\ MeantPlace(p, r) = d.place =>
          \E j \in DOMAIN R : R[j].place = r
    BY <1>1, <1>5, ReferencesToExact DEF R
  <2> QED
    BY <1>1, <1>11, <2>1, <2>2 DEF ref
<1>12. ASSUME InEnum(p, place, d) PROVE \E j \in DOMAIN R : R[j].place = place
  <2>1. ref.kind = "value" /\ d.kind = "enum" /\ QualifiesBy(p, place.file, ref, d)
    BY <1>12 DEF InEnum, ref
  <2>2. "value" \in kinds
    BY <2>1 DEF kinds, Sought
  <2>3. h = <<Hit(place, i, i, <<d.name>>)>>
    BY <1>8, <2>1, <2>2 DEF h
  <2> DEFINE u == SubSeq(ref.name, 1, i)
             e == ResolveType(p, place.file, u)
  <2>4. i # 0 /\ SameDefinition(e, d)
    BY <2>1 DEF QualifiesBy, i
  <2>5. IsName(u)
    <3> DEFINE t == ref.name
    <3>1. IsName(t) /\ i = EnumSegment(t, d.name)
      BY <1>2 DEF i
    <3> HIDE DEF t
    <3>2. i \in 1..Len(t)
      BY <2>4, <3>1, EnumSegmentIs
    <3> QED
      BY <3>1, <3>2, PartIsName DEF t
  <2>6. Means(p, place.file, u, e)
    BY <1>2, <2>5, ResolveMeans
  <2> HIDE DEF u, e
  <2>7. PICK g \in DOMAIN p : g \in Reach(p, place.file) /\ StandsIn(p, g, e)
    <3>1. e # Nothing
      BY <2>4 DEF SameDefinition
    <3> QED
      BY <2>6, <3>1 DEF Means
  <2>8. g = at.file
    <3>1. e.place.file = g
      BY <2>7, DefinitionPlaces
    <3> QED
      BY <1>1, <2>4, <3>1 DEF SameDefinition
  <2>9. place.file \in {d.place.file} \cup Dependents(p, d.place.file)
    BY <1>1, <2>7, <2>8 DEF Reach
  <2>10. \E j \in DOMAIN R : R[j] = Hit(place, i, i, <<d.name>>)
    <3>1. \A hit : HitAt(p, d, kinds, place.file, place.node, place.at) = <<hit>> => \E j \in DOMAIN R : R[j] = hit
      BY <1>2, <1>4, <2>9 DEF HitsOfReferences
    <3> QED
      BY <1>3, <2>3, <3>1 DEF h
  <2>11. Hit(place, i, i, <<d.name>>).place = place
    BY DEF Hit
  <2> QED
    BY <2>10, <2>11
<1>13. InEnum(p, place, d) \/ MeantPlace(p, place) = at => \E j \in DOMAIN R : R[j].place = place
  BY <1>11, <1>12
<1> QED
  BY <1>10, <1>13 DEF R, kinds, d, i, ref

-----------------------------------------------------------------------------
\* What a rename at a definition makes of a reference.
RefChange(p, q, at, new, place) ==
  LET t == TextAt(p, place)
      s == TextAt(q, place)
      d == DefAt(p, at)
  IN  IF MeantPlace(p, place) = at THEN Replaced(t, s, Len(t), new)
      ELSE IF InEnum(p, place, d) THEN Replaced(t, s, EnumSegment(t, d.name), new)
      ELSE s = t
LEMMA RenameMoves ==
  ASSUME NEW p, IsProject(p), IsNamed(p), NamesApart(p), IsFiniteSet(Files), ExceptionsThrown(p),
         NEW at \in Places(p), Target(p, at) = "definition", at.slot # "ref",
         NEW new, Free(p, new), Fits(Edits(Hits(p, at), new))
  PROVE  LET q == Made(p, Edits(Hits(p, at), new))
         IN  Moves(p, q, at, new) /\ \A place \in RefPlaces(p) : RefChange(p, q, at, new, place)
<1> DEFINE edits == Edits(Hits(p, at), new)
           q == Made(p, edits)
           d == DefAt(p, at)
           R == ReferencesTo(p, d, Sought(d))
           n == Len(R)
<1>1. EditsSound(p, new, edits)
  BY RenameHitsSound, EditsOfSound
<1>2. Hits(p, at) = WithCursor(p, at, R, at.file)
  <2>1. Search(p, at) = R
    BY DEF Search, SearchDefinition, DefAt, Sought
  <2> QED
    BY <2>1 DEF Hits
<1>3. PICK V : R \in Seq(V)
  <2> DEFINE kinds == Sought(d)
  <2> HIDE DEF d, kinds
  <2> QED
    BY ReferencesApart
<1>4. \A j \in DOMAIN R : R[j].place \in RefPlaces(p)
  <2>1. StandsIn(p, at.file, d) /\ at.file \in DOMAIN p /\ Searches(p, d, Sought(d))
    BY DefAtStands DEF Searches, Sought
  <2> QED
    BY <2>1, ReferencesToExact
<1> HIDE DEF R
<1>5. /\ n \in Nat /\ DOMAIN edits = 1..(n + 1)
      /\ \A k \in 1..n : /\ edits[k].place = R[k].place
                         /\ edits[k].from = R[k].from /\ edits[k].to = R[k].to
                         /\ edits[k].text = NewText(R[k], new)
      /\ edits[n + 1].place = at
  <2> DEFINE c == Edits(WithCursor(p, at, R, at.file), new)
  <2>1. edits = c
    BY <1>2
  <2>2. AreEdits(c, R, at, new)
    BY <1>3, EditsAre
  <2> HIDE DEF c, edits, n
  <2> QED
    BY <2>1, <2>2 DEF AreEdits, n
<1>6. DOMAIN R = 1..n
  BY <1>3
<1>7. Fits(edits)
  OBVIOUS
<1> HIDE DEF edits, n
<1>8. \A place \in Places(p) : place.slot # "ref" =>
        ((\E k \in DOMAIN edits : edits[k].place = place) <=> place = at)
  <2>1. \A k \in 1..n : edits[k].place.slot = "ref"
    BY <1>4, <1>5, <1>6 DEF RefPlaces
  <2>2. n + 1 \in 1..(n + 1) /\ \A k \in 1..(n + 1) : k \in 1..n \/ k = n + 1
    BY <1>5
  <2> QED
    BY <1>5, <2>1, <2>2
<1>9. \A place \in Places(p) :
        IF place.slot = "ref" THEN TextAt(q, place) = Rewritten(p, edits, place)
        ELSE IF \E k \in DOMAIN edits : edits[k].place = place THEN TextAt(q, place) = <<new>>
        ELSE TextAt(q, place) = TextAt(p, place)
  BY <1>1, <1>7, MadeTexts
<1>10. IsProject(q) /\ IsNamed(q) /\ NamesApart(q) /\ SameShape(p, q)
  BY <1>1, <1>7, MadeIsProject, MadeIsNamed, MadeApart, MadeShape
<1> HIDE DEF q
<1>11. Moves(p, q, at, new)
  BY <1>8, <1>9, <1>10 DEF Moves
<1>12. ASSUME NEW place \in RefPlaces(p) PROVE RefChange(p, q, at, new, place)
  <2> DEFINE t == TextAt(p, place)
             s == TextAt(q, place)
             i == EnumSegment(t, d.name)
  <2>1. /\ place \in Places(p) /\ place.slot = "ref" /\ IsName(t) /\ t = RefAt(p, place).name
        /\ place # at
    BY ReferencePlaces DEF RefPlaces
  <2>2. s = Rewritten(p, edits, place)
    BY <1>9, <2>1
  <2>3. /\ \A j \in DOMAIN R : R[j].place = place =>
             \/ InEnum(p, place, d) /\ R[j] = Hit(place, i, i, <<d.name>>)
             \/ MeantPlace(p, place) = at /\ R[j] = Hit(place, 1, Len(t), t)
        /\ InEnum(p, place, d) \/ MeantPlace(p, place) = at => \E j \in DOMAIN R : R[j].place = place
    BY <2>1, FoundMeans DEF R
  <2>4. MeantPlace(p, place) = at => ~InEnum(p, place, d)
    BY KindsMeet DEF InEnum
  <2> HIDE DEF d, t, s, i
  <2>5. CASE ~(InEnum(p, place, d) \/ MeantPlace(p, place) = at)
    <3>1. \A k \in DOMAIN edits : edits[k].place # place
      <4>1. \A j \in DOMAIN R : R[j].place # place
        BY <2>3, <2>5
      <4>2. \A k \in 1..(n + 1) : k \in 1..n \/ k = n + 1
        BY <1>5
      <4> QED
        BY <1>5, <1>6, <2>1, <4>1, <4>2
    <3>2. s = t
      BY <1>1, <1>7, <2>2, <3>1, RewrittenMeans DEF t
    <3> QED
      BY <2>5, <3>2 DEF RefChange, s, t, d
  <2>6. CASE InEnum(p, place, d) \/ MeantPlace(p, place) = at
    <3>1. PICK k \in DOMAIN R : R[k].place = place
      BY <2>3, <2>6
    <3>2. k \in 1..n /\ k \in DOMAIN edits
      BY <1>5, <1>6
    <3> DEFINE e == edits[k]
               h == R[k]
    <3>3. e.place = place /\ e.from = h.from /\ e.to = h.to /\ e.text = NewText(h, new)
      BY <1>5, <3>1, <3>2
    <3>4. s = Edited(t, e)
      BY <1>1, <1>7, <2>2, <3>2, <3>3, RewrittenMeans DEF t
    <3>5. \/ InEnum(p, place, d) /\ h = Hit(place, i, i, <<d.name>>)
          \/ MeantPlace(p, place) = at /\ h = Hit(place, 1, Len(t), t)
      BY <2>3, <3>1
    <3> HIDE DEF e, h
    <3>6. CASE InEnum(p, place, d) /\ h = Hit(place, i, i, <<d.name>>)
      <4>1. h.from = i /\ h.to = i /\ h.text = <<d.name>>
        BY <3>6 DEF Hit
      <4>2. e.text = <<new>>
        <5>1. Len(<<d.name>>) = 1
          OBVIOUS
        <5>2. ~(Len(h.text) > 1)
          BY <4>1, <5>1
        <5> QED
          BY <3>3, <5>2 DEF NewText
      <4>3. i \in 1..Len(t)
        <5>1. i # 0
          BY <2>1, <3>6 DEF InEnum, QualifiesBy, i
        <5> QED
          BY <2>1, <5>1, EnumSegmentIs DEF i
      <4>4. Replaced(t, s, i, new)
        BY <2>1, <3>3, <3>4, <4>1, <4>2, <4>3, EditedSegment
      <4> QED
        BY <2>4, <3>6, <4>4 DEF RefChange, s, t, d, i
    <3>7. CASE MeantPlace(p, place) = at /\ h = Hit(place, 1, Len(t), t)
      <4>1. h.from = 1 /\ h.to = Len(t) /\ h.text = t
        BY <3>7 DEF Hit
      <4>2. e.text = IF Len(t) > 1 THEN SubSeq(t, 1, Len(t) - 1) \o <<new>> ELSE <<new>>
        BY <3>3, <4>1 DEF NewText
      <4>3. Replaced(t, s, Len(t), new)
        BY <2>1, <3>3, <3>4, <4>1, <4>2, EditedName
      <4> QED
        BY <3>7, <4>3 DEF RefChange, s, t
    <3> QED
      BY <3>5, <3>6, <3>7
  <2> QED
    BY <2>5, <2>6
<1> QED
  BY <1>11, <1>12 DEF q, edits

-----------------------------------------------------------------------------
(***************************************************************************)
(* A rename at a definition keeps the meaning of every reference.          *)
(***************************************************************************)
\* A name with one segment replaced is read as it was.
LEMMA ReadsReplaced ==
  ASSUME NEW p, NEW q, NEW at, NEW new, Moves(p, q, at, new), Fresh(new), NEW sort, NEW f \in DOMAIN p,
         NEW t, NEW s, IsName(t), IsName(s), NEW i, Replaced(t, s, i, new),
         sort = "type" => t \notin BasicType,
         i = Len(t) \/ \A g \in Files : ~Contains(IncludeName[g], t[i])
  PROVE  Reads(p, q, sort, f, t, s)
<1>1. SameShape(p, q) /\ IsGraph(p)
  BY DEF Moves, IsProject
<1>2. i = Len(t) \/ \A g \in Files : ~Contains(IncludeName[g], t[i]) /\ ~Contains(IncludeName[g], new)
  BY DEF Fresh
<1>3. ParseIdent(q, f, s) = ParseIdent(p, f, t)
  BY <1>1, <1>2, SameQualifier
<1>4. Contains(s, new) /\ Len(s) = Len(t)
  BY DEF Replaced, Contains
<1>5. s \notin BasicType
  BY <1>4 DEF Fresh
<1> QED
  BY <1>3, <1>4, <1>5 DEF Reads

\* A name that is not edited is read as it was.
LEMMA ReadsSame ==
  ASSUME NEW p, NEW q, NEW at, NEW new, Moves(p, q, at, new), NEW sort, NEW f \in DOMAIN p,
         NEW t, IsName(t)
  PROVE  Reads(p, q, sort, f, t, t)
<1>1. SameShape(p, q) /\ IsGraph(p)
  BY DEF Moves, IsProject
<1>2. Len(t) \in 1..Len(t)
  BY DEF IsName
<1>3. Replaced(t, t, Len(t), t[Len(t)])
  BY <1>2 DEF Replaced
<1>4. ParseIdent(q, f, t) = ParseIdent(p, f, t)
  BY <1>1, <1>3, SameQualifier
<1> QED
  BY <1>4 DEF Reads

\* One place, one kind.
LEMMA SameKind ==
  ASSUME NEW p, NEW q, NEW at, NEW new, Moves(p, q, at, new), NEW f \in DOMAIN p,
         NEW t, IsName(t), NEW s, IsName(s), NEW sort \in Sorts,
         PlaceOf(Resolve(q, sort, f, s)) = PlaceOf(Resolve(p, sort, f, t))
  PROVE  LET d == Resolve(p, sort, f, t)
             e == Resolve(q, sort, f, s)
         IN  \/ d = Nothing /\ e = Nothing
             \/ d # Nothing /\ e # Nothing /\ e.place = d.place /\ e.kind = d.kind
<1> DEFINE d == Resolve(p, sort, f, t)
           e == Resolve(q, sort, f, s)
<1>1. IsProject(p) /\ IsNamed(p) /\ IsProject(q) /\ IsNamed(q) /\ IsFiniteSet(Files) /\ f \in DOMAIN q
  BY DEF Moves, SameShape
<1>2. \/ d = Nothing /\ PlaceOf(d) = Silent
      \/ /\ d # Nothing /\ PlaceOf(d) = d.place /\ d.place # Silent
         /\ \E g \in DOMAIN p : StandsIn(p, g, d)
         /\ d.kind = IF d.place.slot = "member" THEN "member" ELSE NodeAt(p, d.place).kind
  BY <1>1, MeantStands
<1>3. \/ e = Nothing /\ PlaceOf(e) = Silent
      \/ /\ e # Nothing /\ PlaceOf(e) = e.place /\ e.place # Silent
         /\ e.kind = IF e.place.slot = "member" THEN "member" ELSE NodeAt(q, e.place).kind
  BY <1>1, MeantStands
<1>4. PlaceOf(e) = PlaceOf(d)
  OBVIOUS
<1> HIDE DEF d, e
<1>5. CASE d # Nothing
  <2>1. e # Nothing /\ e.place = d.place
    BY <1>2, <1>3, <1>4, <1>5
  <2>2. d.place \in Places(p)
    BY <1>2, <1>5, DefinitionPlaces
  <2>3. NodeAt(q, d.place).kind = NodeAt(p, d.place).kind
    BY <2>2, ShapePlaces DEF Moves
  <2> QED
    BY <1>2, <1>3, <1>5, <2>1, <2>3 DEF d, e
<1>6. CASE d = Nothing
  BY <1>2, <1>3, <1>4, <1>6 DEF d, e
<1> QED
  BY <1>5, <1>6

\* What an enum is told apart from.
LEMMA EnumApart ==
  ASSUME NEW p, EnumsApart(p), NEW at \in Places(p), at.slot # "ref", DefAt(p, at).kind = "enum"
  PROVE  LET x == DefAt(p, at).name
         IN  /\ \A g \in Files : ~Contains(IncludeName[g], x)
             /\ \A place \in RefPlaces(p) : RefAt(p, place).kind = "value" => BareName(RefAt(p, place).name) # x
<1> DEFINE d == DefAt(p, at)
<1>1. StandsIn(p, at.file, d) /\ at.file \in DOMAIN p
  BY DefAtStands
<1>2. \A n, i : Member(p, at.file, n, i).kind = "member"
  BY DEF Member
<1>3. d.kind = "enum"
  OBVIOUS
<1> HIDE DEF d
<1>4. PICK n \in DOMAIN p[at.file].nodes : d = Definition(p, at.file, n)
  BY <1>1, <1>2, <1>3 DEF StandsIn
<1>5. d.name = p[at.file].nodes[n].name /\ p[at.file].nodes[n].kind = "enum"
  BY <1>3, <1>4 DEF Definition
<1> QED
  BY <1>1, <1>5 DEF EnumsApart, d

\* An enum that is a segment of a name of a type is the last one.
LEMMA EnumIsLast ==
  ASSUME NEW p, IsProject(p), NEW f \in DOMAIN p, NEW u, IsName(u), Len(ParseIdent(p, f, u)) + 1 = Len(u),
         NEW x, \A g \in Files : ~Contains(IncludeName[g], x), NEW j \in 1..Len(u), u[j] = x
  PROVE  j = Len(u)
<1> DEFINE r == ParseIdent(p, f, u)
<1>1. IsGraph(p) /\ Len(u) \in Nat
  BY DEF IsProject, IsName
<1>2. Len(r) \in Nat /\ (r # <<>> => r \in Qualifiers(p, f, u)) /\ Len(r) + 1 = Len(u)
  BY <1>1, QualifierIsIncluded
<1> HIDE DEF r
<1>3. SUFFICES ASSUME j # Len(u) PROVE FALSE
  OBVIOUS
<1>4. j \in 1..Len(r)
  BY <1>1, <1>2, <1>3
<1>5. r # <<>>
  <2>1. Len(<<>>) = 0
    OBVIOUS
  <2> QED
    BY <1>2, <1>4, <2>1
<1>6. PICK g \in ToSet(p[f].includes) : HasPrefix(u, IncludeName[g]) /\ r = IncludeName[g]
  BY <1>2, <1>5 DEF Qualifiers
<1>7. g \in Files /\ IncludeName[g] \in Seq(STRING)
  BY <1>1, <1>6, NamesAssumption DEF IsGraph, ToSet, Files
<1>8. u[j] = r[j]
  BY <1>4, <1>6, <1>7, PrefixMeans
<1>9. Contains(IncludeName[g], x)
  BY <1>4, <1>6, <1>8 DEF Contains
<1> QED
  BY <1>7, <1>9

\* A name that means a definition of this name in this file means this one.
LEMMA SameIsThis ==
  ASSUME NEW p, IsProject(p), IsNamed(p), NamesApart(p), IsFiniteSet(Files), NEW f \in DOMAIN p,
         NEW u, IsName(u), NEW at \in Places(p), at.slot # "ref"
  PROVE  SameDefinition(ResolveType(p, f, u), DefAt(p, at)) <=> PlaceOf(Resolve(p, "type", f, u)) = at
<1> DEFINE d == DefAt(p, at)
           e == ResolveType(p, f, u)
<1>1. StandsIn(p, at.file, d) /\ d.place = at /\ at # Silent /\ at.file \in DOMAIN p
  BY DefAtStands
<1>2. Resolve(p, "type", f, u) = e
  BY DEF Resolve
<1>3. \/ e = Nothing /\ PlaceOf(e) = Silent
      \/ /\ e # Nothing /\ PlaceOf(e) = e.place
         /\ \E g \in DOMAIN p : StandsIn(p, g, e)
  <2>1. "type" \in Sorts
    BY DEF Sorts
  <2> QED
    BY <1>2, <2>1, MeantStands
<1>4. TextAt(p, at) = <<d.name>>
  BY <1>1, DefinitionPlaces
<1> HIDE DEF d, e
<1>5. ASSUME SameDefinition(e, d) PROVE PlaceOf(e) = at
  <2>1. e # Nothing /\ e.place.file = at.file /\ e.name = d.name
    BY <1>1, <1>5 DEF SameDefinition
  <2>2. PICK g \in DOMAIN p : StandsIn(p, g, e)
    BY <1>3, <2>1
  <2>3. g = at.file
    BY <2>1, <2>2, DefinitionPlaces
  <2>4. e.place = d.place
    BY <1>1, <2>1, <2>2, <2>3, SameName
  <2> QED
    BY <1>1, <1>3, <2>1, <2>4
<1>6. ASSUME PlaceOf(e) = at PROVE SameDefinition(e, d)
  <2>1. e # Nothing /\ e.place = at
    BY <1>1, <1>3, <1>6
  <2>2. PICK g \in DOMAIN p : StandsIn(p, g, e)
    BY <1>3, <2>1
  <2>3. TextAt(p, at) = <<e.name>>
    BY <2>1, <2>2, DefinitionPlaces
  <2>4. e.name = d.name
    BY <1>4, <2>3
  <2> QED
    BY <1>1, <2>1, <2>4 DEF SameDefinition
<1> QED
  BY <1>2, <1>5, <1>6 DEF d, e

-----------------------------------------------------------------------------
\* A rename at a definition whose name is told apart.
Renaming(p, q, at, new) ==
  /\ Moves(p, q, at, new)
  /\ ExceptionsThrown(p) /\ EnumsApart(p) /\ Fresh(new) /\ Target(p, at) = "definition"
  /\ \A place \in RefPlaces(p) : RefChange(p, q, at, new, place)

\* A reference before and after it.
LEMMA BeforeAndAfter ==
  ASSUME NEW p, NEW q, NEW at, NEW new, Renaming(p, q, at, new), NEW place \in RefPlaces(p)
  PROVE  LET t == TextAt(p, place)
             s == TextAt(q, place)
             sort == SortOf(RefAt(p, place).kind)
         IN  /\ place \in RefPlaces(q) /\ place.file \in DOMAIN p /\ place.file \in DOMAIN q
             /\ RefAt(q, place).kind = RefAt(p, place).kind /\ sort \in Sorts
             /\ t = RefAt(p, place).name /\ s = RefAt(q, place).name /\ IsName(t) /\ IsName(s)
             /\ MeantBy(p, place) = Resolve(p, sort, place.file, t)
             /\ MeantBy(q, place) = Resolve(q, sort, place.file, s)
             /\ ~Contains(t, new)
<1>1. IsProject(p) /\ IsNamed(p) /\ IsProject(q) /\ IsNamed(q) /\ SameShape(p, q) /\ Free(p, new)
  BY DEF Renaming, Moves
<1>2. place \in RefPlaces(q) /\ place \in Places(p)
  BY <1>1, ShapePlaces DEF RefPlaces
<1>3. /\ place.file \in DOMAIN p /\ place.node \in DOMAIN p[place.file].nodes
      /\ place.at \in DOMAIN p[place.file].nodes[place.node].refs
      /\ RefAt(p, place) = p[place.file].nodes[place.node].refs[place.at]
      /\ IsName(RefAt(p, place).name) /\ TextAt(p, place) = RefAt(p, place).name
  BY <1>1, ReferencePlaces
<1>4. /\ place.file \in DOMAIN q
      /\ RefAt(q, place) = q[place.file].nodes[place.node].refs[place.at]
      /\ IsName(RefAt(q, place).name) /\ TextAt(q, place) = RefAt(q, place).name
  BY <1>1, <1>2, ReferencePlaces
<1>5. RefAt(q, place).kind = RefAt(p, place).kind
  BY <1>1, <1>3, <1>4 DEF SameShape
<1>6. /\ SortOf(RefAt(p, place).kind) \in Sorts
      /\ MeantBy(p, place) = Resolve(p, SortOf(RefAt(p, place).kind), place.file, RefAt(p, place).name)
  BY <1>1, MeantResolves
<1>7. MeantBy(q, place) = Resolve(q, SortOf(RefAt(q, place).kind), place.file, RefAt(q, place).name)
  BY <1>1, <1>2, MeantResolves
<1>8. ~Contains(TextAt(p, place), new)
  BY <1>1, <1>2 DEF Free
<1> QED
  BY <1>2, <1>3, <1>4, <1>5, <1>6, <1>7, <1>8

\* The last segment of a name of which one is replaced.
LEMMA LastReplaced ==
  ASSUME NEW t, IsName(t), NEW s, NEW i, NEW new, Replaced(t, s, i, new)
  PROVE  BareName(s) = IF i = Len(t) THEN new ELSE BareName(t)
<1>1. Len(t) \in 1..Len(t)
  BY DEF IsName
<1> QED
  BY <1>1 DEF Replaced, BareName

\* A segment of a name is in it.
LEMMA LastIsIn == ASSUME NEW t, IsName(t) PROVE Contains(t, BareName(t))
<1>1. Len(t) \in 1..Len(t)
  BY DEF IsName
<1> QED
  BY <1>1 DEF Contains, BareName

\* A value in the renamed enum: the enum is a segment before the last.
LEMMA QualifierReplaced ==
  ASSUME NEW p, NEW q, NEW at, NEW new, Renaming(p, q, at, new), NEW place \in RefPlaces(p),
         InEnum(p, place, DefAt(p, at))
  PROVE  LET t == TextAt(p, place)
             x == DefAt(p, at).name
             i == EnumSegment(t, x)
         IN  /\ Replaced(t, TextAt(q, place), i, new) /\ MeantPlace(p, place) # at
             /\ i \in 1..Len(t) /\ t[i] = x /\ i # Len(t)
             /\ \A g \in Files : ~Contains(IncludeName[g], x)
             /\ PlaceOf(Resolve(p, "type", place.file, SubSeq(t, 1, i))) = at
             /\ IsName(SubSeq(t, 1, i))
<1> DEFINE t == TextAt(p, place)
           d == DefAt(p, at)
           i == EnumSegment(t, d.name)
<1>1. /\ IsProject(p) /\ IsNamed(p) /\ NamesApart(p) /\ IsFiniteSet(Files) /\ ExceptionsThrown(p) /\ EnumsApart(p)
      /\ at \in Places(p) /\ at.slot # "ref" /\ Target(p, at) = "definition"
      /\ RefChange(p, q, at, new, place)
  BY DEF Renaming, Moves
<1>2. /\ t = RefAt(p, place).name /\ IsName(t) /\ place.file \in DOMAIN p
  BY BeforeAndAfter
<1>3. MeantPlace(p, place) # at
  BY <1>1, KindsMeet DEF InEnum
<1>4. i # 0 /\ SameDefinition(ResolveType(p, place.file, SubSeq(t, 1, i)), d)
  BY <1>2 DEF InEnum, QualifiesBy
<1>5. i \in 1..Len(t) /\ t[i] = d.name
  <2> HIDE DEF t
  <2> QED
    BY <1>2, <1>4, EnumSegmentIs
<1>6. /\ \A g \in Files : ~Contains(IncludeName[g], d.name)
      /\ BareName(t) # d.name
  BY <1>1, <1>2, EnumApart DEF InEnum
<1>7. i # Len(t)
  BY <1>5, <1>6 DEF BareName
<1>8. IsName(SubSeq(t, 1, i))
  <2> HIDE DEF t, i
  <2> QED
    BY <1>2, <1>5, PartIsName
<1>9. PlaceOf(Resolve(p, "type", place.file, SubSeq(t, 1, i))) = at
  <2> DEFINE u == SubSeq(t, 1, i)
  <2>1. IsName(u) /\ SameDefinition(ResolveType(p, place.file, u), DefAt(p, at))
    BY <1>4, <1>8
  <2> HIDE DEF u
  <2>2. PlaceOf(Resolve(p, "type", place.file, u)) = at
    BY <1>1, <1>2, <2>1, SameIsThis
  <2> QED
    BY <2>2 DEF u
<1>10. Replaced(t, TextAt(q, place), i, new)
  BY <1>1, <1>3 DEF RefChange
<1> QED
  BY <1>3, <1>5, <1>6, <1>7, <1>8, <1>9, <1>10

\* Every reference means what it meant.
LEMMA MeaningMoves ==
  ASSUME NEW p, NEW q, NEW at, NEW new, Renaming(p, q, at, new), NEW place \in RefPlaces(p)
  PROVE  MeantPlace(q, place) = MeantPlace(p, place)
<1> DEFINE t == TextAt(p, place)
           s == TextAt(q, place)
           f == place.file
           sort == SortOf(RefAt(p, place).kind)
           d == DefAt(p, at)
           i == EnumSegment(t, d.name)
<1>1. /\ Moves(p, q, at, new) /\ Fresh(new) /\ RefChange(p, q, at, new, place)
      /\ IsProject(p) /\ IsNamed(p) /\ at \in Places(p) /\ at.slot # "ref"
  BY DEF Renaming, Moves
<1>2. /\ f \in DOMAIN p /\ sort \in Sorts /\ IsName(t) /\ IsName(s) /\ ~Contains(t, new)
      /\ MeantPlace(p, place) = PlaceOf(Resolve(p, sort, f, t))
      /\ MeantPlace(q, place) = PlaceOf(Resolve(q, sort, f, s))
  BY BeforeAndAfter DEF MeantPlace
<1>3. BareName(t) # new
  <2> HIDE DEF t
  <2> QED
    BY <1>2, LastIsIn
<1>4. /\ MeantPlace(p, place) = at => Replaced(t, s, Len(t), new)
      /\ MeantPlace(p, place) # at /\ InEnum(p, place, d) => Replaced(t, s, i, new)
      /\ MeantPlace(p, place) # at /\ ~InEnum(p, place, d) => s = t
  BY <1>1 DEF RefChange
<1>5. ASSUME InEnum(p, place, d)
      PROVE  i # Len(t) /\ (\A g \in Files : ~Contains(IncludeName[g], t[i])) /\ sort = "value"
  <2>1. i # Len(t) /\ t[i] = d.name /\ \A g \in Files : ~Contains(IncludeName[g], d.name)
    BY <1>5, QualifierReplaced
  <2>2. sort = "value"
    BY <1>5 DEF InEnum, SortOf, TypeSlots
  <2> QED
    BY <2>1, <2>2
<1>6. at # Silent
  BY <1>1, DefAtStands
<1> HIDE DEF t, s, f, sort, d, i
<1>7. CASE MeantPlace(p, place) = at
  <2>1. Replaced(t, s, Len(t), new)
    BY <1>4, <1>7
  <2>2. ~Lost(p, sort, f, t)
    BY <1>1, <1>2, <1>6, <1>7, ResolveIs
  <2>3. Reads(p, q, sort, f, t, s)
    BY <1>1, <1>2, <2>1, <2>2, ReadsReplaced DEF Lost
  <2>4. BareName(s) = new
    BY <1>2, <2>1, LastReplaced
  <2>5. PlaceOf(Resolve(p, sort, f, t)) = at
    BY <1>2, <1>7
  <2>6. PlaceOf(Resolve(q, sort, f, s)) = at
    BY <1>1, <1>2, <2>3, <2>4, <2>5, ResolveMoves
  <2> QED
    BY <1>2, <1>7, <2>6
<1>8. CASE MeantPlace(p, place) # at /\ InEnum(p, place, d)
  <2>1. Replaced(t, s, i, new) /\ sort # "type"
    BY <1>4, <1>5, <1>8
  <2>2. Reads(p, q, sort, f, t, s)
    BY <1>1, <1>2, <1>5, <1>8, <2>1, ReadsReplaced
  <2>3. BareName(s) = BareName(t)
    BY <1>2, <1>5, <1>8, <2>1, LastReplaced
  <2> QED
    BY <1>1, <1>2, <1>3, <1>8, <2>2, <2>3, ResolveMoves
<1>9. CASE MeantPlace(p, place) # at /\ ~InEnum(p, place, d)
  <2>1. s = t
    BY <1>4, <1>9
  <2>2. Reads(p, q, sort, f, t, t)
    BY <1>1, <1>2, ReadsSame
  <2> QED
    BY <1>1, <1>2, <1>3, <1>9, <2>1, <2>2, ResolveMoves
<1> QED
  BY <1>7, <1>8, <1>9

\* What names have in common that begin alike.
LEMMA SameHead ==
  ASSUME NEW t, IsName(t), NEW s, IsName(s), NEW k \in 1..Len(t), Len(s) = Len(t),
         \A j \in 1..k : s[j] = t[j]
  PROVE  SubSeq(s, 1, k) = SubSeq(t, 1, k)
<1> DEFINE a == SubSeq(t, 1, k)
           b == SubSeq(s, 1, k)
<1>1. PICK S : t \in Seq(S)
  BY DEF IsName
<1>2. PICK T : s \in Seq(T)
  BY DEF IsName
<1>3. k \in 0..Len(t) /\ k \in 0..Len(s)
  BY <1>1
<1>4. a \in Seq(S) /\ Len(a) = k /\ \A j \in 1..k : a[j] = t[j]
  BY <1>1, <1>3, HeadMeans
<1>5. b \in Seq(T) /\ Len(b) = k /\ \A j \in 1..k : b[j] = s[j]
  BY <1>2, <1>3, HeadMeans
<1> HIDE DEF a, b
<1>6. a = [j \in 1..k |-> a[j]] /\ b = [j \in 1..k |-> b[j]]
  BY <1>4, <1>5
<1>7. \A j \in 1..k : b[j] = a[j]
  BY <1>4, <1>5
<1>8. b = a
  BY <1>6, <1>7
<1> QED
  BY <1>8 DEF a, b

\* An enum that a value is qualified with is looked up by what it still is.
LEMMA QualifierMoves ==
  ASSUME NEW p, NEW q, NEW at, NEW new, Renaming(p, q, at, new), NEW place \in RefPlaces(p),
         InItsEnum(p, place)
  PROVE  LET t == TextAt(p, place)
             s == TextAt(q, place)
             n == Len(t)
         IN  /\ IsName(SubSeq(t, 1, n - 1)) /\ IsName(SubSeq(s, 1, n - 1)) /\ Len(s) = n
             /\ PlaceOf(Resolve(q, "type", place.file, SubSeq(s, 1, n - 1))) =
                PlaceOf(Resolve(p, "type", place.file, SubSeq(t, 1, n - 1)))
<1> DEFINE t == TextAt(p, place)
           s == TextAt(q, place)
           n == Len(t)
           k == n - 1
           f == place.file
           d == DefAt(p, at)
           i == EnumSegment(t, d.name)
           u == SubSeq(t, 1, n - 1)
           w == SubSeq(s, 1, n - 1)
           enum == Resolve(p, "type", f, u)
<1>1. /\ Moves(p, q, at, new) /\ Fresh(new) /\ RefChange(p, q, at, new, place)
      /\ IsProject(p) /\ IsNamed(p) /\ NamesApart(p) /\ IsFiniteSet(Files)
      /\ at \in Places(p) /\ at.slot # "ref"
  BY DEF Renaming, Moves
<1>2. /\ f \in DOMAIN p /\ IsName(t) /\ IsName(s) /\ ~Contains(t, new) /\ t = RefAt(p, place).name
  BY BeforeAndAfter
<1>3. RefAt(p, place).kind = "value" /\ n > 1 /\ enum.kind = "enum"
  BY DEF InItsEnum, Resolve
<1>4. /\ MeantPlace(p, place) = at => Replaced(t, s, n, new)
      /\ MeantPlace(p, place) # at /\ InEnum(p, place, d) => Replaced(t, s, i, new)
      /\ MeantPlace(p, place) # at /\ ~InEnum(p, place, d) => s = t
  BY <1>1 DEF RefChange
<1>5. InEnum(p, place, d) =>
        /\ Replaced(t, s, i, new)
        /\ i \in 1..n /\ t[i] = d.name /\ i # n
        /\ \A g \in Files : ~Contains(IncludeName[g], d.name)
        /\ PlaceOf(Resolve(p, "type", f, SubSeq(t, 1, i))) = at
  BY QualifierReplaced
<1>6. InEnum(p, place, d) <=> d.kind = "enum" /\ i # 0 /\ SameDefinition(ResolveType(p, f, SubSeq(t, 1, i)), d)
  BY <1>2, <1>3 DEF InEnum, QualifiesBy
<1>7. StandsIn(p, at.file, d) /\ d.place = at /\ at.file \in DOMAIN p
  BY <1>1, DefAtStands
<1>8. IF i = 0 THEN \A j \in 1..n : t[j] # d.name
      ELSE i \in 1..n /\ t[i] = d.name /\ \A j \in 1..n : t[j] = d.name => i <= j
  <2> HIDE DEF t, d
  <2> QED
    BY <1>2, EnumSegmentIs
<1>9. TextAt(p, at) = <<d.name>> /\ d.kind = IF at.slot = "member" THEN "member" ELSE NodeAt(p, at).kind
  BY <1>7, DefinitionPlaces
<1>10. d.kind = "enum" => \A g \in Files : ~Contains(IncludeName[g], d.name)
  BY <1>1, EnumApart DEF Renaming
<1> HIDE DEF t, s, f, d, i, u, w, enum
<1>11. Len(s) = n
  BY <1>4, <1>5 DEF Replaced
<1>12. n \in Nat /\ k \in Nat /\ 1 <= k /\ k < n /\ k \in 1..n /\ \A j \in 1..k : j \in 1..n /\ j # n
  BY <1>2, <1>3 DEF IsName
<1>13. /\ IsName(u) /\ Len(u) = k /\ \A j \in 1..k : u[j] = t[j]
       /\ IsName(w) /\ Len(w) = k /\ \A j \in 1..k : w[j] = s[j]
  <2> HIDE DEF n
  <2>1. IsName(SubSeq(t, 1, k)) /\ Len(SubSeq(t, 1, k)) = k /\ \A j \in 1..k : SubSeq(t, 1, k)[j] = t[j]
    BY <1>2, <1>12, PartIsName DEF n
  <2>2. IsName(SubSeq(s, 1, k)) /\ Len(SubSeq(s, 1, k)) = k /\ \A j \in 1..k : SubSeq(s, 1, k)[j] = s[j]
    BY <1>2, <1>11, <1>12, PartIsName
  <2> QED
    BY <2>1, <2>2 DEF u, w
<1> DEFINE E == PlaceOf(enum)
<1>14. "type" \in Sorts
  BY DEF Sorts
<1>15. E # Silent /\ enum.kind = IF E.slot = "member" THEN "member" ELSE NodeAt(p, E).kind
  <2>1. \/ enum = Nothing /\ PlaceOf(enum) = Silent
        \/ /\ PlaceOf(enum) = enum.place /\ enum.place # Silent
           /\ enum.kind = IF enum.place.slot = "member" THEN "member" ELSE NodeAt(p, enum.place).kind
    BY <1>1, <1>2, <1>13, <1>14, MeantStands DEF enum
  <2>2. enum # Nothing
    BY <1>3 DEF Nothing
  <2> QED
    BY <2>1, <2>2
<1>16. /\ E.slot = "name" /\ TextAt(p, E) = <<BareName(u)>>
       /\ Len(ParseIdent(p, f, u)) + 1 = Len(u)
       /\ ~Lost(p, "type", f, u)
  <2> DEFINE x == Resolve(p, "type", f, u)
  <2>1. PlaceOf(x) # Silent
    BY <1>15 DEF enum
  <2>2. /\ Suits(p, "type", PlaceOf(x)) /\ TextAt(p, PlaceOf(x)) = <<BareName(u)>>
        /\ "type" # "value" => Len(ParseIdent(p, f, u)) + 1 = Len(u)
    BY <1>1, <1>2, <1>13, <1>14, <2>1, ResolveSuits
  <2>3. ~Lost(p, "type", f, u)
    BY <1>1, <1>2, <1>13, <1>14, <2>1, ResolveIs
  <2> QED
    BY <2>2, <2>3 DEF Suits, enum
<1> HIDE DEF E
<1>17. CASE E = at
  <2>1. d.kind = "enum" /\ d.name = BareName(u)
    <3>1. <<d.name>> = <<BareName(u)>>
      BY <1>9, <1>16, <1>17
    <3> QED
      BY <1>3, <1>9, <1>15, <1>16, <1>17, <3>1
  <2>2. t[k] = d.name /\ BareName(u) = u[k]
    BY <1>12, <1>13, <2>1 DEF BareName
  <2>3. i \in 1..n /\ t[i] = d.name /\ i <= k
    BY <1>8, <1>12, <2>2
  <2>4. i \in 1..k /\ u[i] = d.name
    <3>1. i \in 1..k
      BY <1>12, <2>3
    <3> QED
      BY <1>13, <2>3, <3>1
  <2>5. i = k
    <3> HIDE DEF k
    <3> QED
      BY <1>1, <1>2, <1>10, <1>13, <1>16, <2>1, <2>4, EnumIsLast
  <2>6. SubSeq(t, 1, i) = u
    BY <2>5 DEF u
  <2>7. SameDefinition(ResolveType(p, f, u), d)
    BY <1>1, <1>2, <1>13, <1>17, SameIsThis DEF E, enum, d
  <2>8. Replaced(t, s, k, new)
    <3>1. i # 0
      BY <1>12, <2>5
    <3>2. InEnum(p, place, d)
      BY <1>6, <2>1, <2>6, <2>7, <3>1
    <3> QED
      BY <1>5, <2>5, <3>2
  <2>9. Replaced(u, w, k, new)
    BY <1>12, <1>13, <2>8 DEF Replaced
  <2>10. Reads(p, q, "type", f, u, w)
    <3>1. u \notin BasicType
      BY <1>16 DEF Lost
    <3> HIDE DEF k
    <3> QED
      BY <1>1, <1>2, <1>13, <2>9, <3>1, ReadsReplaced
  <2>11. BareName(w) = new
    <3> HIDE DEF k
    <3> QED
      BY <1>13, <2>9, LastReplaced
  <2>12. PlaceOf(Resolve(p, "type", f, u)) = at
    BY <1>17 DEF E, enum
  <2>13. PlaceOf(Resolve(q, "type", f, w)) = at
    BY <1>1, <1>2, <1>14, <2>10, <2>11, <2>12, ResolveMoves
  <2>14. PlaceOf(Resolve(q, "type", f, w)) = E
    BY <1>17, <2>13
  <2> QED
    BY <1>11, <1>13, <2>14 DEF E, enum, u, w, t, s, f
<1>18. CASE E # at
  <2>1. ~InEnum(p, place, d)
    <3> SUFFICES ASSUME InEnum(p, place, d) PROVE FALSE
      OBVIOUS
    <3>1. i \in 1..k /\ t[i] = d.name /\ \A g \in Files : ~Contains(IncludeName[g], d.name)
      BY <1>5, <1>12
    <3>2. u[i] = d.name
      BY <1>13, <3>1
    <3>3. i = k
      <4> HIDE DEF k
      <4> QED
        BY <1>1, <1>2, <1>13, <1>16, <3>1, <3>2, EnumIsLast
    <3>4. SubSeq(t, 1, i) = u
      BY <3>3 DEF u
    <3> QED
      BY <1>5, <1>18, <3>4 DEF E, enum
  <2>2. \A j \in 1..k : s[j] = t[j]
    <3>1. Replaced(t, s, n, new) \/ s = t
      BY <1>4, <2>1
    <3> QED
      BY <1>12, <3>1 DEF Replaced
  <2>3. w = u
    <3> HIDE DEF n
    <3>1. SubSeq(s, 1, k) = SubSeq(t, 1, k)
      BY <1>2, <1>11, <1>12, <2>2, SameHead DEF n
    <3> QED
      BY <3>1 DEF u, w
  <2>4. Reads(p, q, "type", f, u, u)
    BY <1>1, <1>2, <1>13, ReadsSame
  <2>5. BareName(u) # new
    <3>1. BareName(u) = t[k]
      BY <1>12, <1>13 DEF BareName
    <3>2. Contains(t, t[k])
      BY <1>12 DEF Contains
    <3> QED
      BY <1>2, <3>1, <3>2
  <2>6. PlaceOf(Resolve(p, "type", f, u)) # at
    BY <1>18 DEF E, enum
  <2>7. PlaceOf(Resolve(q, "type", f, u)) = PlaceOf(Resolve(p, "type", f, u))
    BY <1>1, <1>2, <1>14, <2>4, <2>5, <2>6, ResolveMoves
  <2> QED
    BY <1>11, <1>13, <2>3, <2>7 DEF u, w, t, s, f
<1> QED
  BY <1>17, <1>18

\* A value stays in its enum.
LEMMA StaysInItsEnum ==
  ASSUME NEW p, NEW q, NEW at, NEW new, Renaming(p, q, at, new), NEW place \in RefPlaces(p),
         InItsEnum(p, place)
  PROVE  InItsEnum(q, place)
<1> DEFINE t == TextAt(p, place)
           s == TextAt(q, place)
           f == place.file
           u == SubSeq(t, 1, Len(t) - 1)
           w == SubSeq(s, 1, Len(t) - 1)
           v == MeantBy(p, place)
           e == MeantBy(q, place)
           enum == ResolveType(p, f, u)
           also == ResolveType(q, f, w)
<1>1. Moves(p, q, at, new)
  BY DEF Renaming
<1>2. /\ f \in DOMAIN p /\ IsName(t) /\ IsName(s)
      /\ RefAt(q, place).kind = RefAt(p, place).kind
      /\ v = Resolve(p, SortOf(RefAt(p, place).kind), f, t)
      /\ e = Resolve(q, SortOf(RefAt(p, place).kind), f, s)
      /\ SortOf(RefAt(p, place).kind) \in Sorts
  BY BeforeAndAfter
<1>3. /\ IsName(u) /\ IsName(w) /\ Len(s) = Len(t)
      /\ PlaceOf(Resolve(q, "type", f, w)) = PlaceOf(Resolve(p, "type", f, u))
  BY QualifierMoves
<1>4. /\ RefAt(p, place).kind = "value" /\ Len(t) > 1
      /\ v.kind = "member" /\ enum.kind = "enum"
      /\ v.place.file = enum.place.file /\ v.place.node = enum.place.node
  BY DEF InItsEnum
<1>5. PlaceOf(e) = PlaceOf(v)
  BY MeaningMoves DEF MeantPlace
<1>6. enum = Resolve(p, "type", f, u) /\ also = Resolve(q, "type", f, w)
  BY DEF Resolve
<1>7. "type" \in Sorts /\ v # Nothing /\ enum # Nothing
  BY <1>4 DEF Sorts, Nothing
<1> HIDE DEF t, s, f, u, w, v, e, enum, also
<1>8. e.place = v.place /\ e.kind = v.kind
  BY <1>1, <1>2, <1>5, <1>7, SameKind
<1>9. also.place = enum.place /\ also.kind = enum.kind
  BY <1>1, <1>2, <1>3, <1>6, <1>7, SameKind
<1>10. also = ResolveType(q, f, SubSeq(s, 1, Len(s) - 1))
  BY <1>3 DEF also, w
<1> QED
  BY <1>2, <1>3, <1>4, <1>8, <1>9, <1>10 DEF InItsEnum, e, s, f

-----------------------------------------------------------------------------
\* What the projects are told apart by stays so.
LEMMA ThrownStill ==
  ASSUME NEW p, NEW q, NEW at, NEW new, Renaming(p, q, at, new)
  PROVE  ExceptionsThrown(q)
<1>1. SUFFICES ASSUME NEW place \in RefPlaces(q), MeantBy(q, place).kind = "exception"
               PROVE  RefAt(q, place).kind # "field"
  BY DEF ExceptionsThrown
<1>2. place \in RefPlaces(p) /\ Moves(p, q, at, new)
  BY ShapePlaces DEF Renaming, Moves
<1>3. /\ place.file \in DOMAIN p /\ IsName(TextAt(p, place)) /\ IsName(TextAt(q, place))
      /\ RefAt(q, place).kind = RefAt(p, place).kind
      /\ SortOf(RefAt(p, place).kind) \in Sorts
      /\ MeantBy(p, place) = Resolve(p, SortOf(RefAt(p, place).kind), place.file, TextAt(p, place))
      /\ MeantBy(q, place) = Resolve(q, SortOf(RefAt(p, place).kind), place.file, TextAt(q, place))
  BY <1>2, BeforeAndAfter
<1>4. PlaceOf(MeantBy(q, place)) = PlaceOf(MeantBy(p, place))
  BY <1>2, MeaningMoves DEF MeantPlace
<1>5. MeantBy(q, place) # Nothing
  BY <1>1 DEF Nothing
<1>6. MeantBy(p, place).kind = "exception"
  BY <1>1, <1>2, <1>3, <1>4, <1>5, SameKind
<1> QED
  BY <1>2, <1>3, <1>6 DEF Renaming, ExceptionsThrown

\* What a value ends in after a rename: what it ended in, or the new name of
\* a definition that is no enum.
LEMMA ValueEnds ==
  ASSUME NEW p, NEW q, NEW at, NEW new, Renaming(p, q, at, new), NEW place \in RefPlaces(p),
         RefAt(p, place).kind = "value"
  PROVE  \/ BareName(TextAt(q, place)) = BareName(TextAt(p, place)) /\ BareName(TextAt(p, place)) # new
         \/ BareName(TextAt(q, place)) = new /\ DefAt(p, at).kind # "enum"
<1> DEFINE t == TextAt(p, place)
           s == TextAt(q, place)
           d == DefAt(p, at)
           i == EnumSegment(t, d.name)
<1>1. /\ IsProject(p) /\ IsNamed(p) /\ NamesApart(p) /\ IsFiniteSet(Files) /\ ExceptionsThrown(p)
      /\ at \in Places(p) /\ at.slot # "ref" /\ Target(p, at) = "definition"
      /\ RefChange(p, q, at, new, place)
  BY DEF Renaming, Moves
<1>2. IsName(t) /\ ~Contains(t, new)
  BY BeforeAndAfter
<1>3. /\ MeantPlace(p, place) = at => Replaced(t, s, Len(t), new)
      /\ MeantPlace(p, place) # at /\ InEnum(p, place, d) => Replaced(t, s, i, new)
      /\ MeantPlace(p, place) # at /\ ~InEnum(p, place, d) => s = t
  BY <1>1 DEF RefChange
<1>4. MeantPlace(p, place) = at => d.kind # "enum"
  BY <1>1, KindsMeet
<1>5. InEnum(p, place, d) => i # Len(t)
  BY QualifierReplaced
<1> HIDE DEF t, s, d, i
<1>6. BareName(t) # new
  BY <1>2, LastIsIn
<1>7. \A j : Replaced(t, s, j, new) => BareName(s) = IF j = Len(t) THEN new ELSE BareName(t)
  BY <1>2, LastReplaced
<1> QED
  BY <1>3, <1>4, <1>5, <1>6, <1>7 DEF t, s, d

\* Enums stay apart: only a definition that is no enum is met by a value.
LEMMA EnumsStill ==
  ASSUME NEW p, NEW q, NEW at, NEW new, Renaming(p, q, at, new)
  PROVE  EnumsApart(q)
<1>1. SUFFICES ASSUME NEW f \in DOMAIN q, NEW n \in DOMAIN q[f].nodes, q[f].nodes[n].kind = "enum"
               PROVE  LET x == q[f].nodes[n].name
                      IN  /\ \A g \in Files : ~Contains(IncludeName[g], x)
                          /\ \A place \in RefPlaces(q) :
                               RefAt(q, place).kind = "value" => BareName(RefAt(q, place).name) # x
  BY DEF EnumsApart
<1> DEFINE x == p[f].nodes[n].name
           y == q[f].nodes[n].name
           here == Place(f, n, "name", 0)
<1>2. /\ Moves(p, q, at, new) /\ EnumsApart(p) /\ Fresh(new) /\ RefPlaces(q) = RefPlaces(p)
      /\ f \in DOMAIN p /\ n \in DOMAIN p[f].nodes /\ p[f].nodes[n].kind = "enum"
  <2>1. SameShape(p, q) /\ Moves(p, q, at, new) /\ EnumsApart(p) /\ Fresh(new)
    BY DEF Renaming, Moves
  <2> QED
    BY <1>1, <2>1, ShapePlaces DEF SameShape
<1>3. /\ here.slot = "name" /\ here.file = f /\ here.node = n
      /\ here \in Places(p)
  <2>1. IsPlace(p, here)
    BY <1>2 DEF IsPlace
  <2> QED
    BY <2>1, PlacesAre DEF Place
<1>4. TextAt(p, here) = <<x>> /\ TextAt(q, here) = <<y>>
  BY <1>3 DEF TextAt, NodeAt
<1>5. IF here = at THEN y = new ELSE y = x
  <2>1. TextAt(q, here) = IF here = at THEN <<new>> ELSE TextAt(p, here)
    BY <1>2, <1>3 DEF Moves
  <2>2. \A a, b : <<a>> = <<b>> => a = b
    OBVIOUS
  <2> QED
    BY <1>4, <2>1, <2>2
<1>6. here = at => DefAt(p, at).kind = "enum"
  <2>1. at \in Places(p) /\ at.slot # "ref"
    BY <1>2 DEF Moves
  <2>2. StandsIn(p, at.file, DefAt(p, at)) /\ at.file \in DOMAIN p /\ DefAt(p, at).place = at
    BY <2>1, DefAtStands
  <2>3. here = at => NodeAt(p, at).kind = "enum" /\ at.slot = "name"
    BY <1>2, <1>3 DEF NodeAt
  <2> DEFINE d == DefAt(p, at)
  <2> HIDE DEF d
  <2>4. d.kind = IF d.place.slot = "member" THEN "member" ELSE NodeAt(p, d.place).kind
    BY <2>2, DefinitionPlaces DEF d
  <2> QED
    BY <2>2, <2>3, <2>4 DEF d
<1>7. x # new
  <2>1. Contains(<<x>>, x)
    BY DEF Contains
  <2>2. ~Contains(TextAt(p, here), new)
    BY <1>2, <1>3 DEF Moves, Free
  <2> QED
    BY <1>4, <2>1, <2>2
<1>8. /\ \A g \in Files : ~Contains(IncludeName[g], x)
      /\ \A place \in RefPlaces(p) : RefAt(p, place).kind = "value" => BareName(RefAt(p, place).name) # x
  BY <1>2 DEF EnumsApart
<1>9. \A g \in Files : ~Contains(IncludeName[g], y)
  BY <1>2, <1>5, <1>8 DEF Fresh
<1> HIDE DEF x, y, here
<1>10. ASSUME NEW place \in RefPlaces(q), RefAt(q, place).kind = "value"
       PROVE  BareName(RefAt(q, place).name) # y
  <2>1. /\ RefAt(p, place).kind = "value"
        /\ TextAt(p, place) = RefAt(p, place).name /\ TextAt(q, place) = RefAt(q, place).name
    BY <1>2, <1>10, BeforeAndAfter
  <2>2. \/ BareName(TextAt(q, place)) = BareName(TextAt(p, place)) /\ BareName(TextAt(p, place)) # new
        \/ BareName(TextAt(q, place)) = new /\ DefAt(p, at).kind # "enum"
    BY <1>2, <1>10, <2>1, ValueEnds
  <2>3. BareName(TextAt(p, place)) # x
    BY <1>2, <1>8, <1>10, <2>1
  <2> QED
    BY <1>5, <1>6, <1>7, <2>1, <2>2, <2>3
<1> QED
  BY <1>9, <1>10 DEF y

\* The answer to a request to rename a definition whose name is told apart.
RenameAsked ==
  answer.to = "rename" =>
    /\ answer.at \in Places(project) /\ answer.at.slot # "ref"
    /\ Target(project, answer.at) = "definition"
    /\ \E new \in NewNames : /\ Free(project, new) /\ Fresh(new)
                             /\ answer.edits = Edits(Hits(project, answer.at), new)

\* No reference is the target of a rename at a definition.
LEMMA NoReference ==
  ASSUME NEW p, IsProject(p), IsNamed(p), NEW at \in Places(p), Target(p, at) = "definition"
  PROVE  at.slot # "ref"
<1> SUFFICES ASSUME at.slot = "ref" PROVE FALSE
  OBVIOUS
<1>1. at \in RefPlaces(p)
  BY DEF RefPlaces
<1>2. RefAt(p, at).kind \in SlotKinds
  BY <1>1, ReferencePlaces
<1> QED
  BY <1>2 DEF Target, SlotKinds

\* Whatever files include each other, whatever names they share and however
\* many renames came before: after a rename at a definition every reference
\* means what it meant, or nothing if it meant nothing, and a value that is
\* qualified with its enum still is.  The names of a file differ; an enum has
\* the name of no part of a file's name and of no value; a field has no
\* exception for its type; a new name is free and no part of a file's name.
THEOREM MeaningIsKept ==
  ASSUME RenameAt \subseteq {"definition"},
         \A p \in Projects : NamesApart(p) /\ EnumsApart(p) /\ ExceptionsThrown(p),
         \A new \in NewNames : Fresh(new)
  PROVE  Spec => RenameKeepsMeaning
<1> DEFINE Inv == /\ IsProject(project) /\ IsNamed(project) /\ NamesApart(project)
                  /\ EnumsApart(project) /\ ExceptionsThrown(project) /\ RenameAsked
           Kept == \A place \in RefPlaces(project) :
                     /\ MeantPlace(project', place) = MeantPlace(project, place)
                     /\ InItsEnum(project, place) => InItsEnum(project', place)
<1>1. IsFiniteSet(Files)
  BY ProjectsAssumption
<1>2. Init => Inv
  BY ProjectsAreProjects, ProjectsNamed DEF Init, RenameAsked, Silent
<1>3. ASSUME Inv, Apply PROVE \E at, new : Renaming(project, project', at, new)
  <2> DEFINE p == project
             q == project'
             at == answer.at
  <2>1. answer.to = "rename" /\ Fits(answer.edits) /\ q = Made(p, answer.edits)
    BY <1>3 DEF Apply
  <2>2. PICK new \in NewNames : Free(p, new) /\ Fresh(new) /\ answer.edits = Edits(Hits(p, at), new)
    BY <1>3, <2>1 DEF RenameAsked
  <2>3. at \in Places(p) /\ at.slot # "ref" /\ Target(p, at) = "definition"
    BY <1>3, <2>1 DEF RenameAsked
  <2>4. Fits(Edits(Hits(p, at), new)) /\ q = Made(p, Edits(Hits(p, at), new))
    BY <2>1, <2>2
  <2>5. /\ Moves(p, Made(p, Edits(Hits(p, at), new)), at, new)
        /\ \A place \in RefPlaces(p) : RefChange(p, Made(p, Edits(Hits(p, at), new)), at, new, place)
    BY <1>1, <1>3, <2>2, <2>3, <2>4, RenameMoves
  <2>6. Renaming(p, q, at, new)
    BY <1>3, <2>2, <2>3, <2>4, <2>5 DEF Renaming
  <2> QED
    BY <2>6
<1>4. ASSUME Inv, [Next]_vars PROVE Inv'
  <2>1. ASSUME NEW place \in Places(project), AskReferences(place) PROVE Inv'
    <3>1. project' = project /\ answer'.to = "references"
      BY <2>1 DEF AskReferences
    <3> QED
      BY <1>4, <3>1 DEF RenameAsked
  <2>2. ASSUME NEW place \in Places(project), NEW new \in NewNames, AskRename(place, new)
        PROVE  Inv'
    <3>1. /\ project' = project /\ Free(project, new) /\ Target(project, place) = "definition"
          /\ answer' = [to |-> "rename", at |-> place, edits |-> Edits(Hits(project, place), new)]
      BY <2>2 DEF AskRename
    <3>2. answer'.at = place /\ answer'.edits = Edits(Hits(project, place), new)
      BY <3>1
    <3>3. place.slot # "ref"
      BY <1>4, <3>1, NoReference
    <3>4. RenameAsked'
      BY <3>1, <3>2, <3>3 DEF RenameAsked
    <3> QED
      BY <1>4, <3>1, <3>4
  <2>3. CASE Apply
    <3>1. PICK at, new : Renaming(project, project', at, new)
      BY <1>3, <1>4, <2>3
    <3>2. IsProject(project') /\ IsNamed(project') /\ NamesApart(project')
      BY <3>1 DEF Renaming, Moves
    <3>3. EnumsApart(project') /\ ExceptionsThrown(project')
      BY <3>1, EnumsStill, ThrownStill
    <3>4. RenameAsked'
      BY <2>3 DEF Apply, RenameAsked, Silent
    <3> QED
      BY <3>2, <3>3, <3>4
  <2>4. CASE UNCHANGED vars
    BY <1>4, <2>4 DEF vars, RenameAsked
  <2> QED
    BY <1>4, <2>1, <2>2, <2>3, <2>4 DEF Next
<1>5. ASSUME Inv, Apply PROVE Kept
  <2>1. PICK at, new : Renaming(project, project', at, new)
    BY <1>3, <1>5
  <2> QED
    BY <2>1, MeaningMoves, StaysInItsEnum
<1>6. Inv /\ [Next]_vars => [Apply => Kept]_vars
  BY <1>5
<1>7. Spec => [][Apply => Kept]_vars
  BY <1>2, <1>4, <1>6, PTL DEF Spec
<1> QED
  BY <1>7 DEF RenameKeepsMeaning
=============================================================================
