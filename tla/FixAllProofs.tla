---------------------------- MODULE FixAllProofs ----------------------------
(***************************************************************************)
(* Theorems about FixAll, for any folder, any targets and any number of    *)
(* passes.                                                                 *)
(***************************************************************************)
EXTENDS FixAll, FunctionTheorems, Induction

Folder == [File -> Seq(Seq(Statement))]
Reference == [name : Name, via : File \cup {AnyFile}]

-----------------------------------------------------------------------------
(***************************************************************************)
(* The data: a file has finitely many places, uses and fixes.              *)
(***************************************************************************)
LEMMA PlaceTyped ==
  ASSUME NEW v \in Folder, NEW f \in File, NEW p \in Places(v, f)
  PROVE  /\ p[1] \in 1..Len(v[f]) /\ p[2] \in 1..Len(v[f][p[1]])
         /\ p = <<p[1], p[2]>>
         /\ v[f] \in Seq(Seq(Statement)) /\ v[f][p[1]] \in Seq(Statement)
         /\ At(v, f, p) \in Statement
<1>1. v[f] \in Seq(Seq(Statement))
  BY DEF Folder
<1>2. PICK l \in DOMAIN v[f] : p \in {l} \X DOMAIN v[f][l]
  BY DEF Places
<1>3. l \in 1..Len(v[f]) /\ v[f][l] \in Seq(Statement)
  BY <1>1, <1>2
<1>4. DOMAIN v[f][l] = 1..Len(v[f][l])
  BY <1>3
<1> QED
  BY <1>1, <1>2, <1>3, <1>4 DEF At

LEMMA PlaceOf ==
  ASSUME NEW v \in Folder, NEW f \in File,
         NEW l \in 1..Len(v[f]), NEW k \in 1..Len(v[f][l])
  PROVE  <<l, k>> \in Places(v, f) /\ At(v, f, <<l, k>>) = v[f][l][k]
<1>1. v[f] \in Seq(Seq(Statement))
  BY DEF Folder
<1>2. v[f][l] \in Seq(Statement) /\ l \in DOMAIN v[f]
  BY <1>1
<1>3. k \in DOMAIN v[f][l]
  BY <1>2
<1> QED
  BY <1>2, <1>3 DEF Places, At

LEMMA PlacesFinite ==
  ASSUME NEW v \in Folder, NEW f \in File
  PROVE  IsFiniteSet(Places(v, f))
<1> DEFINE D == DOMAIN v[f]
           T == {{l} \X DOMAIN v[f][l] : l \in D}
           g == [l \in D |-> {l} \X DOMAIN v[f][l]]
<1>1. v[f] \in Seq(Seq(Statement))
  BY DEF Folder
<1>2. D = 1..Len(v[f]) /\ Len(v[f]) \in Nat
  BY <1>1
<1>3. IsFiniteSet(D)
  BY <1>2, FS_Interval
<1>4. g \in Surjection(D, T)
  BY DEF Surjection
<1>5. IsFiniteSet(T)
  <2> HIDE DEF D, T, g
  <2> QED
    BY <1>3, <1>4, FS_Surjection
<1>6. ASSUME NEW t \in T PROVE IsFiniteSet(t)
  <2>1. PICK l \in D : t = {l} \X DOMAIN v[f][l]
    OBVIOUS
  <2>2. v[f][l] \in Seq(Statement)
    BY <1>1, <1>2, <2>1
  <2>3. DOMAIN v[f][l] = 1..Len(v[f][l]) /\ Len(v[f][l]) \in Nat
    BY <2>2
  <2>4. IsFiniteSet(DOMAIN v[f][l])
    BY <2>3, FS_Interval
  <2>5. IsFiniteSet({l})
    BY FS_Singleton
  <2> QED
    BY <2>1, <2>4, <2>5, FS_Product
<1> QED
  <2>1. IsFiniteSet(UNION T)
    <3> HIDE DEF T
    <3> QED
      BY <1>5, <1>6, FS_UNION
  <2> QED
    BY <2>1 DEF Places

LEMMA UseTyped ==
  ASSUME NEW v \in Folder, NEW f \in File, NEW u \in Uses(v, f)
  PROVE  u = <<u[1], u[2]>> /\ u[1] \in Places(v, f) /\ u[2] \in Reference
<1>1. PICK p \in Places(v, f) \ Includes(v, f) : u \in {<<p, use>> : use \in At(v, f, p).uses}
  BY DEF Uses
<1>2. At(v, f, p) \in Statement /\ At(v, f, p).kind # "include"
  BY <1>1, PlaceTyped DEF Includes
<1>3. At(v, f, p).uses \subseteq Reference
  BY <1>2 DEF Statement, Reference
<1> QED
  BY <1>1, <1>3

LEMMA UsesFinite ==
  ASSUME NEW v \in Folder, NEW f \in File
  PROVE  IsFiniteSet(Uses(v, f))
<1> DEFINE V == File \cup {AnyFile}
           g == [p \in Name \X V |-> [name |-> p[1], via |-> p[2]]]
<1>1. IsFiniteSet(V)
  BY FiniteAssumption, FS_Singleton, FS_Union
<1>2. IsFiniteSet(Name \X V)
  BY <1>1, FiniteAssumption, FS_Product
<1>3. g \in Surjection(Name \X V, Reference)
  <2>1. g \in [Name \X V -> Reference]
    BY DEF Reference
  <2>2. ASSUME NEW r \in Reference PROVE \E p \in Name \X V : g[p] = r
    <3>1. <<r.name, r.via>> \in Name \X V
      BY DEF Reference
    <3>2. r = [name |-> r.name, via |-> r.via]
      BY DEF Reference
    <3>3. g[<<r.name, r.via>>] = r
      BY <3>1, <3>2
    <3> QED
      BY <3>1, <3>3
  <2> QED
    BY <2>1, <2>2 DEF Surjection
<1>4. IsFiniteSet(Reference)
  <2> HIDE DEF g, V
  <2> QED
    BY <1>2, <1>3, FS_Surjection
<1>5. IsFiniteSet(Places(v, f) \X Reference)
  BY <1>4, PlacesFinite, FS_Product
<1>6. Uses(v, f) \in SUBSET (Places(v, f) \X Reference)
  BY UseTyped
<1> QED
  BY <1>5, <1>6, FS_Subset

-----------------------------------------------------------------------------
(***************************************************************************)
(* The fixes of one file.  Finitely many places have a last one, so they   *)
(* can be put in order.                                                    *)
(***************************************************************************)
Located(uses) == \A u \in uses : u[1][1] \in Nat /\ u[1][2] \in Nat

LEMMA LastUse ==
  ASSUME NEW uses, IsFiniteSet(uses), uses # {}, Located(uses)
  PROVE  \E last \in uses : \A u \in uses : ~Above(last[1], u[1])
<1> DEFINE HasLast(S) == \E last \in S : \A u \in S : ~Above(last[1], u[1])
           T == {n \in Nat : \A S \in SUBSET uses :
                              IsFiniteSet(S) /\ S # {} /\ Cardinality(S) = n => HasLast(S)}
<1>1. 0 \in T
  BY FS_EmptySet
<1>2. ASSUME NEW n \in Nat, n \in T PROVE n + 1 \in T
  <2>1. SUFFICES ASSUME NEW S \in SUBSET uses, IsFiniteSet(S), Cardinality(S) = n + 1, S # {}
                 PROVE  HasLast(S)
    OBVIOUS
  <2>2. PICK x \in S : TRUE
    BY <2>1
  <2> DEFINE R == S \ {x}
  <2>3. R \in SUBSET uses /\ IsFiniteSet(R) /\ Cardinality(R) = n
    BY <2>1, <2>2, FS_RemoveElement
  <2>4. CASE R = {}
    <3>1. S = {x}
      BY <2>4, <2>2
    <3>2. ~Above(x[1], x[1])
      BY <2>2 DEF Above, Located
    <3> QED
      BY <3>1, <3>2
  <2>5. CASE R # {}
    <3>1. HasLast(R)
      BY <1>2, <2>3, <2>5
    <3>2. PICK y \in R : \A u \in R : ~Above(y[1], u[1])
      BY <3>1
    <3>3. CASE Above(y[1], x[1])
      <4>1. \A u \in S : ~Above(x[1], u[1])
        BY <3>2, <3>3, <2>2 DEF Above, Located
      <4> QED
        BY <4>1, <2>2
    <3>4. CASE ~Above(y[1], x[1])
      BY <3>2, <3>4
    <3> QED
      BY <3>3, <3>4
  <2> QED
    BY <2>4, <2>5
<1>3. Nat \subseteq T
  <2> HIDE DEF T
  <2> QED
    BY <1>1, <1>2, NatSetInduction
<1>4. Cardinality(uses) \in T
  <2> HIDE DEF T
  <2> QED
    BY <1>3, FS_CardinalityType
<1> QED
  BY <1>4

IsOrder(s) ==
  \A i, j \in DOMAIN s : (s[i] = s[j] => i = j) /\ (Above(s[i][1], s[j][1]) => i < j)

LEMMA OrderedTyped ==
  ASSUME NEW uses, IsFiniteSet(uses), Located(uses)
  PROVE  Ordered(uses) \in Seq(uses)
<1> DEFINE T == {n \in Nat : \A S \in SUBSET uses :
                  IsFiniteSet(S) /\ Cardinality(S) = n => \E s \in [1..n -> S] : IsOrder(s)}
<1>1. 0 \in T
  <2>1. SUFFICES ASSUME NEW S \in SUBSET uses, IsFiniteSet(S), Cardinality(S) = 0
                 PROVE  \E s \in [1..0 -> S] : IsOrder(s)
    OBVIOUS
  <2> DEFINE s == [i \in 1..0 |-> 0]
  <2>2. s \in [1..0 -> S] /\ IsOrder(s)
    BY DEF IsOrder
  <2> QED
    BY <2>2
<1>2. ASSUME NEW n \in Nat, n \in T PROVE n + 1 \in T
  <2>1. SUFFICES ASSUME NEW S \in SUBSET uses, IsFiniteSet(S), Cardinality(S) = n + 1
                 PROVE  \E s \in [1..(n + 1) -> S] : IsOrder(s)
    OBVIOUS
  <2>2. S # {}
    BY <2>1, FS_EmptySet
  <2>3. Located(S)
    BY <2>1 DEF Located
  <2>4. PICK x \in S : \A u \in S : ~Above(x[1], u[1])
    BY <2>1, <2>2, <2>3, LastUse
  <2> DEFINE R == S \ {x}
  <2>5. R \in SUBSET uses /\ IsFiniteSet(R) /\ Cardinality(R) = n
    BY <2>1, FS_RemoveElement
  <2>6. PICK s \in [1..n -> R] : IsOrder(s)
    BY <1>2, <2>5
  <2> DEFINE t == [i \in 1..(n + 1) |-> IF i <= n THEN s[i] ELSE x]
  <2>7. t \in [1..(n + 1) -> S]
    BY <2>4, <2>6
  <2>8. ASSUME NEW i \in 1..(n + 1), NEW j \in 1..(n + 1)
        PROVE  (t[i] = t[j] => i = j) /\ (Above(t[i][1], t[j][1]) => i < j)
    <3>1. CASE i <= n /\ j <= n
      <4>1. t[i] = s[i] /\ t[j] = s[j] /\ i \in DOMAIN s /\ j \in DOMAIN s
        BY <3>1, <2>6
      <4> QED
        BY <4>1, <2>6 DEF IsOrder
    <3>2. CASE i <= n /\ j = n + 1
      <4>1. t[i] = s[i] /\ t[j] = x /\ s[i] \in R
        BY <3>2, <2>6
      <4> QED
        BY <4>1, <3>2
    <3>3. CASE i = n + 1 /\ j <= n
      <4>1. t[j] = s[j] /\ t[i] = x /\ s[j] \in R
        BY <3>3, <2>6
      <4> QED
        BY <4>1, <3>3, <2>4
    <3>4. CASE i = n + 1 /\ j = n + 1
      <4>1. t[j] = x /\ t[i] = x
        BY <3>4
      <4> QED
        BY <4>1, <3>4, <2>4
    <3> QED
      BY <3>1, <3>2, <3>3, <3>4
  <2>9. IsOrder(t)
    <3>1. DOMAIN t = 1..(n + 1)
      OBVIOUS
    <3> HIDE DEF t
    <3> QED
      BY <2>8, <3>1 DEF IsOrder
  <2> QED
    BY <2>7, <2>9
<1>3. Nat \subseteq T
  <2> HIDE DEF T
  <2> QED
    BY <1>1, <1>2, NatSetInduction
<1> DEFINE N == Cardinality(uses)
<1>4. N \in Nat
  BY FS_CardinalityType
<1>5. \E s \in [1..N -> uses] : IsOrder(s)
  <2>1. N \in T
    <3> HIDE DEF T
    <3> QED
      BY <1>3, <1>4
  <2> QED
    BY <2>1
<1>6. Ordered(uses) \in [1..N -> uses]
  BY <1>5 DEF Ordered, IsOrder
<1> QED
  BY <1>4, <1>6

\* Editing keeps the lines that are not deleted, and adds those inserted.
IsEdited(result, lines, deleted, inserted, n) ==
  /\ \A k \in 1..Len(result) :
       \/ \E l \in (1..n) \ deleted : result[k] = lines[l]
       \/ \E i \in 1..Len(inserted) : result[k] = inserted[i]
  /\ \A l \in (1..n) \ deleted : \E k \in 1..Len(result) : result[k] = lines[l]

IsEditing(e, lines, deleted, here, inserted) ==
  \A n \in 0..Len(lines) :
    e[n] = (IF n = 0 THEN <<>>
            ELSE IF n \in deleted THEN e[n - 1]
            ELSE Append(e[n - 1], lines[n]))
           \o (IF n = here THEN inserted ELSE <<>>)

LEMMA EditedRecursion ==
  ASSUME NEW V, NEW lines \in Seq(V), NEW deleted, NEW here, NEW inserted \in Seq(V)
  PROVE  \E e : /\ Edited(lines, deleted, here, inserted) = e[Len(lines)]
               /\ IsEditing(e, lines, deleted, here, inserted)
<1> DEFINE N == Len(lines)
           L == Seq(V)
           Rest(n) == IF n = here THEN inserted ELSE <<>>
           Keep(n, s) == IF n \in deleted THEN s ELSE Append(s, lines[n])
           edited[n \in 0..Len(lines)] ==
             (IF n = 0 THEN <<>>
              ELSE IF n \in deleted THEN edited[n - 1]
              ELSE Append(edited[n - 1], lines[n]))
             \o (IF n = here THEN inserted ELSE <<>>)
           Step(h) == [n \in 0..Len(lines) |->
             (IF n = 0 THEN <<>>
              ELSE IF n \in deleted THEN h[n - 1]
              ELSE Append(h[n - 1], lines[n]))
             \o (IF n = here THEN inserted ELSE <<>>)]
           Eq(h) == h = Step(h)
           g == [p \in (1..N) \X L |-> Keep(p[1], p[2]) \o Rest(p[1])]
<1>1. N \in Nat /\ \A n \in 1..N : lines[n] \in V
  OBVIOUS
<1>2. \A n : Rest(n) \in L
  OBVIOUS
<1>3. g \in [(1..N) \X L -> L]
  <2>1. ASSUME NEW n \in 1..N, NEW s \in L PROVE Keep(n, s) \in L
    BY <1>1
  <2> HIDE DEF Keep, Rest, N
  <2>2. ASSUME NEW n \in 1..N, NEW s \in L PROVE Keep(n, s) \o Rest(n) \in L
    BY <1>2, <2>1
  <2> HIDE DEF L
  <2> QED
    BY <2>2
<1>4. PICK F : IsRecursion(F, L, N, Rest(0), g)
  <2> HIDE DEF g, Rest, L, N
  <2> QED
    BY <1>1, <1>2, <1>3, Recursion
<1>5. ASSUME NEW n \in 0..N PROVE F[n] = Step(F)[n]
  <2>1. Step(F)[n] = (IF n = 0 THEN <<>> ELSE Keep(n, F[n - 1])) \o Rest(n)
    OBVIOUS
  <2> HIDE DEF Step
  <2>2. /\ F \in [0..N -> L] /\ F[0] = Rest(0)
        /\ \A i \in 1..N : F[i] = g[<<i, F[i - 1]>>]
    <3> HIDE DEF g, Rest, L, N
    <3> QED
      BY <1>4 DEF IsRecursion
  <2>3. ASSUME NEW i \in 1..N, NEW s \in L PROVE g[<<i, s>>] = Keep(i, s) \o Rest(i)
    <3> HIDE DEF Keep, Rest, L, N
    <3> QED
      OBVIOUS
  <2>4. Rest(0) \in L
    BY <1>2
  <2> HIDE DEF g, Keep, Rest, N
  <2>5. CASE n = 0
    <3>1. <<>> \o Rest(0) = Rest(0)
      BY <2>4
    <3>2. Step(F)[n] = <<>> \o Rest(0)
      BY <2>1, <2>5
    <3> QED
      BY <2>2, <2>5, <3>1, <3>2
  <2>6. CASE n # 0
    <3>1. n \in 1..N /\ n - 1 \in 0..N
      BY <1>1, <2>6
    <3>2. F[n - 1] \in L
      <4> HIDE DEF L
      <4> QED
        BY <2>2, <3>1
    <3>3. F[n] = Keep(n, F[n - 1]) \o Rest(n)
      <4> HIDE DEF L
      <4> QED
        BY <2>2, <2>3, <3>1, <3>2
    <3>4. Step(F)[n] = Keep(n, F[n - 1]) \o Rest(n)
      BY <2>1, <2>6
    <3> QED
      BY <3>3, <3>4
  <2> QED
    BY <2>5, <2>6
<1>6. Eq(F)
  <2>1. F = [n \in 0..N |-> F[n]]
    BY <1>4 DEF IsRecursion
  <2>2. Step(F) = [n \in 0..N |-> Step(F)[n]]
    OBVIOUS
  <2> HIDE DEF Step
  <2> QED
    BY <1>5, <2>1, <2>2
<1>7. Eq(CHOOSE h : Eq(h))
  <2> HIDE DEF Eq
  <2> QED
    BY <1>6
<1>8. Eq(edited)
  BY <1>7
<1>9. Edited(lines, deleted, here, inserted) = edited[Len(lines)]
  BY DEF Edited
<1> DEFINE e == edited
<1>10. e = Step(e) /\ Edited(lines, deleted, here, inserted) = e[Len(lines)]
  BY <1>8, <1>9
<1> HIDE DEF e
<1>11. IsEditing(e, lines, deleted, here, inserted)
  BY <1>10 DEF IsEditing
<1> HIDE DEF Step
<1> QED
  BY <1>10, <1>11

LEMMA EditedLines ==
  ASSUME NEW V, NEW lines \in Seq(V), NEW deleted, NEW here, NEW inserted \in Seq(V)
  PROVE  /\ Edited(lines, deleted, here, inserted) \in Seq(V)
         /\ IsEdited(Edited(lines, deleted, here, inserted), lines, deleted, inserted, Len(lines))
<1> DEFINE N == Len(lines)
           Rest(n) == IF n = here THEN inserted ELSE <<>>
           From(n, r) == r \in Seq(V) /\ IsEdited(r, lines, deleted, inserted, n)
<1>1. N \in Nat /\ \A n \in 1..N : lines[n] \in V
  OBVIOUS
<1>2. PICK e : /\ Edited(lines, deleted, here, inserted) = e[Len(lines)]
               /\ IsEditing(e, lines, deleted, here, inserted)
  BY EditedRecursion
<1>8. e[0] = <<>> \o Rest(0)
  <2>1. 0 \in 0..Len(lines)
    BY <1>1
  <2> QED
    BY <1>2, <2>1 DEF IsEditing
<1>9. ASSUME NEW n \in 1..N
       PROVE  e[n] = (IF n \in deleted THEN e[n - 1] ELSE Append(e[n - 1], lines[n])) \o Rest(n)
  <2>1. n \in 0..N /\ n # 0
    BY <1>1
  <2> QED
    BY <1>2, <2>1 DEF IsEditing
<1>3. ASSUME NEW n, NEW r \in Seq(V), IsEdited(r, lines, deleted, inserted, n)
      PROVE  From(n, r \o Rest(n))
  <2>1. CASE n = here
    <3> DEFINE w == r \o inserted
    <3>1. /\ w \in Seq(V) /\ Len(w) = Len(r) + Len(inserted)
          /\ Len(r) \in Nat /\ Len(inserted) \in Nat
          /\ \A k \in 1..Len(r) : w[k] = r[k]
          /\ \A k \in 1..Len(w) : k > Len(r) => w[k] = inserted[k - Len(r)]
      OBVIOUS
    <3>2. r \o Rest(n) = w
      BY <2>1
    <3> HIDE DEF w
    <3>3. ASSUME NEW k \in 1..Len(w)
          PROVE  \/ \E l \in (1..n) \ deleted : w[k] = lines[l]
                 \/ \E i \in 1..Len(inserted) : w[k] = inserted[i]
      <4>1. CASE k \in 1..Len(r)
        BY <1>3, <3>1, <4>1 DEF IsEdited
      <4>2. CASE k > Len(r)
        <5>1. k - Len(r) \in 1..Len(inserted)
          BY <3>1, <4>2
        <5> QED
          BY <3>1, <4>2, <5>1
      <4> QED
        BY <3>1, <4>1, <4>2
    <3>4. ASSUME NEW l \in (1..n) \ deleted PROVE \E k \in 1..Len(w) : w[k] = lines[l]
      <4>1. PICK k \in 1..Len(r) : r[k] = lines[l]
        BY <1>3 DEF IsEdited
      <4> QED
        BY <3>1, <4>1
    <3>5. From(n, w)
      BY <3>1, <3>3, <3>4 DEF IsEdited
    <3> HIDE DEF From
    <3> QED
      BY <3>2, <3>5
  <2>2. CASE n # here
    <3>1. r \o Rest(n) = r
      BY <2>2
    <3> HIDE DEF Rest
    <3> QED
      BY <1>3, <3>1
  <2> QED
    BY <2>1, <2>2
<1>4. From(0, e[0])
  <2>1. IsEdited(<<>>, lines, deleted, inserted, 0)
    BY DEF IsEdited
  <2>2. <<>> \in Seq(V)
    OBVIOUS
  <2> HIDE DEF From, Rest
  <2> QED
    BY <1>8, <1>3, <2>1, <2>2
<1>5. ASSUME NEW n \in 1..N, From(n - 1, e[n - 1]) PROVE From(n, e[n])
  <2>1. PICK r \in Seq(V) : r = e[n - 1] /\ IsEdited(r, lines, deleted, inserted, n - 1)
    BY <1>5
  <2>2. CASE n \in deleted
    <3>1. e[n] = r \o Rest(n)
      <4> HIDE DEF Rest, N
      <4> QED
        BY <1>9, <2>1, <2>2
    <3>2. (1..n) \ deleted = (1..(n - 1)) \ deleted
      BY <2>2
    <3>3. IsEdited(r, lines, deleted, inserted, n)
      BY <2>1, <3>2 DEF IsEdited
    <3> HIDE DEF From, Rest
    <3> QED
      BY <1>3, <3>1, <3>3
  <2>3. CASE n \notin deleted
    <3> DEFINE t == Append(r, lines[n])
    <3>1. e[n] = t \o Rest(n)
      <4> HIDE DEF Rest, N
      <4> QED
        BY <1>9, <2>1, <2>3
    <3>2. /\ t \in Seq(V) /\ Len(t) = Len(r) + 1 /\ Len(r) \in Nat /\ t[Len(t)] = lines[n]
          /\ \A k \in 1..Len(r) : t[k] = r[k]
      BY <1>1
    <3> HIDE DEF t
    <3>3. ASSUME NEW k \in 1..Len(t)
          PROVE  \/ \E l \in (1..n) \ deleted : t[k] = lines[l]
                 \/ \E i \in 1..Len(inserted) : t[k] = inserted[i]
      <4>1. CASE k = Len(t)
        BY <2>3, <3>2, <4>1
      <4>2. CASE k \in 1..Len(r)
        <5>1. \/ \E l \in (1..(n - 1)) \ deleted : r[k] = lines[l]
              \/ \E i \in 1..Len(inserted) : r[k] = inserted[i]
          BY <2>1, <4>2 DEF IsEdited
        <5>2. t[k] = r[k] /\ (1..(n - 1)) \ deleted \subseteq (1..n) \ deleted
          BY <3>2, <4>2
        <5> QED
          BY <5>1, <5>2
      <4> QED
        BY <3>2, <4>1, <4>2
    <3>4. ASSUME NEW l \in (1..n) \ deleted PROVE \E k \in 1..Len(t) : t[k] = lines[l]
      <4>1. CASE l = n
        BY <3>2, <4>1
      <4>2. CASE l \in (1..(n - 1)) \ deleted
        <5>1. PICK k \in 1..Len(r) : r[k] = lines[l]
          BY <2>1, <4>2 DEF IsEdited
        <5> QED
          BY <3>2, <5>1
      <4> QED
        BY <4>1, <4>2
    <3>5. IsEdited(t, lines, deleted, inserted, n)
      BY <3>3, <3>4 DEF IsEdited
    <3> HIDE DEF From, Rest
    <3> QED
      BY <1>3, <3>1, <3>2, <3>5
  <2> QED
    BY <2>2, <2>3
<1> DEFINE T == {n \in 0..N : From(n, e[n])}
<1>6. 0..N \subseteq T
  <2> HIDE DEF From, N
  <2>1. 0 \in T
    BY <1>1, <1>4
  <2>2. \A n \in 1..N : n - 1 \in T => n \in T
    BY <1>1, <1>5
  <2> HIDE DEF T
  <2> QED
    BY <1>1, <2>1, <2>2, BoundedInduction
<1>7. From(N, e[N])
  <2> HIDE DEF From, N
  <2> QED
    BY <1>1, <1>6
<1> QED
  BY <1>2, <1>7

\* The content with the fixes applied has the lines that were not deleted,
\* and lines that include a file.
IsFixed(v, f, unused, result) ==
  /\ \A k \in 1..Len(result) :
       \/ \E l \in 1..Len(v[f]) \ DeletedLines(unused) : result[k] = v[f][l]
       \/ \E g \in File : result[k] = <<Include(g)>>
  /\ \A l \in 1..Len(v[f]) \ DeletedLines(unused) :
       \E k \in 1..Len(result) : result[k] = v[f][l]

LEMMA FixedLines ==
  ASSUME NEW v \in Folder, NEW f \in File, NEW unused,
         NEW undefined \in SUBSET Uses(v, f),
         NEW choice \in [undefined -> File \cup {AnyFile}]
  PROVE  /\ Fixed(v, f, unused, choice) \in Seq(Seq(Statement))
         /\ IsFixed(v, f, unused, Fixed(v, f, unused, choice))
<1> DEFINE I == Inserted(f, choice)
           order == Ordered(I)
           inserted == [i \in DOMAIN order |-> <<Include(choice[order[i]])>>]
           here == InsertAfter(v, f)
           deleted == DeletedLines(unused)
           result == Edited(v[f], deleted, here, inserted)
<1>1. I \subseteq undefined /\ \A u \in I : choice[u] \in File
  BY DEF Inserted
<1>2. IsFiniteSet(I)
  BY <1>1, UsesFinite, FS_Subset
<1>3. Located(I)
  <2>1. ASSUME NEW u \in I PROVE u[1][1] \in Nat /\ u[1][2] \in Nat
    <3>1. u \in Uses(v, f)
      BY <1>1
    <3>2. u[1] \in Places(v, f)
      BY <3>1, UseTyped
    <3> QED
      BY <3>2, PlaceTyped
  <2> QED
    BY <2>1 DEF Located
<1>4. order \in Seq(I)
  BY <1>2, <1>3, OrderedTyped
<1>5. Fixed(v, f, unused, choice) = result
  BY DEF Fixed
<1> HIDE DEF I, order
<1>6. DOMAIN order = 1..Len(order) /\ Len(order) \in Nat
  BY <1>4
<1>7. ASSUME NEW i \in 1..Len(order)
      PROVE  choice[order[i]] \in File /\ inserted[i] = <<Include(choice[order[i]])>>
  BY <1>1, <1>4, <1>6
<1>8. ASSUME NEW g \in File PROVE <<Include(g)>> \in Seq(Statement)
  <2>1. Include(g) \in Statement
    BY DEF Include, Statement
  <2> QED
    BY <2>1
<1>9. inserted \in [1..Len(order) -> Seq(Statement)]
  BY <1>6, <1>7, <1>8
<1>10. inserted \in Seq(Seq(Statement)) /\ Len(inserted) = Len(order)
  <2> HIDE DEF inserted
  <2> QED
    BY <1>6, <1>9
<1>11. \A i \in 1..Len(inserted) : \E g \in File : inserted[i] = <<Include(g)>>
  BY <1>7, <1>10
<1>12. v[f] \in Seq(Seq(Statement))
  BY DEF Folder
<1> HIDE DEF inserted, here, deleted
<1>13. result \in Seq(Seq(Statement)) /\ IsEdited(result, v[f], deleted, inserted, Len(v[f]))
  BY <1>10, <1>12, EditedLines
<1> HIDE DEF result
<1>14. IsFixed(v, f, unused, result)
  BY <1>11, <1>13 DEF IsFixed, IsEdited, deleted
<1> QED
  BY <1>5, <1>13, <1>14

-----------------------------------------------------------------------------
(***************************************************************************)
(* The invariant: what is durable is listed, and what a pass knows of the  *)
(* disk it knows of the view that it read.                                 *)
(***************************************************************************)
TypeOK ==
  /\ disk \in Folder /\ view \in Folder /\ original \in Folder
  /\ pc \in {"run", "fix", "done", "failed"}
  /\ pass \in Nat /\ at \in Nat \ {0}
  /\ applied \in Nat /\ total \in Nat
  /\ changes \subseteq File /\ changed \subseteq File /\ written \subseteq File

\* A file is written and listed in one step, and with it fixes are counted.
Landed ==
  /\ changed = written /\ changes \subseteq changed
  /\ \A f \in File : disk[f] # original[f] => f \in changed
  /\ total = 0 <=> changed = {}

\* Nothing can be done about the file.
IsClean(v, f) ==
  /\ Unused(v, f) = {}
  /\ \A u \in Undefined(v, f) : Definers(v, u[2]) = {} \/ f \in Definers(v, u[2])

\* A pass reads the view, which is the disk but for what the pass wrote.  As
\* long as it wrote nothing, nothing was to be done about the targets behind.
Pass ==
  /\ report = Report(view)
  /\ \A f \in File \ changes : disk[f] = view[f]
  /\ applied = 0 <=> changes = {}
  /\ applied = 0 =>
       \A i \in DOMAIN Targets : i < at /\ Targets[i] \notin Broken => IsClean(view, Targets[i])

Current ==
  /\ pc = "run" => disk = view
  /\ pc = "fix" => Pass
  /\ pc = "done" /\ pass < MaxPasses =>
       /\ report = Report(disk)
       /\ \A f \in ToSet(Targets) \ Broken : IsClean(disk, f)

Inv == TypeOK /\ Landed /\ Current

LEMMA TargetTyped ==
  /\ DOMAIN Targets = 1..Len(Targets) /\ Len(Targets) \in Nat
  /\ \A i \in DOMAIN Targets : Targets[i] \in File /\ Targets[i] \in ToSet(Targets)
  /\ \A f \in ToSet(Targets) : \E i \in DOMAIN Targets : f = Targets[i]
<1>1. Targets \in Seq(File)
  BY TargetsAssumption
<1> QED
  BY <1>1 DEF ToSet

\* The fixes that a step applies are those of the view it reads.
LEMMA FixTyped ==
  ASSUME TypeOK, Current, NEW f, NEW unused, NEW choice, Fix(f, unused, choice)
  PROVE  /\ f \in File /\ f \notin Broken /\ f = Targets[at] /\ at \in DOMAIN Targets
         /\ unused = Unused(view, f) /\ unused \subseteq Includes(view, f)
         /\ Undefined(view, f) \subseteq Uses(view, f)
         /\ choice \in Offers(view, f, Undefined(view, f))
         /\ choice \in [Undefined(view, f) -> File \cup {AnyFile}]
<1>1. at \in DOMAIN Targets /\ f = Targets[at] /\ f \notin Broken /\ pc = "fix"
  BY TargetTyped DEF Fix, Fixes, TypeOK
<1>2. f \in File /\ f \in ToSet(Targets)
  BY <1>1, TargetTyped
<1>3. report = Report(view)
  BY <1>1 DEF Current, Pass
<1>4. report[f].unused = Unused(view, f) /\ report[f].undefined = Undefined(view, f)
  BY <1>2, <1>3 DEF Report
<1>5. unused = Unused(view, f) /\ choice \in Offers(view, f, Undefined(view, f))
  BY <1>4 DEF Fix
<1>6. choice \in [Undefined(view, f) -> File \cup {AnyFile}]
  BY <1>5 DEF Offers
<1>7. Unused(view, f) \subseteq Includes(view, f) /\ Undefined(view, f) \subseteq Uses(view, f)
  BY DEF Unused, Undefined
<1> QED
  BY <1>1, <1>2, <1>5, <1>6, <1>7

\* They are counted, and if there are none the file is clean.
LEMMA FixCounted ==
  ASSUME TypeOK, Current, NEW f, NEW unused, NEW choice, Fix(f, unused, choice)
  PROVE  /\ Applies(f, unused, choice) \in Nat
         /\ Applies(f, unused, choice) = 0 => IsClean(view, f)
<1> DEFINE D == DeletedLines(unused)
           I == Inserted(f, choice)
           U == Undefined(view, f)
<1>1. f \in File /\ unused = Unused(view, f) /\ unused \subseteq Includes(view, f)
  BY FixTyped
<1>2. view \in Folder
  BY DEF TypeOK
<1>3. choice \in Offers(view, f, U) /\ choice \in [U -> File \cup {AnyFile}] /\ U \subseteq Uses(view, f)
  BY FixTyped
<1>4. IsFiniteSet(D)
  <2>1. unused \subseteq Places(view, f)
    BY <1>1 DEF Includes
  <2>2. D \subseteq 1..Len(view[f])
    BY <1>1, <1>2, <2>1, PlaceTyped DEF DeletedLines
  <2>3. view[f] \in Seq(Seq(Statement))
    BY <1>1, <1>2 DEF Folder
  <2>4. IsFiniteSet(1..Len(view[f]))
    BY <2>3, FS_Interval
  <2> QED
    BY <2>2, <2>4, FS_Subset
<1>5. IsFiniteSet(I)
  <2>1. I \subseteq Uses(view, f)
    BY <1>3 DEF Inserted
  <2> QED
    BY <1>1, <1>2, <2>1, UsesFinite, FS_Subset
<1>6. Cardinality(D) \in Nat /\ Cardinality(I) \in Nat
  BY <1>4, <1>5, FS_CardinalityType
<1>7. Applies(f, unused, choice) = Cardinality(D) + Cardinality(I)
  BY DEF Applies
<1>8. ASSUME Applies(f, unused, choice) = 0 PROVE IsClean(view, f)
  <2>1. Cardinality(D) = 0 /\ Cardinality(I) = 0
    BY <1>6, <1>7, <1>8
  <2>2. D = {} /\ I = {}
    BY <1>4, <1>5, <2>1, FS_EmptySet
  <2>3. Unused(view, f) = {}
    BY <1>1, <2>2 DEF DeletedLines
  <2>4. ASSUME NEW u \in U, Definers(view, u[2]) # {} PROVE f \in Definers(view, u[2])
    <3>1. choice[u] \in Definers(view, u[2])
      BY <1>3, <2>4 DEF Offers
    <3>2. choice[u] \in {AnyFile, f}
      BY <1>3, <2>2, <2>4 DEF Inserted
    <3>3. choice[u] # AnyFile
      BY <3>1, FilesAssumption DEF Definers
    <3> QED
      BY <3>1, <3>2, <3>3
  <2> QED
    BY <2>3, <2>4 DEF IsClean
<1> QED
  BY <1>6, <1>7, <1>8

LEMMA InvInit == Init => Inv
<1> SUFFICES ASSUME Init PROVE Inv
  OBVIOUS
<1>1. disk \in Folder
  BY InitialAssumption DEF Init, Folder
<1>2. TypeOK
  BY <1>1 DEF Init, TypeOK
<1>3. Landed
  BY DEF Init, Landed
<1>4. Current
  BY DEF Init, Current
<1> QED
  BY <1>2, <1>3, <1>4 DEF Inv

LEMMA TypeInductive == TypeOK /\ Current /\ [Next]_vars => TypeOK'
<1> SUFFICES ASSUME TypeOK, Current, [Next]_vars PROVE TypeOK'
  OBVIOUS
<1>1. CASE Run
  BY <1>1 DEF TypeOK, Run, summary
<1>2. CASE RunFails
  BY <1>2 DEF TypeOK, RunFails, summary
<1>3. CASE SkipBroken
  BY <1>3 DEF TypeOK, SkipBroken, summary
<1>4. CASE EndPass
  <2>1. Updated \in Folder
    BY DEF TypeOK, Updated, Folder
  <2>2. pc' \in {"run", "fix", "done", "failed"}
    BY <1>4 DEF EndPass
  <2> QED
    BY <1>4, <2>1, <2>2 DEF TypeOK, EndPass
<1>5. ASSUME NEW f, NEW unused, NEW choice, FixFile(f, unused, choice) PROVE TypeOK'
  <2>1. CASE NoFix(f, unused, choice)
    BY <2>1 DEF TypeOK, NoFix, summary
  <2>2. CASE PersistFails(f, unused, choice)
    BY <2>2 DEF TypeOK, PersistFails, summary
  <2>3. CASE Persist(f, unused, choice)
    <3>1. Fix(f, unused, choice)
      BY <2>3 DEF Persist
    <3>2. f \in File /\ Applies(f, unused, choice) \in Nat
      BY <3>1, FixTyped, FixCounted
    <3>3. Fixed(view, f, unused, choice) \in Seq(Seq(Statement))
      BY <3>1, FixTyped, FixedLines DEF TypeOK
    <3>4. disk' \in Folder
      BY <2>3, <3>2, <3>3 DEF TypeOK, Persist, Folder
    <3> QED
      BY <2>3, <3>2, <3>4 DEF TypeOK, Persist
  <2> QED
    BY <1>5, <2>1, <2>2, <2>3 DEF FixFile
<1>6. CASE UNCHANGED vars
  BY <1>6 DEF TypeOK, vars, summary
<1> QED
  BY <1>1, <1>2, <1>3, <1>4, <1>5, <1>6 DEF Next

LEMMA LandedInductive == Inv /\ [Next]_vars => Landed'
<1> SUFFICES ASSUME Inv, [Next]_vars PROVE Landed'
  OBVIOUS
<1> USE DEF Inv
<1>1. CASE UNCHANGED <<disk, changes, summary, original, written>>
  BY <1>1 DEF Landed, summary
<1>2. CASE Run
  BY <1>2 DEF Landed, Run, summary
<1>3. CASE RunFails
  BY <1>1, <1>3 DEF RunFails
<1>4. CASE SkipBroken
  BY <1>1, <1>4 DEF SkipBroken
<1>5. CASE EndPass
  BY <1>5 DEF Landed, EndPass
<1>6. ASSUME NEW f, NEW unused, NEW choice, FixFile(f, unused, choice) PROVE Landed'
  <2>1. CASE NoFix(f, unused, choice)
    BY <1>1, <2>1 DEF NoFix
  <2>2. CASE PersistFails(f, unused, choice)
    BY <1>1, <2>2 DEF PersistFails
  <2>3. CASE Persist(f, unused, choice)
    <3>1. Fix(f, unused, choice)
      BY <2>3 DEF Persist
    <3>2. Applies(f, unused, choice) \in Nat /\ Applies(f, unused, choice) > 0
      BY <2>3, <3>1, FixCounted DEF Persist
    <3>3. total \in Nat /\ total' = total + Applies(f, unused, choice) /\ f \in changed'
      BY <2>3 DEF Persist, TypeOK
    <3>4. total' # 0 /\ changed' # {}
      BY <3>2, <3>3
    <3>5. changed' = written' /\ changes' \subseteq changed'
      BY <2>3 DEF Persist, Landed
    <3>6. \A g \in File : disk'[g] # original'[g] => g \in changed'
      BY <2>3 DEF Persist, Landed, TypeOK, Folder
    <3> QED
      BY <3>4, <3>5, <3>6 DEF Landed
  <2> QED
    BY <1>6, <2>1, <2>2, <2>3 DEF FixFile
<1>7. CASE UNCHANGED vars
  BY <1>1, <1>7 DEF vars, summary
<1> QED
  BY <1>2, <1>3, <1>4, <1>5, <1>6, <1>7 DEF Next

LEMMA CurrentInductive == Inv /\ [Next]_vars => Current'
<1> SUFFICES ASSUME Inv, [Next]_vars PROVE Current'
  OBVIOUS
<1> USE DEF Inv
<1>1. CASE Run
  <2>1. pc' = "fix" /\ report' = Report(view) /\ view' = view /\ disk' = disk
        /\ applied' = 0 /\ changes' = {} /\ at' = 1
    BY <1>1 DEF Run
  <2>2. disk = view
    BY <1>1 DEF Run, Current
  <2>3. \A i \in DOMAIN Targets : ~(i < 1)
    BY TargetTyped
  <2>4. Pass'
    BY <2>1, <2>2, <2>3 DEF Pass
  <2> QED
    BY <2>1, <2>4 DEF Current
<1>2. CASE RunFails
  BY <1>2 DEF Current, RunFails
<1>3. CASE SkipBroken
  <2>1. pc = "fix" /\ Targets[at] \in Broken /\ Pass
    BY <1>3 DEF SkipBroken, Fixes, Current
  <2>2. pc' = "fix" /\ at' = at + 1 /\ UNCHANGED <<disk, view, report, applied, changes>>
    BY <1>3, <2>1 DEF SkipBroken
  <2>3. \A i \in DOMAIN Targets : i < at' => i < at \/ i = at
    BY <2>2, TargetTyped DEF TypeOK
  <2>4. Pass'
    BY <2>1, <2>2, <2>3 DEF Pass
  <2> QED
    BY <2>2, <2>4 DEF Current
<1>4. CASE EndPass
  <2>1. pc = "fix" /\ at > Len(Targets) /\ Pass
    BY <1>4 DEF EndPass, PassOver, Current
  <2>2. view' = Updated /\ UNCHANGED <<disk, pass, report>>
    BY <1>4 DEF EndPass
  <2>3. Updated = disk
    BY <2>1 DEF Updated, Pass, TypeOK, Folder
  <2>4. CASE pc' = "run"
    BY <2>2, <2>3, <2>4 DEF Current
  <2>5. CASE pc' = "done"
    <3>1. ASSUME pass < MaxPasses
          PROVE  report = Report(disk) /\ \A f \in ToSet(Targets) \ Broken : IsClean(disk, f)
      <4>1. LastPass /\ pass # MaxPasses
        BY <1>4, <2>5, <3>1, TargetsAssumption DEF EndPass, TypeOK
      <4>2. applied = 0
        BY <4>1 DEF LastPass
      <4>3. changes = {}
        BY <2>1, <4>2 DEF Pass
      <4>4. disk = view
        BY <2>1, <4>3 DEF Pass, TypeOK, Folder
      <4>5. ASSUME NEW f \in ToSet(Targets) \ Broken PROVE IsClean(view, f)
        <5>1. PICK i \in DOMAIN Targets : f = Targets[i]
          BY TargetTyped
        <5>2. i < at
          BY <2>1, TargetTyped DEF TypeOK
        <5> QED
          BY <2>1, <4>2, <5>1, <5>2 DEF Pass
      <4> QED
        BY <2>1, <4>4, <4>5 DEF Pass
    <3> QED
      BY <2>2, <2>5, <3>1 DEF Current
  <2> QED
    BY <1>4, <2>4, <2>5 DEF EndPass
<1>5. ASSUME NEW f, NEW unused, NEW choice, FixFile(f, unused, choice) PROVE Current'
  <2>1. CASE NoFix(f, unused, choice)
    <3>1. Fix(f, unused, choice) /\ Applies(f, unused, choice) = 0
      BY <2>1 DEF NoFix
    <3>2. pc = "fix" /\ Pass
      BY <3>1 DEF Fix, Fixes, Current
    <3>3. f = Targets[at] /\ IsClean(view, f)
      BY <3>1, FixTyped, FixCounted
    <3>4. pc' = "fix" /\ at' = at + 1 /\ UNCHANGED <<disk, view, report, applied, changes>>
      BY <2>1, <3>2 DEF NoFix
    <3>5. \A i \in DOMAIN Targets : i < at' => i < at \/ i = at
      BY <3>4, TargetTyped DEF TypeOK
    <3>6. Pass'
      BY <3>2, <3>3, <3>4, <3>5 DEF Pass
    <3> QED
      BY <3>4, <3>6 DEF Current
  <2>2. CASE PersistFails(f, unused, choice)
    BY <2>2 DEF Current, PersistFails
  <2>3. CASE Persist(f, unused, choice)
    <3>1. Fix(f, unused, choice)
      BY <2>3 DEF Persist
    <3>2. pc = "fix" /\ Pass
      BY <3>1 DEF Fix, Fixes, Current
    <3>3. f \in File /\ Applies(f, unused, choice) \in Nat /\ Applies(f, unused, choice) > 0
      BY <2>3, <3>1, FixTyped, FixCounted DEF Persist
    <3>4. /\ pc' = "fix" /\ report' = report /\ view' = view
          /\ applied' = applied + Applies(f, unused, choice) /\ changes' = changes \cup {f}
          /\ disk' = [disk EXCEPT ![f] = Fixed(view, f, unused, choice)]
      BY <2>3, <3>2 DEF Persist
    <3>5. applied' # 0 /\ changes' # {}
      BY <3>3, <3>4 DEF TypeOK
    <3>6. \A g \in File \ changes' : disk'[g] = view'[g]
      BY <3>2, <3>4 DEF Pass, TypeOK, Folder
    <3>7. Pass'
      BY <3>2, <3>4, <3>5, <3>6 DEF Pass
    <3> QED
      BY <3>4, <3>7 DEF Current
  <2> QED
    BY <1>5, <2>1, <2>2, <2>3 DEF FixFile
<1>6. CASE UNCHANGED vars
  BY <1>6 DEF Current, Pass, vars
<1> QED
  BY <1>1, <1>2, <1>3, <1>4, <1>5, <1>6 DEF Next

LEMMA InvInductive == Inv /\ [Next]_vars => Inv'
  BY TypeInductive, LandedInductive, CurrentInductive DEF Inv

LEMMA FixAllInvariant == Spec => []Inv
  BY InvInit, InvInductive, PTL DEF Spec

\* The types of the state, and what each of its parts ranges over.
THEOREM FixAllTypeOK == Spec => []TypeOK
<1>1. Inv => TypeOK
  BY DEF Inv
<1> QED
  BY <1>1, FixAllInvariant, PTL

\* However a call of Pipeline.FixAll ends, by an error of an analyser or of
\* persist too, its summary lists the files that were written and no other,
\* and counts fixes exactly if there are such files.
THEOREM FixAllLandedIsReported == Spec => []LandedIsReported
<1>1. Inv => LandedIsReported
  BY DEF Inv, Landed, LandedIsReported
<1> QED
  BY <1>1, FixAllInvariant, PTL

\* A call of Pipeline.FixAll that ends before the last pass allowed has
\* reported what is on the disk, and left nothing to fix in its targets.
THEOREM FixAllConvergedClean == Spec => []ConvergedClean
<1>1. Inv => ConvergedClean
  BY DEF Inv, Current, IsClean, ConvergedClean
<1> QED
  BY <1>1, FixAllInvariant, PTL

-----------------------------------------------------------------------------
(***************************************************************************)
(* Where every include has a line of its own, fixing loses no definition.  *)
(***************************************************************************)
Alone(lines) ==
  \A l \in 1..Len(lines) : \A k \in 1..Len(lines[l]) :
    lines[l][k].kind = "include" => Len(lines[l]) = 1

IncludesAlone == \A v \in Initial, f \in File : Alone(v[f])

DefsOf(lines) ==
  {s \in Statement : /\ s.kind # "include"
                     /\ \E l \in 1..Len(lines) : \E k \in 1..Len(lines[l]) : s = lines[l][k]}

LEMMA DefsOfFile ==
  ASSUME NEW v \in Folder, NEW f \in File
  PROVE  Defs(v, f) = DefsOf(v[f])
<1>1. ASSUME NEW d \in Defs(v, f) PROVE d \in DefsOf(v[f])
  <2>1. PICK p \in Places(v, f) \ Includes(v, f) : d = At(v, f, p)
    BY DEF Defs
  <2>2. d.kind # "include" /\ d \in Statement
    BY <2>1, PlaceTyped DEF Includes
  <2>3. p[1] \in 1..Len(v[f]) /\ p[2] \in 1..Len(v[f][p[1]]) /\ d = v[f][p[1]][p[2]]
    BY <2>1, PlaceTyped DEF At
  <2> QED
    BY <2>2, <2>3 DEF DefsOf
<1>2. ASSUME NEW d \in DefsOf(v[f]) PROVE d \in Defs(v, f)
  <2>0. PICK l \in 1..Len(v[f]) : \E k \in 1..Len(v[f][l]) : d = v[f][l][k]
    BY DEF DefsOf
  <2>1. PICK k \in 1..Len(v[f][l]) : d = v[f][l][k]
    BY <2>0
  <2>2. <<l, k>> \in Places(v, f) /\ At(v, f, <<l, k>>) = d
    BY <2>1, PlaceOf
  <2>3. d.kind # "include"
    BY DEF DefsOf
  <2> QED
    BY <2>2, <2>3 DEF Defs, Includes
<1> QED
  BY <1>1, <1>2

LEMMA FixedKeeps ==
  ASSUME NEW v \in Folder, NEW f \in File, NEW unused, unused \subseteq Includes(v, f),
         Alone(v[f]), NEW result \in Seq(Seq(Statement)), IsFixed(v, f, unused, result)
  PROVE  Alone(result) /\ DefsOf(result) = DefsOf(v[f])
<1> DEFINE deleted == DeletedLines(unused)
<1>1. ASSUME NEW k \in 1..Len(result)
      PROVE  \/ \E l \in (1..Len(v[f])) \ deleted : result[k] = v[f][l]
             \/ \E g \in File : result[k] = <<Include(g)>>
  BY DEF IsFixed
<1>2. ASSUME NEW l \in (1..Len(v[f])) \ deleted
      PROVE  \E k \in 1..Len(result) : result[k] = v[f][l]
  BY DEF IsFixed
<1>3. ASSUME NEW g \in File
      PROVE  Len(<<Include(g)>>) = 1 /\ \A j \in 1..1 : <<Include(g)>>[j].kind = "include"
  BY DEF Include
<1>4. Alone(result)
  <2>1. ASSUME NEW k \in 1..Len(result), NEW j \in 1..Len(result[k]),
               result[k][j].kind = "include"
        PROVE  Len(result[k]) = 1
    <3>1. CASE \E l \in (1..Len(v[f])) \ deleted : result[k] = v[f][l]
      BY <2>1, <3>1 DEF Alone
    <3>2. CASE \E g \in File : result[k] = <<Include(g)>>
      BY <1>3, <3>2
    <3> QED
      BY <1>1, <3>1, <3>2
  <2> QED
    BY <2>1 DEF Alone
<1>5. ASSUME NEW d \in DefsOf(result) PROVE d \in DefsOf(v[f])
  <2>0. PICK k \in 1..Len(result) : \E j \in 1..Len(result[k]) : d = result[k][j]
    BY DEF DefsOf
  <2>1. PICK j \in 1..Len(result[k]) : d = result[k][j]
    BY <2>0
  <2>2. d.kind # "include" /\ d \in Statement
    BY DEF DefsOf
  <2>3. CASE \E l \in (1..Len(v[f])) \ deleted : result[k] = v[f][l]
    BY <2>1, <2>2, <2>3 DEF DefsOf
  <2>4. CASE \E g \in File : result[k] = <<Include(g)>>
    BY <1>3, <2>1, <2>2, <2>4
  <2> QED
    BY <1>1, <2>3, <2>4
<1>6. ASSUME NEW d \in DefsOf(v[f]) PROVE d \in DefsOf(result)
  <2>0. PICK l \in 1..Len(v[f]) : \E j \in 1..Len(v[f][l]) : d = v[f][l][j]
    BY DEF DefsOf
  <2>1. PICK j \in 1..Len(v[f][l]) : d = v[f][l][j]
    BY <2>0
  <2>2. d.kind # "include" /\ d \in Statement
    BY DEF DefsOf
  <2>3. l \notin deleted
    <3>1. SUFFICES ASSUME NEW p \in unused, l = p[1] PROVE FALSE
      BY DEF DeletedLines
    <3>2. p \in Places(v, f) /\ At(v, f, p).kind = "include"
      BY DEF Includes
    <3>3. p[2] \in 1..Len(v[f][l]) /\ v[f][l][p[2]].kind = "include"
      BY <3>1, <3>2, PlaceTyped DEF At
    <3>4. Len(v[f][l]) = 1
      BY <3>3 DEF Alone
    <3>5. j = p[2]
      BY <3>3, <3>4
    <3> QED
      BY <2>1, <2>2, <3>3, <3>5
  <2>4. PICK k \in 1..Len(result) : result[k] = v[f][l]
    BY <1>2, <2>3
  <2>5. j \in 1..Len(result[k]) /\ d = result[k][j]
    BY <2>1, <2>4
  <2> QED
    BY <2>2, <2>5 DEF DefsOf
<1> QED
  BY <1>4, <1>5, <1>6

Kept ==
  \A f \in File : /\ Alone(disk[f]) /\ Alone(view[f])
                  /\ DefsOf(disk[f]) = DefsOf(original[f])
                  /\ DefsOf(view[f]) = DefsOf(original[f])

LEMMA KeptInductive == Inv /\ Kept /\ [Next]_vars => Kept'
<1> SUFFICES ASSUME Inv, Kept, [Next]_vars PROVE Kept'
  OBVIOUS
<1> USE DEF Inv
<1>1. CASE UNCHANGED <<disk, view, original>>
  BY <1>1 DEF Kept
<1>2. CASE Run
  BY <1>1, <1>2 DEF Run
<1>3. CASE RunFails
  BY <1>1, <1>3 DEF RunFails
<1>4. CASE SkipBroken
  BY <1>1, <1>4 DEF SkipBroken
<1>5. CASE EndPass
  BY <1>5 DEF Kept, EndPass, Updated
<1>6. ASSUME NEW f, NEW unused, NEW choice, FixFile(f, unused, choice) PROVE Kept'
  <2>1. CASE NoFix(f, unused, choice)
    BY <1>1, <2>1 DEF NoFix
  <2>2. CASE PersistFails(f, unused, choice)
    BY <1>1, <2>2 DEF PersistFails
  <2>3. CASE Persist(f, unused, choice)
    <3> DEFINE result == Fixed(view, f, unused, choice)
    <3>1. Fix(f, unused, choice)
      BY <2>3 DEF Persist
    <3>2. f \in File /\ unused \subseteq Includes(view, f)
      BY <3>1, FixTyped
    <3>3. result \in Seq(Seq(Statement)) /\ IsFixed(view, f, unused, result)
      BY <3>1, FixTyped, FixedLines DEF TypeOK
    <3>4. disk' = [disk EXCEPT ![f] = result] /\ view' = view /\ original' = original
      BY <2>3 DEF Persist
    <3> HIDE DEF result
    <3>5. Alone(view[f]) /\ DefsOf(view[f]) = DefsOf(original[f])
      BY <3>2 DEF Kept
    <3>6. Alone(result) /\ DefsOf(result) = DefsOf(view[f])
      BY <3>2, <3>3, <3>5, FixedKeeps DEF TypeOK
    <3>7. ASSUME NEW g \in File
          PROVE  /\ Alone(disk'[g]) /\ Alone(view'[g])
                 /\ DefsOf(disk'[g]) = DefsOf(original'[g])
                 /\ DefsOf(view'[g]) = DefsOf(original'[g])
      <4>1. disk'[g] = IF g = f THEN result ELSE disk[g]
        BY <3>4 DEF TypeOK, Folder
      <4> QED
        BY <3>4, <3>5, <3>6, <4>1 DEF Kept
    <3> QED
      BY <3>7 DEF Kept
  <2> QED
    BY <1>6, <2>1, <2>2, <2>3 DEF FixFile
<1>7. CASE UNCHANGED vars
  BY <1>1, <1>7 DEF vars
<1> QED
  BY <1>2, <1>3, <1>4, <1>5, <1>6, <1>7 DEF Next

\* In a folder whose includes each have a line of their own, as the fix for
\* unused includes takes them to (unused_include_check.go:56), the fixes of
\* any number of passes never lose a definition, nor add one.
THEOREM FixAllNothingLost ==
  ASSUME IncludesAlone
  PROVE  Spec => []NothingLost
<1>1. Init => Kept
  BY InitialAssumption DEF Init, Kept, IncludesAlone
<1>2. Inv /\ Kept => NothingLost
  BY DefsOfFile DEF Inv, TypeOK, Kept, NothingLost
<1> QED
  BY <1>1, <1>2, InvInit, InvInductive, KeptInductive, PTL DEF Spec

=============================================================================
