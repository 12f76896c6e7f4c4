--------------------------- MODULE FormattingProofs ---------------------------
(***************************************************************************)
(* Proofs about Diff, Formatting and Mapper: the unified diff of any two   *)
(* texts patches the one to the other, and positions and offsets of any    *)
(* document correspond.  First come the sides of lines and what a patch    *)
(* makes of one more chunk, then the loop over the matches, what the       *)
(* matches are, the loop from its beginning to its end, the lines of       *)
(* documents and the requests, and last the runes of a line.               *)
(***************************************************************************)
EXTENDS Formatting, Induction

-----------------------------------------------------------------------------
(***************************************************************************)
(* Parts of sequences.                                                     *)
(***************************************************************************)
LEMMA PartProperties ==
  ASSUME NEW S, NEW s \in Seq(S), NEW a \in 0..Len(s), NEW b \in a..Len(s)
  PROVE  /\ Part(s, a, b) \in Seq(S)
         /\ Len(Part(s, a, b)) = b - a
         /\ \A i \in 1..(b - a) : Part(s, a, b)[i] = s[a + i]
<1>1. \A i \in (a + 1)..b : s[i] \in S
  BY ElementOfSeq
<1> QED
  BY <1>1, SubSeqProperties DEF Part

LEMMA PartsConcat ==
  ASSUME NEW S, NEW s \in Seq(S), NEW a \in 0..Len(s), NEW b \in a..Len(s), NEW c \in b..Len(s)
  PROVE  Part(s, a, b) \o Part(s, b, c) = Part(s, a, c)
<1>1. /\ a + 1 \in 1..(Len(s) + 1) /\ b \in (a + 1) - 1..Len(s) /\ c \in b..Len(s)
  OBVIOUS
<1> QED
  BY <1>1, ConcatAdjacentSubSeq DEF Part

\* The next n lines are the same.
Same(x, y, a, b, n) == \A i \in 1..n : x[a + i] = y[b + i]

\* Parts of two sequences are the same if they are element by element.
LEMMA SameParts ==
  ASSUME NEW S, NEW s \in Seq(S), NEW t \in Seq(S),
         NEW a \in 0..Len(s), NEW b \in 0..Len(t), NEW n \in Nat,
         NEW c \in a..Len(s), NEW d \in b..Len(t), c = a + n, d = b + n, Same(s, t, a, b, n)
  PROVE  Part(s, a, c) = Part(t, b, d)
<1>1. /\ Part(s, a, c) \in Seq(S) /\ Len(Part(s, a, c)) = c - a
      /\ \A i \in 1..(c - a) : Part(s, a, c)[i] = s[a + i]
  BY PartProperties
<1>2. /\ Part(t, b, d) \in Seq(S) /\ Len(Part(t, b, d)) = d - b
      /\ \A i \in 1..(d - b) : Part(t, b, d)[i] = t[b + i]
  BY PartProperties
<1>3. c - a = n /\ d - b = n
  OBVIOUS
<1>4. \A i \in 1..n : s[a + i] = t[b + i]
  BY DEF Same
<1>5. \A i \in 1..n : Part(s, a, c)[i] = Part(t, b, d)[i]
  BY <1>1, <1>2, <1>3, <1>4
<1> QED
  BY <1>1, <1>2, <1>3, <1>5, SeqEqual

LEMMA PartWhole ==
  ASSUME NEW S, NEW s \in Seq(S)
  PROVE  Part(s, 0, Len(s)) = s /\ \A a \in 0..Len(s) : Part(s, a, a) = <<>>
<1>1. Part(s, 0, Len(s)) = s
  BY SubSeqFull DEF Part
<1>2. ASSUME NEW a \in 0..Len(s) PROVE Part(s, a, a) = <<>>
  <2>1. a + 1 \in Int /\ a \in Int /\ a < a + 1
    OBVIOUS
  <2> QED
    BY <2>1, SubSeqEmpty DEF Part
<1> QED
  BY <1>1, <1>2

-----------------------------------------------------------------------------
(***************************************************************************)
(* One side of a chunk.                                                    *)
(***************************************************************************)
Marks == {"both", "old", "new"}
LineOf(S) == [mark : Marks, text : S]

IsSide(f, lines, marks) ==
  /\ f[0] = <<>>
  /\ \A n \in 1..Len(lines) :
       /\ lines[n].mark \in marks => f[n] = Append(f[n - 1], lines[n].text)
       /\ lines[n].mark \notin marks => f[n] = f[n - 1]

\* Side is computed line by line.
LEMMA SideRecursion ==
  ASSUME NEW S, NEW lines \in Seq(LineOf(S)), NEW marks
  PROVE  \E f : Side(lines, marks) = f[Len(lines)] /\ IsSide(f, lines, marks)
<1> DEFINE N == Len(lines)
           L == Seq(S)
           Body(n, s) == IF lines[n].mark \in marks THEN Append(s, lines[n].text) ELSE s
           f[k \in 0 .. Len(lines)] ==
             IF k = 0 THEN <<>>
             ELSE IF lines[k].mark \in marks THEN Append(f[k - 1], lines[k].text)
             ELSE f[k - 1]
           Step(h) == [n \in 0..N |-> IF n = 0 THEN <<>> ELSE Body(n, h[n - 1])]
           Eq(h) == h = Step(h)
           g == [p \in (1..N) \X L |-> Body(p[1], p[2])]
<1>1. N \in Nat /\ <<>> \in L
  OBVIOUS
<1>2. ASSUME NEW n \in 1..N, NEW s \in L PROVE Body(n, s) \in L
  <2>1. lines[n] \in LineOf(S)
    OBVIOUS
  <2>2. lines[n].text \in S
    BY <2>1 DEF LineOf
  <2> QED
    BY <2>2
<1>3. g \in [(1..N) \X L -> L] /\ \A n \in 1..N, s \in L : g[<<n, s>>] = Body(n, s)
  <2> HIDE DEF Body, L, N
  <2> QED
    BY <1>2
<1>4. PICK F : IsRecursion(F, L, N, <<>>, g)
  <2> HIDE DEF g, L, N
  <2> QED
    BY <1>1, <1>3, Recursion
<1>5. Eq(F)
  <2> HIDE DEF g, Body, L, N
  <2>1. /\ F \in [0..N -> L] /\ F[0] = <<>>
        /\ \A n \in 1..N : F[n] = g[<<n, F[n - 1]>>] /\ n - 1 \in 0..N /\ n # 0
    BY <1>1, <1>4 DEF IsRecursion
  <2>2. \A n \in 1..N : F[n] = Body(n, F[n - 1]) /\ n # 0
    BY <1>3, <2>1
  <2>3. \A n \in 0..N : n = 0 \/ n \in 1..N
    BY <1>1
  <2> QED
    BY <2>1, <2>2, <2>3
<1>6. Eq(CHOOSE h : Eq(h))
  <2> HIDE DEF Eq
  <2> QED
    BY <1>5
<1>7. Eq(f)
  BY <1>6
<1>8. Side(lines, marks) = f[N]
  BY DEF Side
<1> DEFINE e == f
<1>9. Eq(e) /\ Side(lines, marks) = e[N]
  BY <1>7, <1>8
<1> HIDE DEF e
<1>10. /\ e[0] = <<>>
       /\ \A n \in 1..N : e[n] = Body(n, e[n - 1])
  <2> HIDE DEF Body, N
  <2>1. \A n \in 1..N : n \in 0..N /\ n # 0
    OBVIOUS
  <2>2. 0 \in 0..N
    BY <1>1
  <2> QED
    BY <1>9, <2>1, <2>2
<1>11. IsSide(e, lines, marks)
  BY <1>10 DEF IsSide
<1> HIDE DEF Step, Body, Eq
<1> QED
  BY <1>9, <1>11

LEMMA SideTyped ==
  ASSUME NEW S, NEW lines \in Seq(LineOf(S)), NEW marks,
         NEW f, IsSide(f, lines, marks)
  PROVE  \A n \in 0..Len(lines) : f[n] \in Seq(S)
<1> DEFINE N == Len(lines)
           T == {n \in 0..N : f[n] \in Seq(S)}
<1>a. N \in Nat
  BY LenProperties
<1>1. 0 \in T
  <2>1. f[0] = <<>>
    BY DEF IsSide
  <2>2. f[0] \in Seq(S)
    BY <2>1
  <2> HIDE DEF N
  <2> QED
    BY <2>2, <1>a
<1>2. ASSUME NEW n \in 1..N, n - 1 \in T PROVE n \in T
  <2>1. lines[n] \in LineOf(S)
    OBVIOUS
  <2>2. lines[n].text \in S
    BY <2>1 DEF LineOf
  <2>3. n \in 0..N /\ f[n - 1] \in Seq(S)
    <3> HIDE DEF N
    <3> QED
     BY <1>a, <1>2
  <2>4. /\ lines[n].mark \in marks => f[n] = Append(f[n - 1], lines[n].text)
        /\ lines[n].mark \notin marks => f[n] = f[n - 1]
    BY DEF IsSide
  <2>5. f[n] \in Seq(S)
    <3>1. Append(f[n - 1], lines[n].text) \in Seq(S)
      BY <2>2, <2>3
    <3> QED
      BY <2>3, <2>4, <3>1, Zenon
  <2> QED
    BY <2>3, <2>5
<1>3. 0..N \subseteq T
  <2> HIDE DEF T, N
  <2> QED
    BY <1>a, <1>1, <1>2, BoundedInduction
<1> QED
  BY <1>3

LEMMA SideIsSeq ==
  ASSUME NEW S, NEW lines \in Seq(LineOf(S)), NEW marks
  PROVE  Side(lines, marks) \in Seq(S)
<1>1. Len(lines) \in 0..Len(lines)
  OBVIOUS
<1> QED
  BY <1>1, SideRecursion, SideTyped

LEMMA SideOfNone ==
  ASSUME NEW S
  PROVE  \A marks : Side(<<>>, marks) = <<>>
<1> TAKE marks
<1> DEFINE none == <<>>
<1>1. none \in Seq(LineOf(S)) /\ Len(none) = 0
  BY EmptySeq
<1> HIDE DEF none
<1>2. PICK f : Side(none, marks) = f[Len(none)] /\ IsSide(f, none, marks)
  BY <1>1, SideRecursion
<1>3. Side(none, marks) = <<>>
  BY <1>1, <1>2 DEF IsSide
<1> QED
  BY <1>3 DEF none

\* The side of two sequences of lines is that of the one and of the other.
LEMMA SideConcat ==
  ASSUME NEW S, NEW s \in Seq(LineOf(S)), NEW t \in Seq(LineOf(S)), NEW marks
  PROVE  Side(s \o t, marks) = Side(s, marks) \o Side(t, marks)
<1> DEFINE u == s \o t
           M == Len(s)
           N == Len(t)
<1>1. /\ u \in Seq(LineOf(S)) /\ Len(u) = M + N
      /\ \A n \in 1..M : u[n] = s[n]
      /\ \A n \in 1..N : u[M + n] = t[n]
  BY ConcatProperties
<1>a. M \in Nat /\ N \in Nat
  BY LenProperties
<1> HIDE DEF u
<1>2. PICK f : Side(s, marks) = f[M] /\ IsSide(f, s, marks)
  BY SideRecursion
<1>3. PICK g : Side(t, marks) = g[N] /\ IsSide(g, t, marks)
  BY SideRecursion
<1>4. PICK h : Side(u, marks) = h[Len(u)] /\ IsSide(h, u, marks)
  BY <1>1, SideRecursion
<1>5. \A n \in 0..M : f[n] \in Seq(S)
  BY <1>2, SideTyped
<1>6. \A n \in 0..N : g[n] \in Seq(S)
  BY <1>3, SideTyped
<1>f. /\ f[0] = <<>>
      /\ \A n \in 1..M : /\ s[n].mark \in marks => f[n] = Append(f[n - 1], s[n].text)
                         /\ s[n].mark \notin marks => f[n] = f[n - 1]
  BY <1>2 DEF IsSide
<1>g. /\ g[0] = <<>>
      /\ \A n \in 1..N : /\ t[n].mark \in marks => g[n] = Append(g[n - 1], t[n].text)
                         /\ t[n].mark \notin marks => g[n] = g[n - 1]
  BY <1>3 DEF IsSide
<1>h. /\ h[0] = <<>>
      /\ \A n \in 1..M + N : /\ u[n].mark \in marks => h[n] = Append(h[n - 1], u[n].text)
                             /\ u[n].mark \notin marks => h[n] = h[n - 1]
  BY <1>1, <1>4 DEF IsSide
<1>t. \A n \in 1..N : t[n].text \in S
  <2> TAKE n \in 1..N
  <2>1. t[n] \in LineOf(S)
    OBVIOUS
  <2> QED
    BY <2>1 DEF LineOf
<1> HIDE DEF M, N
<1>7. h[M] = f[M]
  <2> DEFINE T == {n \in 0..M : h[n] = f[n]}
  <2>1. 0 \in T
    BY <1>a, <1>f, <1>h
  <2>2. ASSUME NEW n \in 1..M, n - 1 \in T PROVE n \in T
    <3>1. n \in 1..M + N /\ u[n] = s[n] /\ n \in 0..M
      BY <1>1, <1>a
    <3>2. h[n - 1] = f[n - 1]
      BY <2>2
    <3>3. /\ s[n].mark \in marks => h[n] = Append(h[n - 1], s[n].text)
          /\ s[n].mark \notin marks => h[n] = h[n - 1]
      BY <1>h, <3>1
    <3>4. h[n] = f[n]
      BY <1>f, <3>2, <3>3, Zenon
    <3> QED
      BY <3>1, <3>4
  <2>3. 0..M \subseteq T
    <3> HIDE DEF T
    <3> QED
      BY <1>a, <2>1, <2>2, BoundedInduction
  <2> QED
    BY <1>a, <2>3
<1> DEFINE a == f[M]
<1>8. a \in Seq(S) /\ h[M] = a
  BY <1>a, <1>5, <1>7
<1> HIDE DEF a
<1>9. h[M + N] = a \o g[N]
  <2> DEFINE T == {n \in 0..N : h[M + n] = a \o g[n]}
  <2>1. 0 \in T
    <3>1. a \o g[0] = a /\ M + 0 = M
      BY <1>a, <1>g, <1>8
    <3> QED
      BY <1>a, <1>8, <3>1
  <2>2. ASSUME NEW n \in 1..N, n - 1 \in T PROVE n \in T
    <3>1. /\ M + n \in 1..M + N /\ u[M + n] = t[n] /\ (M + n) - 1 = M + (n - 1)
          /\ n \in 0..N /\ n - 1 \in 0..N
      BY <1>1, <1>a
    <3>2. h[M + (n - 1)] = a \o g[n - 1]
      BY <2>2
    <3> DEFINE b == g[n - 1]
               c == t[n].text
    <3>3. b \in Seq(S) /\ c \in S /\ h[(M + n) - 1] = a \o b
      BY <1>6, <1>t, <3>1, <3>2
    <3>4. /\ t[n].mark \in marks => h[M + n] = Append(a \o b, c)
          /\ t[n].mark \notin marks => h[M + n] = a \o b
      BY <1>h, <3>1, <3>3, Zenon
    <3>5. /\ t[n].mark \in marks => g[n] = Append(b, c)
          /\ t[n].mark \notin marks => g[n] = b
      BY <1>g
    <3> HIDE DEF b, c
    <3>6. Append(a \o b, c) = a \o Append(b, c)
      <4>1. <<c>> \in Seq(S) /\ a \o b \in Seq(S)
        BY <1>8, <3>3
      <4>2. Append(a \o b, c) = (a \o b) \o <<c>> /\ Append(b, c) = b \o <<c>>
        BY <3>3, <4>1, AppendIsConcat
      <4>3. (a \o b) \o <<c>> = a \o (b \o <<c>>)
        BY <1>8, <3>3, <4>1, ConcatAssociative
      <4> QED
        BY <4>2, <4>3
    <3>7. h[M + n] = a \o g[n]
      BY <3>4, <3>5, <3>6, Zenon
    <3> QED
      BY <3>1, <3>7
  <2>3. 0..N \subseteq T
    <3> HIDE DEF T
    <3> QED
      BY <1>a, <2>1, <2>2, BoundedInduction
  <2>4. N \in T
    <3> HIDE DEF T
    <3> QED
      BY <1>a, <2>3
  <2> QED
    BY <2>4
<1>10. Side(u, marks) = Side(s, marks) \o Side(t, marks)
  BY <1>1, <1>2, <1>3, <1>4, <1>9 DEF a
<1> QED
  BY <1>10 DEF u

LEMMA MarkedTyped ==
  ASSUME NEW S, NEW s \in Seq(S), NEW a \in 0..Len(s), NEW b \in a..Len(s),
         NEW mark \in Marks
  PROVE  /\ Marked(mark, s, a, b) \in Seq(LineOf(S))
         /\ Len(Marked(mark, s, a, b)) = b - a
         /\ \A i \in 1..(b - a) : Marked(mark, s, a, b)[i].mark = mark
         /\ \A i \in 1..(b - a) : Marked(mark, s, a, b)[i].text = s[a + i]
<1> DEFINE n == b - a
<1>1. n \in Nat /\ \A i \in 1..n : s[a + i] \in S
  OBVIOUS
<1>2. \A i \in 1..n : /\ Line(mark, s[a + i]) \in LineOf(S)
                      /\ Line(mark, s[a + i]).mark = mark
                      /\ Line(mark, s[a + i]).text = s[a + i]
  BY <1>1 DEF Line, LineOf
<1> HIDE DEF n
<1> DEFINE m == [i \in 1..n |-> Line(mark, s[a + i])]
<1>3. m \in Seq(LineOf(S)) /\ Len(m) = n
  <2>1. m \in [1..n -> LineOf(S)]
    BY <1>2
  <2> HIDE DEF m
  <2>2. m \in Seq(LineOf(S))
    BY <1>1, <2>1, SeqDef
  <2> QED
    BY <1>1, <2>1, <2>2
<1>4. (\A i \in 1..n : m[i].mark = mark) /\ \A i \in 1..n : m[i].text = s[a + i]
  BY <1>2
<1>5. Marked(mark, s, a, b) = m
  BY DEF Marked, n
<1> QED
  BY <1>3, <1>4, <1>5 DEF n

\* The side of lines with one mark is all of them or none.
LEMMA SideMarked ==
  ASSUME NEW S, NEW s \in Seq(S), NEW a \in 0..Len(s), NEW b \in a..Len(s),
         NEW mark \in Marks, NEW marks
  PROVE  Side(Marked(mark, s, a, b), marks) = IF mark \in marks THEN Part(s, a, b) ELSE <<>>
<1> DEFINE m == Marked(mark, s, a, b)
           N == b - a
<1>1. /\ m \in Seq(LineOf(S)) /\ Len(m) = N
      /\ \A i \in 1..N : m[i].mark = mark
      /\ \A i \in 1..N : m[i].text = s[a + i]
  <2>1. m \in Seq(LineOf(S))
    BY MarkedTyped
  <2>2. Len(m) = N
    BY MarkedTyped
  <2>3. \A i \in 1..N : m[i].mark = mark
    BY MarkedTyped
  <2>4. \A i \in 1..N : m[i].text = s[a + i]
    BY MarkedTyped
  <2> QED
    BY <2>1, <2>2, <2>3, <2>4
<1>a. N \in Nat /\ a + N = b /\ a \in Nat /\ N <= Len(s) - a
  OBVIOUS
<1> HIDE DEF m, N
<1>2. PICK f : Side(m, marks) = f[N] /\ IsSide(f, m, marks)
  BY <1>1, SideRecursion
<1>3. /\ f[0] = <<>>
      /\ \A n \in 1..N : /\ mark \in marks => f[n] = Append(f[n - 1], s[a + n])
                         /\ mark \notin marks => f[n] = f[n - 1]
  BY <1>1, <1>2 DEF IsSide
<1>4. CASE mark \in marks
  <2> DEFINE T == {n \in 0..N : f[n] = Part(s, a, a + n)}
  <2>1. 0 \in T
    <3>1. Part(s, a, a + 0) = <<>>
      BY PartWhole
    <3> QED
      BY <1>a, <1>3, <3>1
  <2>2. ASSUME NEW n \in 1..N, n - 1 \in T PROVE n \in T
    <3> DEFINE c == a + (n - 1)
               d == a + n
    <3>1. c \in a..Len(s) /\ d \in c..Len(s) /\ d = c + 1 /\ d \in 1..Len(s) /\ d \in a..Len(s)
      BY <1>a
    <3>2. f[n - 1] = Part(s, a, c) /\ n \in 0..N
      BY <1>a, <2>2
    <3>3. f[n] = Append(f[n - 1], s[d])
      BY <1>3, <1>4
    <3> HIDE DEF c, d
    <3>4. Append(Part(s, a, c), s[d]) = Part(s, a, d)
      <4>2. /\ Part(s, a, c) \in Seq(S) /\ Len(Part(s, a, c)) = c - a
            /\ \A i \in 1..(c - a) : Part(s, a, c)[i] = s[a + i]
        BY <3>1, PartProperties
      <4>3. /\ Part(s, a, d) \in Seq(S) /\ Len(Part(s, a, d)) = d - a
            /\ \A i \in 1..(d - a) : Part(s, a, d)[i] = s[a + i]
        BY <3>1, PartProperties
      <4> DEFINE p == Part(s, a, c)
                 q == Part(s, a, d)
                 k == c - a
      <4>4. /\ p \in Seq(S) /\ Len(p) = k /\ q \in Seq(S) /\ Len(q) = k + 1
            /\ \A i \in 1..k : p[i] = q[i]
            /\ q[k + 1] = s[d] /\ s[d] \in S /\ k \in Nat
        BY <3>1, <4>2, <4>3
      <4> HIDE DEF p, q, k
      <4>5. Append(p, s[d]) = q
        <5>1. Append(p, s[d]) \in Seq(S) /\ Len(Append(p, s[d])) = k + 1
          BY <4>4
        <5>2. \A i \in 1..k + 1 : Append(p, s[d])[i] = q[i]
          BY <4>4
        <5> QED
          BY <4>4, <5>1, <5>2, SeqEqual
      <4> QED
        BY <4>5 DEF p, q
    <3>5. f[n] = Part(s, a, d)
      BY <3>2, <3>3, <3>4
    <3> QED
      BY <3>2, <3>5 DEF d
  <2>3. 0..N \subseteq T
    <3> HIDE DEF T
    <3> QED
      BY <1>a, <2>1, <2>2, BoundedInduction
  <2>4. f[N] = Part(s, a, b)
    BY <1>a, <2>3
  <2> QED
    BY <1>2, <1>4, <2>4 DEF m
<1>5. CASE mark \notin marks
  <2> DEFINE T == {n \in 0..N : f[n] = <<>>}
  <2>1. 0 \in T
    BY <1>a, <1>3
  <2>2. ASSUME NEW n \in 1..N, n - 1 \in T PROVE n \in T
    BY <1>a, <1>3, <1>5, <2>2
  <2>3. 0..N \subseteq T
    <3> HIDE DEF T
    <3> QED
      BY <1>a, <2>1, <2>2, BoundedInduction
  <2>4. f[N] = <<>>
    BY <1>a, <2>3
  <2> QED
    BY <1>2, <1>5, <2>4 DEF m
<1> QED
  BY <1>4, <1>5

-----------------------------------------------------------------------------
(***************************************************************************)
(* The chunks written and what patch makes of them.                        *)
(***************************************************************************)
ChunkOf(S) == [x : Nat, y : Nat, xs : Nat, ys : Nat, lines : Seq(LineOf(S))]
PatchOf(S) == [text : Seq(S), at : Nat, fits : BOOLEAN]
Unpatched == [text |-> <<>>, at |-> 0, fits |-> TRUE]

IsPatch(f, x, chunks) ==
  /\ f[0] = Unpatched
  /\ \A n \in 1..Len(chunks) : f[n] = Patched(x, f[n - 1], chunks[n])

LEMMA PatchedTyped ==
  ASSUME NEW S, NEW x \in Seq(S), NEW p \in PatchOf(S), NEW c \in ChunkOf(S)
  PROVE  Patched(x, p, c) \in PatchOf(S)
<1> DEFINE from == From(c.x, c.xs)
<1>1. /\ c.x \in Nat /\ c.xs \in Nat /\ c.lines \in Seq(LineOf(S))
      /\ p.text \in Seq(S) /\ p.at \in Nat
  BY DEF ChunkOf, PatchOf
<1>2. from \in Int
  BY <1>1 DEF From
<1> HIDE DEF from
<1>3. CASE Fitting(x, p, c)
  <2>1. p.at <= from /\ from + c.xs <= Len(x)
    BY <1>3 DEF Fitting, from
  <2>2. p.at \in 0..Len(x) /\ from \in p.at..Len(x) /\ from + c.xs \in Nat
    BY <1>1, <1>2, <2>1
  <2> DEFINE text == p.text \o Part(x, p.at, from) \o Side(c.lines, {"both", "new"})
  <2>3. text \in Seq(S)
    <3>1. Part(x, p.at, from) \in Seq(S)
      BY <2>2, PartProperties
    <3>2. Side(c.lines, {"both", "new"}) \in Seq(S)
      BY <1>1, SideIsSeq
    <3> HIDE DEF from
    <3> QED
      BY <1>1, <3>1, <3>2
  <2>4. Patched(x, p, c) = [text |-> text, at |-> from + c.xs, fits |-> TRUE]
    BY <1>3 DEF Patched, from
  <2> HIDE DEF text
  <2> QED
    BY <2>2, <2>3, <2>4 DEF PatchOf
<1>4. CASE ~Fitting(x, p, c)
  <2>1. Patched(x, p, c) = [p EXCEPT !.fits = FALSE]
    BY <1>4 DEF Patched
  <2> QED
    BY <2>1 DEF PatchOf
<1> QED
  BY <1>3, <1>4

\* Patch is computed chunk by chunk.
LEMMA PatchRecursion ==
  ASSUME NEW S, NEW x \in Seq(S), NEW chunks \in Seq(ChunkOf(S))
  PROVE  \E f : Patch(x, chunks) = f[Len(chunks)] /\ IsPatch(f, x, chunks)
<1> DEFINE N == Len(chunks)
           L == PatchOf(S)
           Body(n, s) == Patched(x, s, chunks[n])
           f[k \in 0 .. Len(chunks)] ==
             IF k = 0 THEN [text |-> <<>>, at |-> 0, fits |-> TRUE]
             ELSE Patched(x, f[k - 1], chunks[k])
           Step(h) == [n \in 0..N |-> IF n = 0 THEN Unpatched ELSE Body(n, h[n - 1])]
           Eq(h) == h = Step(h)
           g == [p \in (1..N) \X L |-> Body(p[1], p[2])]
<1>1. N \in Nat /\ Unpatched \in L
  BY LenProperties DEF Unpatched, PatchOf
<1>2. ASSUME NEW n \in 1..N, NEW s \in L PROVE Body(n, s) \in L
  BY PatchedTyped, ElementOfSeq
<1>3. g \in [(1..N) \X L -> L] /\ \A n \in 1..N, s \in L : g[<<n, s>>] = Body(n, s)
  <2> HIDE DEF Body, L, N
  <2> QED
    BY <1>2
<1>4. PICK F : IsRecursion(F, L, N, Unpatched, g)
  <2> HIDE DEF g, L, N
  <2> QED
    BY <1>1, <1>3, Recursion
<1>5. Eq(F)
  <2> HIDE DEF g, Body, L, N
  <2>1. /\ F \in [0..N -> L] /\ F[0] = Unpatched
        /\ \A n \in 1..N : F[n] = g[<<n, F[n - 1]>>] /\ n - 1 \in 0..N /\ n # 0
    BY <1>1, <1>4 DEF IsRecursion
  <2>2. \A n \in 1..N : F[n] = Body(n, F[n - 1]) /\ n # 0
    BY <1>3, <2>1
  <2>3. \A n \in 0..N : n = 0 \/ n \in 1..N
    BY <1>1
  <2> QED
    BY <2>1, <2>2, <2>3
<1>6. Eq(CHOOSE h : Eq(h))
  <2> HIDE DEF Eq
  <2> QED
    BY <1>5
<1>7. Eq(f)
  BY <1>6 DEF Unpatched
<1>8. Patch(x, chunks) = f[N]
  BY DEF Patch
<1> DEFINE e == f
<1>9. Eq(e) /\ Patch(x, chunks) = e[N]
  BY <1>7, <1>8
<1> HIDE DEF e
<1>10. /\ e[0] = Unpatched
       /\ \A n \in 1..N : e[n] = Body(n, e[n - 1])
  <2> HIDE DEF Body, N
  <2>1. \A n \in 1..N : n \in 0..N /\ n # 0
    OBVIOUS
  <2>2. 0 \in 0..N
    BY <1>1
  <2> QED
    BY <1>9, <2>1, <2>2
<1>11. IsPatch(e, x, chunks)
  BY <1>10 DEF IsPatch
<1> HIDE DEF Step, Body, Eq
<1> QED
  BY <1>9, <1>11

LEMMA PatchRunTyped ==
  ASSUME NEW S, NEW x \in Seq(S), NEW chunks \in Seq(ChunkOf(S)), NEW f, IsPatch(f, x, chunks)
  PROVE  \A n \in 0..Len(chunks) : f[n] \in PatchOf(S)
<1> DEFINE N == Len(chunks)
           T == {n \in 0..N : f[n] \in PatchOf(S)}
<1>a. N \in Nat
  BY LenProperties
<1>1. 0 \in T
  <2>1. f[0] \in PatchOf(S)
    BY DEF IsPatch, Unpatched, PatchOf
  <2> HIDE DEF N
  <2> QED
    BY <1>a, <2>1
<1>2. ASSUME NEW n \in 1..N, n - 1 \in T PROVE n \in T
  <2>1. chunks[n] \in ChunkOf(S)
    BY ElementOfSeq
  <2>2. f[n] = Patched(x, f[n - 1], chunks[n])
    BY DEF IsPatch
  <2> HIDE DEF N
  <2>3. f[n - 1] \in PatchOf(S) /\ n \in 0..N
    BY <1>a, <1>2
  <2>4. f[n] \in PatchOf(S)
    BY <2>1, <2>2, <2>3, PatchedTyped
  <2> QED
    BY <2>3, <2>4
<1>3. 0..N \subseteq T
  <2> HIDE DEF T, N
  <2> QED
    BY <1>a, <1>1, <1>2, BoundedInduction
<1> QED
  BY <1>3

\* With no chunks the text is what it was, and another chunk patches what
\* those before it made.
LEMMA PatchSteps ==
  ASSUME NEW S, NEW x \in Seq(S)
  PROVE  /\ Patch(x, <<>>) = Unpatched
         /\ \A out \in Seq(ChunkOf(S)) :
              /\ Patch(x, out) \in PatchOf(S)
              /\ \A c \in ChunkOf(S) : Patch(x, Append(out, c)) = Patched(x, Patch(x, out), c)
<1>1. Patch(x, <<>>) = Unpatched
  <2>1. <<>> \in Seq(ChunkOf(S)) /\ Len(<<>>) = 0
    BY EmptySeq
  <2>2. PICK f : Patch(x, <<>>) = f[Len(<<>>)] /\ IsPatch(f, x, <<>>)
    BY <2>1, PatchRecursion
  <2> QED
    BY <2>1, <2>2 DEF IsPatch
<1>2. ASSUME NEW out \in Seq(ChunkOf(S))
      PROVE  /\ Patch(x, out) \in PatchOf(S)
             /\ \A c \in ChunkOf(S) : Patch(x, Append(out, c)) = Patched(x, Patch(x, out), c)
  <2> DEFINE N == Len(out)
  <2>a. N \in Nat
    BY LenProperties
  <2>1. PICK f : Patch(x, out) = f[N] /\ IsPatch(f, x, out)
    BY PatchRecursion
  <2>2. \A n \in 0..N : f[n] \in PatchOf(S)
    BY <2>1, PatchRunTyped
  <2>3. Patch(x, out) \in PatchOf(S)
    BY <2>a, <2>1, <2>2
  <2>4. ASSUME NEW c \in ChunkOf(S) PROVE Patch(x, Append(out, c)) = Patched(x, Patch(x, out), c)
    <3> DEFINE all == Append(out, c)
    <3>1. /\ all \in Seq(ChunkOf(S)) /\ Len(all) = N + 1
          /\ all[N + 1] = c /\ \A n \in 1..N : all[n] = out[n]
      BY AppendProperties
    <3> HIDE DEF all
    <3>2. PICK g : Patch(x, all) = g[Len(all)] /\ IsPatch(g, x, all)
      BY <3>1, PatchRecursion
    <3>f. f[0] = Unpatched /\ \A n \in 1..N : f[n] = Patched(x, f[n - 1], out[n])
      BY <2>1 DEF IsPatch
    <3>g. g[0] = Unpatched /\ \A n \in 1..N + 1 : g[n] = Patched(x, g[n - 1], all[n])
      BY <3>1, <3>2 DEF IsPatch
    <3> HIDE DEF N
    <3> DEFINE T == {n \in 0..N : g[n] = f[n]}
    <3>3. 0 \in T
      BY <2>a, <3>f, <3>g
    <3>4. ASSUME NEW n \in 1..N, n - 1 \in T PROVE n \in T
      <4>1. n \in 1..N + 1 /\ n \in 0..N /\ all[n] = out[n] /\ g[n - 1] = f[n - 1]
        BY <2>a, <3>1, <3>4
      <4>2. g[n] = f[n]
        BY <3>f, <3>g, <4>1
      <4> QED
        BY <4>1, <4>2
    <3>5. 0..N \subseteq T
      <4> HIDE DEF T
      <4> QED
        BY <2>a, <3>3, <3>4, BoundedInduction
    <3>6. g[N] = f[N]
      <4>1. N \in 0..N
        BY <2>a
      <4> QED
        BY <3>5, <4>1
    <3>7. g[N + 1] = Patched(x, g[N], c)
      <4>1. N + 1 \in 1..N + 1 /\ (N + 1) - 1 = N
        BY <2>a
      <4> QED
        BY <3>1, <3>g, <4>1
    <3> QED
      BY <2>1, <3>1, <3>2, <3>6, <3>7 DEF all
  <2> QED
    BY <2>3, <2>4
<1> QED
  BY <1>1, <1>2

\* Patching with the chunks written, and copying on, gives b lines of the new
\* text where a of the old one are read.
PatchedTo(x, y, out, a, b) ==
  LET p == Patch(x, out)
  IN  /\ p.fits /\ p.at <= a
      /\ p.text \o Part(x, p.at, a) = Part(y, 0, b)

LEMMA NothingPatched ==
  ASSUME NEW S, NEW x \in Seq(S), NEW y \in Seq(S)
  PROVE  PatchedTo(x, y, <<>>, 0, 0)
<1>1. Patch(x, <<>>) = Unpatched
  BY PatchSteps
<1>2. Part(x, 0, 0) = <<>> /\ Part(y, 0, 0) = <<>>
  BY PartWhole, LenProperties
<1>3. <<>> \o <<>> = <<>>
  BY EmptySeq, ConcatEmptySeq
<1> DEFINE p == Patch(x, <<>>)
<1>4. p.fits /\ p.at = 0 /\ p.text = <<>>
  BY <1>1 DEF Unpatched
<1> HIDE DEF p
<1>5. p.fits /\ p.at <= 0 /\ p.text \o Part(x, p.at, 0) = Part(y, 0, 0)
  BY <1>2, <1>3, <1>4
<1> QED
  BY <1>5 DEF PatchedTo, p

\* Associativity, as an operator of its own: the provers rarely find the
\* instance of it otherwise.
Splices(t, u, v) == t \o (u \o v) = (t \o u) \o v

LEMMA Spliced ==
  ASSUME NEW S, NEW t \in Seq(S), NEW u \in Seq(S), NEW v \in Seq(S)
  PROVE  Splices(t, u, v)
BY DEF Splices

\* It stays so over lines that are the same.
LEMMA PatchedFurther ==
  ASSUME NEW S, NEW x \in Seq(S), NEW y \in Seq(S), NEW out \in Seq(ChunkOf(S)),
         NEW a \in 0..Len(x), NEW b \in 0..Len(y), NEW n \in Nat,
         a + n <= Len(x), b + n <= Len(y), Same(x, y, a, b, n),
         PatchedTo(x, y, out, a, b)
  PROVE  PatchedTo(x, y, out, a + n, b + n)
<1> DEFINE p == Patch(x, out)
           c == a + n
           d == b + n
<1>1. p.text \in Seq(S) /\ p.at \in Nat
  BY PatchSteps DEF PatchOf
<1>2. p.fits /\ p.at <= a /\ p.text \o Part(x, p.at, a) = Part(y, 0, b)
  BY DEF PatchedTo
<1>3. Part(x, a, c) = Part(y, b, d)
  <2>1. c \in a..Len(x) /\ d \in b..Len(y) /\ c = a + n /\ d = b + n
    BY LenProperties
  <2> HIDE DEF c, d
  <2> QED
    BY <2>1, SameParts
<1>4. /\ p.at \in 0..Len(x) /\ a \in p.at..Len(x) /\ c \in a..Len(x) /\ p.at <= c
      /\ c \in p.at..Len(x)
      /\ 0 \in 0..Len(y) /\ b \in 0..Len(y) /\ d \in b..Len(y)
  BY <1>1, <1>2, LenProperties
<1> HIDE DEF p, c, d
<1>5. Part(x, p.at, a) \o Part(x, a, c) = Part(x, p.at, c)
  BY <1>4, PartsConcat
<1>6. Part(y, 0, b) \o Part(y, b, d) = Part(y, 0, d)
  BY <1>4, PartsConcat
<1>7. Part(x, p.at, a) \in Seq(S) /\ Part(x, a, c) \in Seq(S)
  BY <1>4, PartProperties
<1>8. p.text \o Part(x, p.at, c) = Part(y, 0, d)
  <2> DEFINE t == p.text
             u == Part(x, p.at, a)
             v == Part(x, a, c)
  <2>1. t \in Seq(S) /\ u \in Seq(S) /\ v \in Seq(S)
    BY <1>1, <1>7
  <2>2. t \o u = Part(y, 0, b) /\ u \o v = Part(x, p.at, c) /\ Part(y, 0, b) \o v = Part(y, 0, d)
    BY <1>2, <1>3, <1>5, <1>6
  <2> HIDE DEF t, u, v
  <2>3. Splices(t, u, v)
    BY <2>1, Spliced, Zenon
  <2>4. t \o Part(x, p.at, c) = Part(y, 0, d)
    BY <2>2, <2>3, Zenon DEF Splices
  <2> QED
    BY <2>4 DEF t
<1> QED
  BY <1>2, <1>4, <1>8 DEF PatchedTo, p, c, d

\* A chunk of what stands between patches up to its end.
LEMMA PatchedByChunk ==
  ASSUME NEW S, NEW x \in Seq(S), NEW y \in Seq(S), NEW out \in Seq(ChunkOf(S)),
         NEW a \in 0..Len(x), NEW b \in 0..Len(y), NEW c \in a..Len(x), NEW d \in b..Len(y),
         NEW chunk \in ChunkOf(S),
         chunk.xs = c - a, chunk.ys = d - b,
         From(chunk.x, chunk.xs) = a, From(chunk.y, chunk.ys) = b,
         Side(chunk.lines, {"both", "old"}) = Part(x, a, c),
         Side(chunk.lines, {"both", "new"}) = Part(y, b, d),
         PatchedTo(x, y, out, a, b)
  PROVE  PatchedTo(x, y, Append(out, chunk), c, d)
<1> DEFINE p == Patch(x, out)
           q == Patch(x, Append(out, chunk))
<1>1. p.text \in Seq(S) /\ p.at \in Nat /\ q = Patched(x, p, chunk)
  BY PatchSteps DEF PatchOf
<1>2. p.fits /\ p.at <= a /\ p.text \o Part(x, p.at, a) = Part(y, 0, b)
  BY DEF PatchedTo
<1>3. /\ a + (c - a) = c /\ Len(x) \in Nat /\ Len(y) \in Nat /\ a \in Nat /\ b \in Nat
      /\ p.at \in 0..Len(x) /\ a \in p.at..Len(x) /\ 0 \in 0..Len(y) /\ b \in 0..Len(y)
  BY <1>1, <1>2, LenProperties
<1> HIDE DEF p, q
<1>4. /\ Part(x, p.at, a) \in Seq(S) /\ Len(Part(x, p.at, a)) = a - p.at
      /\ Part(y, 0, b) \in Seq(S) /\ Len(Part(y, 0, b)) = b - 0
      /\ Part(y, b, d) \in Seq(S) /\ Len(Part(y, b, d)) = d - b
  <2>1. Part(x, p.at, a) \in Seq(S) /\ Len(Part(x, p.at, a)) = a - p.at
    <3> DEFINE z == p.at
    <3>1. z \in 0..Len(x) /\ a \in z..Len(x)
      BY <1>3
    <3> HIDE DEF z
    <3>2. Part(x, z, a) \in Seq(S) /\ Len(Part(x, z, a)) = a - z
      BY <3>1, PartProperties
    <3> QED
      BY <3>2 DEF z
  <2>2. Part(y, 0, b) \in Seq(S) /\ Len(Part(y, 0, b)) = b - 0
    <3>1. 0 \in 0..Len(y) /\ b \in 0..Len(y)
      BY <1>3
    <3> QED
      BY <3>1, PartProperties
  <2>3. Part(y, b, d) \in Seq(S) /\ Len(Part(y, b, d)) = d - b
    BY PartProperties
  <2> QED
    BY <2>1, <2>2, <2>3
<1>5. Len(p.text) + (a - p.at) = b
  <2>1. Len(p.text \o Part(x, p.at, a)) = Len(p.text) + Len(Part(x, p.at, a))
    BY <1>1, <1>4, ConcatProperties
  <2> QED
    BY <1>2, <1>3, <1>4, <2>1
<1>6. Fitting(x, p, chunk)
  <2>1. b = Len(p.text) + a - p.at
    BY <1>1, <1>3, <1>5, LenProperties
  <2> QED
    BY <1>2, <1>3, <1>4, <2>1 DEF Fitting
<1>7. q = [text |-> p.text \o Part(x, p.at, a) \o Part(y, b, d), at |-> c, fits |-> TRUE]
  BY <1>1, <1>3, <1>6 DEF Patched
<1>8. p.text \o Part(x, p.at, a) \o Part(y, b, d) = Part(y, 0, d)
  BY <1>2, <1>3, PartsConcat
<1>9. Part(x, c, c) = <<>>
  BY PartWhole
<1>10. Part(y, 0, d) \o <<>> = Part(y, 0, d)
  <2>1. 0 \in 0..Len(y) /\ d \in 0..Len(y)
    BY <1>3
  <2> QED
    BY <2>1, PartProperties, ConcatEmptySeq
<1>11. q.fits /\ q.at = c /\ q.text = Part(y, 0, d)
  BY <1>7, <1>8
<1>12. q.text \o Part(x, q.at, c) = Part(y, 0, d)
  BY <1>9, <1>10, <1>11, Zenon
<1>13. q.at <= c
  BY <1>11
<1> QED
  BY <1>11, <1>12, <1>13 DEF PatchedTo, q

-----------------------------------------------------------------------------
(***************************************************************************)
(* The chunk begun: what its lines are of either text.                     *)
(***************************************************************************)
PairOf == [x : Int, y : Int]
AtOf(S) == [done : PairOf, chunk : PairOf, count : PairOf, ctext : Seq(LineOf(S)),
            out : Seq(ChunkOf(S)), over : BOOLEAN]

\* The lines are those of either text from the beginning of the chunk to done.
Holds(x, y, ctext, chunk, done) ==
  /\ Side(ctext, {"both", "old"}) = Part(x, chunk.x, done.x)
  /\ Side(ctext, {"both", "new"}) = Part(y, chunk.y, done.y)
Ordered(x, y, chunk, done) ==
  /\ chunk.x \in 0..Len(x) /\ done.x \in chunk.x..Len(x)
  /\ chunk.y \in 0..Len(y) /\ done.y \in chunk.y..Len(y)
Counted(chunk, done, count) ==
  count.x = done.x - chunk.x /\ count.y = done.y - chunk.y
Consistent(x, y, at) ==
  /\ Ordered(x, y, at.chunk, at.done)
  /\ Counted(at.chunk, at.done, at.count)
  /\ Holds(x, y, at.ctext, at.chunk, at.done)

\* The sides of lines with the same mark.
LEMMA MarkedSides ==
  ASSUME NEW S, NEW s \in Seq(S), NEW a \in 0..Len(s), NEW b \in a..Len(s)
  PROVE  /\ Marked("both", s, a, b) \in Seq(LineOf(S))
         /\ Marked("old", s, a, b) \in Seq(LineOf(S))
         /\ Marked("new", s, a, b) \in Seq(LineOf(S))
         /\ Side(Marked("both", s, a, b), {"both", "old"}) = Part(s, a, b)
         /\ Side(Marked("both", s, a, b), {"both", "new"}) = Part(s, a, b)
         /\ Side(Marked("old", s, a, b), {"both", "old"}) = Part(s, a, b)
         /\ Side(Marked("old", s, a, b), {"both", "new"}) = <<>>
         /\ Side(Marked("new", s, a, b), {"both", "old"}) = <<>>
         /\ Side(Marked("new", s, a, b), {"both", "new"}) = Part(s, a, b)
<1>1. /\ "both" \in Marks /\ "old" \in Marks /\ "new" \in Marks
      /\ "both" \in {"both", "old"} /\ "both" \in {"both", "new"}
      /\ "old" \in {"both", "old"} /\ "new" \in {"both", "new"}
      /\ "old" \notin {"both", "new"} /\ "new" \notin {"both", "old"}
  BY DEF Marks
<1>2. \A mark \in Marks : Marked(mark, s, a, b) \in Seq(LineOf(S))
  BY MarkedTyped
<1>3. \A mark \in Marks : \A marks :
        Side(Marked(mark, s, a, b), marks) = IF mark \in marks THEN Part(s, a, b) ELSE <<>>
  BY SideMarked
<1> QED
  BY <1>1, <1>2, <1>3, Zenon

\* The side of a text with more lines.
LEMMA SideOfMore ==
  ASSUME NEW S, NEW s \in Seq(S), NEW a \in 0..Len(s), NEW b \in a..Len(s), NEW c \in b..Len(s),
         NEW ctext \in Seq(LineOf(S)), NEW more \in Seq(LineOf(S)), NEW marks,
         Side(ctext, marks) = Part(s, a, b), Side(more, marks) = Part(s, b, c)
  PROVE  Side(ctext \o more, marks) = Part(s, a, c)
<1>1. Side(ctext \o more, marks) = Side(ctext, marks) \o Side(more, marks)
  BY SideConcat
<1>2. Part(s, a, b) \o Part(s, b, c) = Part(s, a, c)
  BY PartsConcat
<1> QED
  BY <1>1, <1>2

LEMMA SideOfNoMore ==
  ASSUME NEW S, NEW ctext \in Seq(LineOf(S)), NEW more \in Seq(LineOf(S)), NEW marks,
         Side(more, marks) = <<>>
  PROVE  Side(ctext \o more, marks) = Side(ctext, marks)
<1>1. Side(ctext \o more, marks) = Side(ctext, marks) \o Side(more, marks)
  <2>1. \A t \in Seq(LineOf(S)) :
          Side(ctext \o t, marks) = Side(ctext, marks) \o Side(t, marks)
    BY SideConcat
  <2> QED
    BY <2>1, Zenon
<1>2. Side(ctext, marks) \in Seq(S)
  BY SideIsSeq
<1>3. Side(ctext, marks) \o <<>> = Side(ctext, marks)
  BY <1>2, ConcatEmptySeq
<1> QED
  BY <1>1, <1>3

\* The lines that differ.
LEMMA DifferingKeeps ==
  ASSUME NEW S, NEW x \in Seq(S), NEW y \in Seq(S), NEW at \in AtOf(S),
         Consistent(x, y, at), NEW start \in PairOf,
         start.x \in at.done.x..Len(x), start.y \in at.done.y..Len(y)
  PROVE  /\ Differing(x, y, at, start) \in AtOf(S)
         /\ Consistent(x, y, Differing(x, y, at, start))
         /\ Differing(x, y, at, start).done = start
         /\ Differing(x, y, at, start).chunk = at.chunk
         /\ Differing(x, y, at, start).out = at.out
         /\ Differing(x, y, at, start).over = at.over
<1> DEFINE d == Differing(x, y, at, start)
           old == Marked("old", x, at.done.x, start.x)
           new == Marked("new", y, at.done.y, start.y)
           count == Pair(at.count.x + (start.x - at.done.x), at.count.y + (start.y - at.done.y))
<1>1. /\ at.done \in PairOf /\ at.chunk \in PairOf /\ at.count \in PairOf
      /\ at.ctext \in Seq(LineOf(S))
      /\ at.count.x \in Int /\ at.count.y \in Int /\ at.done.x \in Int /\ at.done.y \in Int
      /\ start.x \in Int /\ start.y \in Int
  BY DEF AtOf, PairOf
<1>2. Ordered(x, y, at.chunk, at.done) /\ Counted(at.chunk, at.done, at.count)
      /\ Holds(x, y, at.ctext, at.chunk, at.done)
  BY DEF Consistent
<1>3. /\ at.chunk.x \in 0..Len(x) /\ at.done.x \in at.chunk.x..Len(x) /\ at.done.x \in 0..Len(x)
      /\ at.chunk.y \in 0..Len(y) /\ at.done.y \in at.chunk.y..Len(y) /\ at.done.y \in 0..Len(y)
  BY <1>2 DEF Ordered
<1>4. /\ old \in Seq(LineOf(S)) /\ Side(old, {"both", "new"}) = <<>>
      /\ Side(old, {"both", "old"}) = Part(x, at.done.x, start.x)
  <2>1. at.done.x \in 0..Len(x)
    BY <1>3
  <2> QED
    BY <2>1, MarkedSides
<1>5. /\ new \in Seq(LineOf(S)) /\ Side(new, {"both", "old"}) = <<>>
      /\ Side(new, {"both", "new"}) = Part(y, at.done.y, start.y)
  <2>1. at.done.y \in 0..Len(y)
    BY <1>3
  <2> QED
    BY <2>1, MarkedSides
<1>6. count \in PairOf
  BY <1>1 DEF Pair, PairOf
<1>7. /\ d = [at EXCEPT !.ctext = at.ctext \o old \o new, !.count = count, !.done = start]
  BY DEF Differing
<1> HIDE DEF old, new, count
<1>8. at.ctext \o old \in Seq(LineOf(S)) /\ at.ctext \o old \o new \in Seq(LineOf(S))
  BY <1>1, <1>4, <1>5, ConcatProperties
<1> DEFINE first == at.ctext \o old
           lines == first \o new
<1> HIDE DEF d, first, lines
<1>9. /\ d \in AtOf(S) /\ d.done = start /\ d.chunk = at.chunk /\ d.out = at.out /\ d.over = at.over
      /\ d.ctext = lines /\ d.count = count
  BY <1>6, <1>7, <1>8 DEF AtOf, first, lines
<1>a. first \in Seq(LineOf(S))
  BY <1>8 DEF first
<1>10. Ordered(x, y, d.chunk, d.done)
  BY <1>3, <1>9 DEF Ordered
<1>11. Counted(d.chunk, d.done, d.count)
  <2>1. count.x = at.count.x + (start.x - at.done.x) /\ count.y = at.count.y + (start.y - at.done.y)
    BY DEF count, Pair
  <2>2. at.count.x = at.done.x - at.chunk.x /\ at.count.y = at.done.y - at.chunk.y
    BY <1>2 DEF Counted
  <2>3. at.chunk.x \in Int /\ at.chunk.y \in Int
    BY <1>3
  <2>4. count.x = start.x - at.chunk.x
    <3> DEFINE e == at.chunk.x
               f == at.done.x
               g == start.x
               h == at.count.x
               k == count.x
    <3>1. e \in Int /\ f \in Int /\ g \in Int /\ k = h + (g - f) /\ h = f - e
      BY <1>1, <2>1, <2>2, <2>3
    <3> HIDE DEF e, f, g, h, k
    <3>2. k = g - e
      BY <3>1
    <3> QED
      BY <3>2 DEF e, g, k
  <2>5. count.y = start.y - at.chunk.y
    <3> DEFINE e == at.chunk.y
               f == at.done.y
               g == start.y
               h == at.count.y
               k == count.y
    <3>1. e \in Int /\ f \in Int /\ g \in Int /\ k = h + (g - f) /\ h = f - e
      BY <1>1, <2>1, <2>2, <2>3
    <3> HIDE DEF e, f, g, h, k
    <3>2. k = g - e
      BY <3>1
    <3> QED
      BY <3>2 DEF e, g, k
  <2> QED
    BY <1>9, <2>4, <2>5 DEF Counted
<1>12. Side(lines, {"both", "old"}) = Part(x, at.chunk.x, start.x)
  <2>1. Side(at.ctext, {"both", "old"}) = Part(x, at.chunk.x, at.done.x)
    BY <1>2 DEF Holds
  <2>2. Side(first, {"both", "old"}) = Part(x, at.chunk.x, start.x)
    BY <1>1, <1>3, <1>4, <2>1, SideOfMore DEF first
  <2>3. Side(first \o new, {"both", "old"}) = Side(first, {"both", "old"})
    BY <1>5, <1>a, SideOfNoMore
  <2> QED
    BY <2>2, <2>3 DEF lines
<1>13. Side(lines, {"both", "new"}) = Part(y, at.chunk.y, start.y)
  <2>1. Side(at.ctext, {"both", "new"}) = Part(y, at.chunk.y, at.done.y)
    BY <1>2 DEF Holds
  <2>2. Side(first, {"both", "new"}) = Part(y, at.chunk.y, at.done.y)
    BY <1>1, <1>4, <2>1, SideOfNoMore DEF first
  <2>3. Side(first \o new, {"both", "new"}) = Part(y, at.chunk.y, start.y)
    BY <1>3, <1>5, <1>a, <2>2, SideOfMore
  <2> QED
    BY <2>3 DEF lines
<1>14. Holds(x, y, d.ctext, d.chunk, d.done)
  BY <1>9, <1>12, <1>13 DEF Holds
<1> QED
  BY <1>9, <1>10, <1>11, <1>14 DEF Consistent, d

\* The lines that are the same.
LEMMA CommonKeeps ==
  ASSUME NEW S, NEW x \in Seq(S), NEW y \in Seq(S), NEW at \in AtOf(S),
         Consistent(x, y, at), NEW n \in Nat,
         at.done.x + n <= Len(x), at.done.y + n <= Len(y),
         Same(x, y, at.done.x, at.done.y, n)
  PROVE  /\ Common(x, at, n) \in AtOf(S)
         /\ Consistent(x, y, Common(x, at, n))
         /\ Common(x, at, n).done = Pair(at.done.x + n, at.done.y + n)
         /\ Common(x, at, n).chunk = at.chunk
         /\ Common(x, at, n).out = at.out
         /\ Common(x, at, n).over = at.over
<1> DEFINE d == Common(x, at, n)
           ux == at.done.x + n
           uy == at.done.y + n
           more == Marked("both", x, at.done.x, ux)
           count == Pair(at.count.x + n, at.count.y + n)
           done == Pair(ux, uy)
<1>1. /\ at.done \in PairOf /\ at.chunk \in PairOf /\ at.count \in PairOf
      /\ at.ctext \in Seq(LineOf(S))
      /\ at.count.x \in Int /\ at.count.y \in Int /\ at.done.x \in Int /\ at.done.y \in Int
      /\ at.chunk.x \in Int /\ at.chunk.y \in Int
  BY DEF AtOf, PairOf
<1>2. Ordered(x, y, at.chunk, at.done) /\ Counted(at.chunk, at.done, at.count)
      /\ Holds(x, y, at.ctext, at.chunk, at.done)
  BY DEF Consistent
<1>3. /\ at.chunk.x \in 0..Len(x) /\ at.done.x \in at.chunk.x..Len(x) /\ at.done.x \in 0..Len(x)
      /\ at.chunk.y \in 0..Len(y) /\ at.done.y \in at.chunk.y..Len(y) /\ at.done.y \in 0..Len(y)
  BY <1>2 DEF Ordered
<1>4. /\ ux \in at.done.x..Len(x) /\ uy \in at.done.y..Len(y)
      /\ ux \in at.chunk.x..Len(x) /\ uy \in at.chunk.y..Len(y)
      /\ ux = at.done.x + n /\ uy = at.done.y + n /\ ux \in Int /\ uy \in Int
  BY <1>3, LenProperties
<1>5. d = [at EXCEPT !.ctext = at.ctext \o more, !.count = count, !.done = done]
  BY DEF Common
<1>6. /\ count.x = at.count.x + n /\ count.y = at.count.y + n
      /\ done.x = at.done.x + n /\ done.y = at.done.y + n /\ done.x = ux /\ done.y = uy
      /\ done \in PairOf /\ count \in PairOf
  <2>1. at.count.x + n \in Int /\ at.count.y + n \in Int
    BY <1>1
  <2> QED
    BY <1>1, <1>4, <2>1 DEF Pair, PairOf
<1> HIDE DEF ux, uy, count, done
<1>7. Part(x, at.done.x, ux) = Part(y, at.done.y, uy)
  BY <1>3, <1>4, SameParts
<1>8. /\ more \in Seq(LineOf(S))
      /\ Side(more, {"both", "old"}) = Part(x, at.done.x, ux)
      /\ Side(more, {"both", "new"}) = Part(y, at.done.y, uy)
  <2>1. at.done.x \in 0..Len(x) /\ ux \in at.done.x..Len(x)
    BY <1>3, <1>4
  <2>2. /\ more \in Seq(LineOf(S))
        /\ Side(more, {"both", "old"}) = Part(x, at.done.x, ux)
        /\ Side(more, {"both", "new"}) = Part(x, at.done.x, ux)
    BY <2>1, MarkedSides
  <2> QED
    BY <1>7, <2>2, Zenon
<1> HIDE DEF more
<1> DEFINE lines == at.ctext \o more
<1>9. lines \in Seq(LineOf(S))
  BY <1>1, <1>8, ConcatProperties
<1> HIDE DEF d
<1>10. /\ d \in AtOf(S) /\ d.done = done /\ d.chunk = at.chunk /\ d.out = at.out /\ d.over = at.over
       /\ d.ctext = lines /\ d.count = count
  <2> HIDE DEF lines
  <2>1. d = [at EXCEPT !.ctext = lines, !.count = count, !.done = done]
    BY <1>5 DEF lines
  <2> QED
    BY <1>6, <1>9, <2>1 DEF AtOf
<1>11. Ordered(x, y, d.chunk, d.done)
  BY <1>3, <1>4, <1>6, <1>10 DEF Ordered
<1>12. Counted(d.chunk, d.done, d.count)
  <2>1. count.x = done.x - at.chunk.x
    <3> DEFINE e == at.chunk.x
               f == at.done.x
               h == at.count.x
    <3>1. e \in Int /\ f \in Int /\ h = f - e /\ count.x = h + n /\ done.x = f + n
      BY <1>1, <1>2, <1>3, <1>6 DEF Counted
    <3> HIDE DEF e, f, h
    <3>2. count.x = done.x - e
      BY <3>1
    <3> QED
      BY <3>2 DEF e
  <2>2. count.y = done.y - at.chunk.y
    <3> DEFINE e == at.chunk.y
               f == at.done.y
               h == at.count.y
    <3>1. e \in Int /\ f \in Int /\ h = f - e /\ count.y = h + n /\ done.y = f + n
      BY <1>1, <1>2, <1>3, <1>6 DEF Counted
    <3> HIDE DEF e, f, h
    <3>2. count.y = done.y - e
      BY <3>1
    <3> QED
      BY <3>2 DEF e
  <2> QED
    BY <1>10, <2>1, <2>2 DEF Counted
<1>13. Holds(x, y, d.ctext, d.chunk, d.done)
  <2>1. Side(at.ctext, {"both", "old"}) = Part(x, at.chunk.x, at.done.x)
        /\ Side(at.ctext, {"both", "new"}) = Part(y, at.chunk.y, at.done.y)
    BY <1>2 DEF Holds
  <2> DEFINE t == at.ctext
             ax == at.chunk.x
             ay == at.chunk.y
             dx == at.done.x
             dy == at.done.y
  <2>2. /\ t \in Seq(LineOf(S)) /\ more \in Seq(LineOf(S))
        /\ ax \in 0..Len(x) /\ dx \in ax..Len(x) /\ ux \in dx..Len(x)
        /\ ay \in 0..Len(y) /\ dy \in ay..Len(y) /\ uy \in dy..Len(y)
    BY <1>1, <1>3, <1>4, <1>8
  <2>3. /\ Side(t, {"both", "old"}) = Part(x, ax, dx)
        /\ Side(more, {"both", "old"}) = Part(x, dx, ux)
        /\ Side(t, {"both", "new"}) = Part(y, ay, dy)
        /\ Side(more, {"both", "new"}) = Part(y, dy, uy)
    BY <1>8, <2>1
  <2> HIDE DEF t, ax, ay, dx, dy
  <2>4. Side(t \o more, {"both", "old"}) = Part(x, ax, ux)
    BY <2>2, <2>3, SideOfMore
  <2>5. Side(t \o more, {"both", "new"}) = Part(y, ay, uy)
    BY <2>2, <2>3, SideOfMore
  <2> QED
    BY <1>6, <1>10, <2>4, <2>5 DEF Holds, t, ax, ay
<1>14. d.done = Pair(at.done.x + n, at.done.y + n)
  BY <1>10 DEF done, ux, uy
<1> QED
  BY <1>10, <1>11, <1>12, <1>13, <1>14 DEF Consistent, d

\* The chunk as it is written patches up to done.
LEMMA ChunkPatches ==
  ASSUME NEW S, NEW x \in Seq(S), NEW y \in Seq(S), NEW at \in AtOf(S),
         Consistent(x, y, at), PatchedTo(x, y, at.out, at.chunk.x, at.chunk.y)
  PROVE  /\ Chunk(at) \in ChunkOf(S)
         /\ PatchedTo(x, y, Append(at.out, Chunk(at)), at.done.x, at.done.y)
<1> DEFINE c == Chunk(at)
<1>1. at.ctext \in Seq(LineOf(S)) /\ at.out \in Seq(ChunkOf(S))
  BY DEF AtOf
<1>2. Ordered(x, y, at.chunk, at.done) /\ Counted(at.chunk, at.done, at.count)
      /\ Holds(x, y, at.ctext, at.chunk, at.done)
  BY DEF Consistent
<1>3. /\ at.chunk.x \in 0..Len(x) /\ at.done.x \in at.chunk.x..Len(x)
      /\ at.chunk.y \in 0..Len(y) /\ at.done.y \in at.chunk.y..Len(y)
  BY <1>2 DEF Ordered
<1>4. at.count.x = at.done.x - at.chunk.x /\ at.count.y = at.done.y - at.chunk.y
  BY <1>2 DEF Counted
<1>5. /\ c.x = at.chunk.x + IF at.count.x > 0 THEN 1 ELSE 0
      /\ c.y = at.chunk.y + IF at.count.y > 0 THEN 1 ELSE 0
      /\ c.xs = at.count.x /\ c.ys = at.count.y /\ c.lines = at.ctext
      /\ c = [x |-> c.x, y |-> c.y, xs |-> c.xs, ys |-> c.ys, lines |-> c.lines]
  BY DEF Chunk
<1> DEFINE ax == at.chunk.x
           ay == at.chunk.y
           dx == at.done.x
           dy == at.done.y
<1>6. /\ ax \in 0..Len(x) /\ dx \in ax..Len(x) /\ ay \in 0..Len(y) /\ dy \in ay..Len(y)
      /\ c.xs = dx - ax /\ c.ys = dy - ay
      /\ c.x = ax + IF dx - ax > 0 THEN 1 ELSE 0
      /\ c.y = ay + IF dy - ay > 0 THEN 1 ELSE 0
  BY <1>3, <1>4, <1>5
<1> HIDE DEF c, ax, ay, dx, dy
<1>7. c.x \in Nat /\ c.y \in Nat /\ c.xs \in Nat /\ c.ys \in Nat
  BY <1>6
<1>8. c \in ChunkOf(S)
  BY <1>1, <1>5, <1>7 DEF ChunkOf
<1>9. From(c.x, c.xs) = ax /\ From(c.y, c.ys) = ay
  BY <1>6 DEF From
<1>10. /\ Side(c.lines, {"both", "old"}) = Part(x, ax, dx)
       /\ Side(c.lines, {"both", "new"}) = Part(y, ay, dy)
  BY <1>2, <1>5 DEF Holds, ax, ay, dx, dy
<1>11. PatchedTo(x, y, at.out, ax, ay)
  BY DEF ax, ay
<1>12. PatchedTo(x, y, Append(at.out, c), dx, dy)
  BY <1>1, <1>6, <1>8, <1>9, <1>10, <1>11, PatchedByChunk
<1> QED
  BY <1>8, <1>12 DEF c, dx, dy

-----------------------------------------------------------------------------
(***************************************************************************)
(* The lines that are the same before a match and behind it.               *)
(***************************************************************************)
LEMMA MinOfTwo ==
  ASSUME NEW a \in Int, NEW b \in Int
  PROVE  Min({a, b}) = IF a <= b THEN a ELSE b
<1>1. \E m \in {a, b} : \A n \in {a, b} : m <= n
  <2>1. a <= b \/ b <= a
    OBVIOUS
  <2> QED
    BY <2>1
<1>2. Min({a, b}) \in {a, b} /\ \A n \in {a, b} : Min({a, b}) <= n
  BY <1>1 DEF Min
<1> QED
  BY <1>2

LEMMA StartProperties ==
  ASSUME NEW S, NEW x \in Seq(S), NEW y \in Seq(S), NEW done \in PairOf, NEW m \in PairOf,
         done.x \in 0..Len(x), done.y \in 0..Len(y),
         m.x \in done.x..Len(x), m.y \in done.y..Len(y)
  PROVE  \E b \in Nat : /\ b <= m.x - done.x /\ b <= m.y - done.y
                        /\ Start(x, y, done, m) = Pair(m.x - b, m.y - b)
                        /\ Same(x, y, m.x - b, m.y - b, b)
<1> DEFINE mx == m.x
           my == m.y
           dx == done.x
           dy == done.y
           N == Min({mx - dx, my - dy})
           back == {k \in 0 .. N : \A i \in 1 .. k : x[mx - i + 1] = y[my - i + 1]}
           b == Max(back)
<1>1. /\ Len(x) \in Nat /\ Len(y) \in Nat /\ dx \in 0..Len(x) /\ dy \in 0..Len(y)
      /\ mx \in dx..Len(x) /\ my \in dy..Len(y)
  BY LenProperties
<1>2. Start(x, y, done, m) = Pair(mx - b, my - b)
  BY DEF Start
<1> HIDE DEF mx, my, dx, dy
<1>3. N \in Nat /\ N <= mx - dx /\ N <= my - dy
  <2>1. mx - dx \in Int /\ my - dy \in Int
    BY <1>1
  <2>2. N = IF mx - dx <= my - dy THEN mx - dx ELSE my - dy
    BY <2>1, MinOfTwo
  <2> HIDE DEF N
  <2> QED
    BY <1>1, <2>2
<1> HIDE DEF N
<1>4. b \in back
  <2>1. 0 \in back
    BY <1>3
  <2>2. back \in SUBSET (0..N)
    OBVIOUS
  <2> HIDE DEF back
  <2> QED
    BY <1>3, <2>1, <2>2, LeastAndGreatest
<1> HIDE DEF b
<1>5. b \in 0..N /\ \A i \in 1..b : x[mx - i + 1] = y[my - i + 1]
  BY <1>4
<1>6. b \in Nat /\ b <= mx - dx /\ b <= my - dy
  BY <1>1, <1>3, <1>5
<1>7. Same(x, y, mx - b, my - b, b)
  <2> SUFFICES ASSUME NEW i \in 1..b PROVE x[(mx - b) + i] = y[(my - b) + i]
    BY DEF Same
  <2> DEFINE j == b - i + 1
  <2>1. j \in 1..b /\ mx - j + 1 = (mx - b) + i /\ my - j + 1 = (my - b) + i
    BY <1>1, <1>6
  <2> HIDE DEF j
  <2>2. x[mx - j + 1] = y[my - j + 1]
    BY <1>5, <2>1
  <2> QED
    BY <2>1, <2>2
<1> QED
  BY <1>2, <1>6, <1>7 DEF mx, my, dx, dy

LEMMA EndProperties ==
  ASSUME NEW S, NEW x \in Seq(S), NEW y \in Seq(S), NEW m \in PairOf,
         m.x \in 0..Len(x), m.y \in 0..Len(y)
  PROVE  \E e \in Nat : /\ e <= Len(x) - m.x /\ e <= Len(y) - m.y
                        /\ End(x, y, m) = Pair(m.x + e, m.y + e)
                        /\ Same(x, y, m.x, m.y, e)
<1> DEFINE mx == m.x
           my == m.y
           N == Min({Len(x) - mx, Len(y) - my})
           on == {k \in 0 .. N : \A i \in 1 .. k : x[mx + i] = y[my + i]}
           e == Max(on)
<1>1. Len(x) \in Nat /\ Len(y) \in Nat /\ mx \in 0..Len(x) /\ my \in 0..Len(y)
  BY LenProperties
<1>2. End(x, y, m) = Pair(mx + e, my + e)
  BY DEF End
<1> HIDE DEF mx, my
<1>3. N \in Nat /\ N <= Len(x) - mx /\ N <= Len(y) - my
  <2>1. Len(x) - mx \in Int /\ Len(y) - my \in Int
    BY <1>1
  <2>2. N = IF Len(x) - mx <= Len(y) - my THEN Len(x) - mx ELSE Len(y) - my
    BY <2>1, MinOfTwo
  <2> HIDE DEF N
  <2> QED
    BY <1>1, <2>2
<1> HIDE DEF N
<1>4. e \in on
  <2>1. 0 \in on
    BY <1>3
  <2>2. on \in SUBSET (0..N)
    OBVIOUS
  <2> HIDE DEF on
  <2> QED
    BY <1>3, <2>1, <2>2, LeastAndGreatest
<1> HIDE DEF e
<1>5. e \in 0..N /\ \A i \in 1..e : x[mx + i] = y[my + i]
  BY <1>4
<1>6. e \in Nat /\ e <= Len(x) - mx /\ e <= Len(y) - my
  BY <1>1, <1>3, <1>5
<1>7. Same(x, y, mx, my, e)
  BY <1>5 DEF Same
<1> QED
  BY <1>2, <1>6, <1>7 DEF mx, my

\* Lines that are the same, followed by others that are, and split again.
LEMMA SameFurther ==
  ASSUME NEW x, NEW y, NEW a \in Int, NEW b \in Int, NEW n \in Nat, NEW k \in Nat,
         Same(x, y, a, b, n), Same(x, y, a + n, b + n, k)
  PROVE  Same(x, y, a, b, n + k)
<1> SUFFICES ASSUME NEW i \in 1..n + k PROVE x[a + i] = y[b + i]
  BY DEF Same
<1>1. CASE i <= n
  <2>1. i \in 1..n
    BY <1>1
  <2> QED
    BY <2>1 DEF Same
<1>2. CASE i > n
  <2> DEFINE j == i - n
  <2>1. j \in 1..k /\ (a + n) + j = a + i /\ (b + n) + j = b + i
    BY <1>2
  <2> HIDE DEF j
  <2>2. x[(a + n) + j] = y[(b + n) + j]
    BY <2>1 DEF Same
  <2> QED
    BY <2>1, <2>2
<1> QED
  BY <1>1, <1>2

LEMMA SameSplit ==
  ASSUME NEW x, NEW y, NEW a \in Int, NEW b \in Int, NEW n \in Nat, NEW k \in 0..n,
         Same(x, y, a, b, n)
  PROVE  Same(x, y, a, b, k) /\ Same(x, y, a + k, b + k, n - k)
<1>1. \A i \in 1..n : x[a + i] = y[b + i]
  BY DEF Same
<1>2. Same(x, y, a, b, k)
  <2> SUFFICES ASSUME NEW i \in 1..k PROVE x[a + i] = y[b + i]
    BY DEF Same
  <2>1. i \in 1..n
    OBVIOUS
  <2> QED
    BY <1>1, <2>1
<1>3. Same(x, y, a + k, b + k, n - k)
  <2> SUFFICES ASSUME NEW i \in 1..n - k PROVE x[(a + k) + i] = y[(b + k) + i]
    BY DEF Same
  <2> DEFINE j == k + i
  <2>1. j \in 1..n /\ a + j = (a + k) + i /\ b + j = (b + k) + i
    OBVIOUS
  <2> HIDE DEF j
  <2>2. x[a + j] = y[b + j]
    BY <1>1, <2>1
  <2> QED
    BY <2>1, <2>2
<1> QED
  BY <1>2, <1>3

\* A chunk without lines begins at done.
LEMMA EmptyChunk ==
  ASSUME NEW S, NEW x \in Seq(S), NEW y \in Seq(S), NEW at \in AtOf(S),
         Consistent(x, y, at), at.ctext = <<>>
  PROVE  at.chunk.x = at.done.x /\ at.chunk.y = at.done.y
<1>1. Ordered(x, y, at.chunk, at.done) /\ Holds(x, y, <<>>, at.chunk, at.done)
  BY DEF Consistent
<1>2. \A marks : Side(<<>>, marks) = <<>>
  <2> TAKE marks
  <2>1. <<>> \in Seq(LineOf(S)) /\ Len(<<>>) = 0
    BY EmptySeq
  <2>2. PICK f : Side(<<>>, marks) = f[Len(<<>>)] /\ IsSide(f, <<>>, marks)
    BY <2>1, SideRecursion
  <2> QED
    BY <2>1, <2>2 DEF IsSide
<1> DEFINE ax == at.chunk.x
           ay == at.chunk.y
           dx == at.done.x
           dy == at.done.y
<1>3. /\ ax \in 0..Len(x) /\ dx \in ax..Len(x) /\ ay \in 0..Len(y) /\ dy \in ay..Len(y)
      /\ Part(x, ax, dx) = <<>> /\ Part(y, ay, dy) = <<>>
  BY <1>1, <1>2 DEF Ordered, Holds
<1> HIDE DEF ax, ay, dx, dy
<1>4. Len(Part(x, ax, dx)) = dx - ax /\ Len(Part(y, ay, dy)) = dy - ay
  BY <1>3, PartProperties
<1>5. dx - ax = 0 /\ dy - ay = 0
  BY <1>3, <1>4, EmptySeq
<1>6. ax = dx /\ ay = dy
  BY <1>3, <1>5, LenProperties
<1> QED
  BY <1>6 DEF ax, ay, dx, dy

LEMMA EndedPatches ==
  ASSUME NEW S, NEW x \in Seq(S), NEW y \in Seq(S), NEW at \in AtOf(S),
         Consistent(x, y, at), PatchedTo(x, y, at.out, at.chunk.x, at.chunk.y), NEW n \in Nat,
         at.done.x + n <= Len(x), at.done.y + n <= Len(y),
         Same(x, y, at.done.x, at.done.y, n)
  PROVE  /\ Ended(x, at, n) \in AtOf(S)
         /\ Ended(x, at, n).over = at.over
         /\ at.ctext = <<>> => PatchedTo(x, y, Ended(x, at, n).out, at.done.x, at.done.y)
         /\ at.ctext # <<>> => PatchedTo(x, y, Ended(x, at, n).out, at.done.x + n, at.done.y + n)
<1>1. CASE at.ctext = <<>>
  <2>1. Ended(x, at, n) = at
    BY <1>1 DEF Ended
  <2>2. at.chunk.x = at.done.x /\ at.chunk.y = at.done.y
    BY <1>1, EmptyChunk
  <2>3. PatchedTo(x, y, at.out, at.done.x, at.done.y)
    BY <2>2
  <2> QED
    BY <1>1, <2>1, <2>3
<1>2. CASE at.ctext # <<>>
  <2> DEFINE c == Common(x, at, n)
             chunk == Chunk(c)
             e == [c EXCEPT !.out = Append(c.out, chunk)]
  <2>1. /\ c \in AtOf(S) /\ Consistent(x, y, c) /\ c.done = Pair(at.done.x + n, at.done.y + n)
        /\ c.chunk = at.chunk /\ c.out = at.out /\ c.over = at.over
    BY CommonKeeps
  <2>2. Ended(x, at, n) = e
    BY <1>2 DEF Ended
  <2> HIDE DEF c
  <2>3. PatchedTo(x, y, c.out, c.chunk.x, c.chunk.y)
    BY <2>1
  <2>4. chunk \in ChunkOf(S) /\ PatchedTo(x, y, Append(c.out, chunk), c.done.x, c.done.y)
    BY <2>1, <2>3, ChunkPatches
  <2> HIDE DEF chunk
  <2>5. c.out \in Seq(ChunkOf(S))
    BY <2>1 DEF AtOf
  <2>6. Append(c.out, chunk) \in Seq(ChunkOf(S))
    BY <2>4, <2>5
  <2>7. e \in AtOf(S) /\ e.over = at.over /\ e.out = Append(c.out, chunk)
    BY <2>1, <2>6 DEF AtOf
  <2>8. c.done.x = at.done.x + n /\ c.done.y = at.done.y + n
    BY <2>1 DEF Pair
  <2> HIDE DEF e
  <2> QED
    BY <1>2, <2>2, <2>4, <2>7, <2>8
<1> QED
  BY <1>1, <1>2

-----------------------------------------------------------------------------
(***************************************************************************)
(* The loop over the matches.                                              *)
(***************************************************************************)
\* The patch is right up to the chunk begun, and altogether once all is over.
Written(x, y, at) ==
  /\ at.over => PatchedTo(x, y, at.out, Len(x), Len(y))
  /\ ~at.over => /\ Consistent(x, y, at)
                 /\ PatchedTo(x, y, at.out, at.chunk.x, at.chunk.y)

\* done is where the lines that are the same behind a match end.
Reached(x, y, done, m) ==
  \E e \in Nat : /\ done.x = m.x + e /\ done.y = m.y + e
                 /\ done.x <= Len(x) /\ done.y <= Len(y)
                 /\ Same(x, y, m.x, m.y, e)

\* A chunk begins with the context of the end of lines that are the same.
LEMMA NewChunkKeeps ==
  ASSUME NEW S, NEW x \in Seq(S), NEW y \in Seq(S), NEW at \in AtOf(S), NEW end \in PairOf,
         end.x \in Context..Len(x), end.y \in Context..Len(y),
         Same(x, y, end.x - Context, end.y - Context, Context)
  PROVE  /\ NewChunk(x, at, end) \in AtOf(S)
         /\ Consistent(x, y, NewChunk(x, at, end))
         /\ NewChunk(x, at, end).done = end
         /\ NewChunk(x, at, end).chunk = Pair(end.x - Context, end.y - Context)
         /\ NewChunk(x, at, end).out = at.out
         /\ NewChunk(x, at, end).over = at.over
<1> DEFINE d == NewChunk(x, at, end)
           ax == end.x - Context
           ay == end.y - Context
           chunk == Pair(ax, ay)
           count == Pair(Context, Context)
           lines == Marked("both", x, ax, end.x)
<1>1. /\ Context \in Nat /\ Len(x) \in Nat /\ Len(y) \in Nat /\ end.x \in Int /\ end.y \in Int
  BY DiffAssumption, LenProperties DEF PairOf
<1>2. /\ ax \in 0..Len(x) /\ end.x \in ax..Len(x) /\ end.x = ax + Context /\ ax \in Int
      /\ ay \in 0..Len(y) /\ end.y \in ay..Len(y) /\ end.y = ay + Context /\ ay \in Int
      /\ Context = end.x - ax /\ Context = end.y - ay
  <2> DEFINE ux == end.x
             uy == end.y
  <2>1. ux \in Context..Len(x) /\ uy \in Context..Len(y) /\ ux \in Int /\ uy \in Int
    BY <1>1
  <2> HIDE DEF ux, uy
  <2>2. /\ ux - Context \in 0..Len(x) /\ ux \in (ux - Context)..Len(x)
        /\ ux = (ux - Context) + Context /\ Context = ux - (ux - Context)
    BY <1>1, <2>1
  <2>3. /\ uy - Context \in 0..Len(y) /\ uy \in (uy - Context)..Len(y)
        /\ uy = (uy - Context) + Context /\ Context = uy - (uy - Context)
    BY <1>1, <2>1
  <2>4. ux - Context \in Int /\ uy - Context \in Int
    BY <1>1, <2>1
  <2> QED
    BY <2>2, <2>3, <2>4 DEF ux, uy
<1>3. d = [at EXCEPT !.chunk = chunk, !.ctext = lines, !.count = count, !.done = end]
  BY DEF NewChunk
<1>4. Same(x, y, ax, ay, Context)
  OBVIOUS
<1> HIDE DEF ax, ay
<1>5. Part(x, ax, end.x) = Part(y, ay, end.y)
  BY <1>1, <1>2, <1>4, SameParts
<1>6. /\ lines \in Seq(LineOf(S))
      /\ Side(lines, {"both", "old"}) = Part(x, ax, end.x)
      /\ Side(lines, {"both", "new"}) = Part(y, ay, end.y)
  BY <1>2, <1>5, MarkedSides
<1>7. /\ chunk \in PairOf /\ chunk.x = ax /\ chunk.y = ay
      /\ count \in PairOf /\ count.x = Context /\ count.y = Context
  BY <1>1, <1>2 DEF Pair, PairOf
<1> HIDE DEF chunk, count, lines, d
<1>8. /\ d \in AtOf(S) /\ d.done = end /\ d.chunk = chunk /\ d.out = at.out /\ d.over = at.over
      /\ d.ctext = lines /\ d.count = count
  BY <1>3, <1>6, <1>7 DEF AtOf
<1>9. Ordered(x, y, d.chunk, d.done)
  BY <1>2, <1>7, <1>8 DEF Ordered
<1>10. Counted(d.chunk, d.done, d.count)
  BY <1>2, <1>7, <1>8 DEF Counted
<1>11. Holds(x, y, d.ctext, d.chunk, d.done)
  BY <1>6, <1>7, <1>8 DEF Holds
<1> QED
  BY <1>8, <1>9, <1>10, <1>11 DEF Consistent, d, chunk, ax, ay

\* One turn of the loop keeps the patch right.
LEMMA TurnKeeps ==
  ASSUME NEW S, NEW x \in Seq(S), NEW y \in Seq(S), NEW at \in AtOf(S), ~at.over,
         Consistent(x, y, at), PatchedTo(x, y, at.out, at.chunk.x, at.chunk.y), NEW m \in PairOf,
         m.x \in at.done.x..Len(x), m.y \in at.done.y..Len(y)
  PROVE  /\ Turn(x, y, at, m) \in AtOf(S)
         /\ Written(x, y, Turn(x, y, at, m))
         /\ ~Turn(x, y, at, m).over => Reached(x, y, Turn(x, y, at, m).done, m)
         /\ m = Pair(Len(x), Len(y)) => Turn(x, y, at, m).over
<1> DEFINE t == Turn(x, y, at, m)
           dx == at.done.x
           dy == at.done.y
           mx == m.x
           my == m.y
           C == Context
<1>1. /\ C \in Nat /\ C > 0 /\ Len(x) \in Nat /\ Len(y) \in Nat
      /\ dx \in 0..Len(x) /\ dy \in 0..Len(y) /\ mx \in dx..Len(x) /\ my \in dy..Len(y)
      /\ mx \in 0..Len(x) /\ my \in 0..Len(y)
  <2>1. Ordered(x, y, at.chunk, at.done)
    BY DEF Consistent
  <2> QED
    BY <2>1, DiffAssumption, LenProperties DEF Ordered
<1>2. at.done \in PairOf
  BY DEF AtOf
<1>3. PICK b \in Nat : /\ b <= mx - dx /\ b <= my - dy
                       /\ Start(x, y, at.done, m) = Pair(mx - b, my - b)
                       /\ Same(x, y, mx - b, my - b, b)
  BY <1>1, <1>2, StartProperties
<1>4. PICK e \in Nat : /\ e <= Len(x) - mx /\ e <= Len(y) - my
                       /\ End(x, y, m) = Pair(mx + e, my + e)
                       /\ Same(x, y, mx, my, e)
  BY <1>1, EndProperties
<1> DEFINE sx == mx - b
           sy == my - b
           ex == mx + e
           ey == my + e
           n == b + e
           start == Pair(sx, sy)
           end == Pair(ex, ey)
           d == Differing(x, y, at, start)
<1>5. /\ sx \in dx..Len(x) /\ sy \in dy..Len(y) /\ sx \in Int /\ sy \in Int
      /\ n \in Nat /\ ex = sx + n /\ ey = sy + n /\ sx + n <= Len(x) /\ sy + n <= Len(y)
      /\ ex \in 0..Len(x) /\ ey \in 0..Len(y) /\ ex \in Int /\ ey \in Int /\ ex - sx = n
      /\ mx = sx + b /\ my = sy + b /\ ex = mx + e /\ ey = my + e
  <2> HIDE DEF dx, dy, mx, my, C
  <2>1. n \in Nat
    OBVIOUS
  <2>2. /\ sx \in dx..Len(x) /\ sx \in Int /\ ex = sx + n /\ sx + n <= Len(x)
        /\ ex \in 0..Len(x) /\ ex \in Int /\ ex - sx = n /\ mx = sx + b /\ ex = mx + e
    BY <1>1, <1>3, <1>4
  <2>3. /\ sy \in dy..Len(y) /\ sy \in Int /\ ey = sy + n /\ sy + n <= Len(y)
        /\ ey \in 0..Len(y) /\ ey \in Int /\ my = sy + b /\ ey = my + e
    BY <1>1, <1>3, <1>4
  <2> HIDE DEF sx, sy, ex, ey, n
  <2> QED
    BY <2>1, <2>2, <2>3
<1>6. Same(x, y, sx, sy, n)
  <2>1. Same(x, y, sx, sy, b) /\ Same(x, y, sx + b, sy + b, e)
    BY <1>1, <1>3, <1>4, <1>5
  <2> HIDE DEF sx, sy
  <2> QED
    BY <1>5, <2>1, SameFurther
<1>7. Start(x, y, at.done, m) = start /\ End(x, y, m) = end
  BY <1>3, <1>4
<1> HIDE DEF mx, my, sx, sy, ex, ey, n
<1>8. start \in PairOf /\ start.x = sx /\ start.y = sy /\ end \in PairOf /\ end.x = ex /\ end.y = ey
  BY <1>5 DEF Pair, PairOf
<1> HIDE DEF start, end
<1>9. /\ d \in AtOf(S) /\ Consistent(x, y, d) /\ d.done = start /\ d.chunk = at.chunk
      /\ d.out = at.out /\ d.over = at.over
  BY <1>5, <1>8, DifferingKeeps
<1>10. PatchedTo(x, y, d.out, d.chunk.x, d.chunk.y)
  BY <1>9
<1> DEFINE low == Min({n, C})
           ended == Ended(x, d, low)
           eof == ex = Len(x) /\ ey = Len(y)
<1>11. t = IF eof THEN [ended EXCEPT !.over = TRUE]
           ELSE IF GoesOn(n, d.ctext) THEN Common(x, d, n)
           ELSE NewChunk(x, ended, end)
  <2>1. ~(m.x < at.done.x)
    BY <1>1 DEF mx
  <2>2. end.x - start.x = n /\ end.x = ex /\ end.y = ey
    BY <1>5, <1>8
  <2> QED
    BY <1>7, <2>1, <2>2 DEF Turn
<1>12. low = (IF n <= C THEN n ELSE C) /\ low \in 0..n /\ low \in Nat
  <2>1. low = IF n <= C THEN n ELSE C
    BY <1>1, <1>5, MinOfTwo
  <2> HIDE DEF low
  <2> QED
    BY <1>1, <1>5, <2>1
<1> HIDE DEF d, low
<1>13. d.done.x = sx /\ d.done.y = sy
  BY <1>8, <1>9
<1>14. Same(x, y, sx, sy, low) /\ Same(x, y, sx + low, sy + low, n - low)
  BY <1>5, <1>6, <1>12, SameSplit
<1>15. /\ ended \in AtOf(S) /\ ended.over = at.over
       /\ d.ctext = <<>> => PatchedTo(x, y, ended.out, sx, sy)
       /\ d.ctext # <<>> => PatchedTo(x, y, ended.out, sx + low, sy + low)
  <2>1. sx + low <= Len(x) /\ sy + low <= Len(y)
    <3>1. /\ sx \in Int /\ sy \in Int /\ Len(x) \in Nat /\ Len(y) \in Nat
          /\ n \in Nat /\ low \in Nat /\ low <= n
          /\ sx + n <= Len(x) /\ sy + n <= Len(y)
      BY <1>1, <1>5, <1>12
    <3> QED
      BY <3>1
  <2> QED
    BY <1>9, <1>10, <1>12, <1>13, <1>14, <2>1, EndedPatches
<1> HIDE DEF ended, t
<1>16. ended.out \in Seq(ChunkOf(S))
  BY <1>15 DEF AtOf
<1>17. Reached(x, y, end, m)
  BY <1>4, <1>5, <1>8 DEF Reached, mx, my
<1>18. CASE eof
  <2>1. t = [ended EXCEPT !.over = TRUE]
    BY <1>11, <1>18
  <2>2. t \in AtOf(S) /\ t.over /\ t.out = ended.out
    BY <1>15, <2>1 DEF AtOf
  <2>3. PatchedTo(x, y, ended.out, ex, ey)
    <3>1. CASE d.ctext = <<>>
      <4>1. sx \in 0..Len(x) /\ sy \in 0..Len(y)
        BY <1>1, <1>5
      <4>2. PatchedTo(x, y, ended.out, sx + n, sy + n)
        BY <1>5, <1>6, <1>15, <1>16, <3>1, <4>1, PatchedFurther
      <4> QED
        BY <1>5, <4>2
    <3>2. CASE d.ctext # <<>>
      <4> DEFINE px == sx + low
                 py == sy + low
                 k == n - low
      <4>1. /\ px \in 0..Len(x) /\ py \in 0..Len(y) /\ k \in Nat /\ px + k = ex /\ py + k = ey
            /\ px + k <= Len(x) /\ py + k <= Len(y)
        BY <1>1, <1>5, <1>12
      <4>2. PatchedTo(x, y, ended.out, px, py) /\ Same(x, y, px, py, k)
        BY <1>14, <1>15, <3>2
      <4> HIDE DEF px, py, k
      <4>3. PatchedTo(x, y, ended.out, px + k, py + k)
        BY <1>16, <4>1, <4>2, PatchedFurther
      <4> QED
        BY <4>1, <4>3
    <3> QED
      BY <3>1, <3>2
  <2>4. PatchedTo(x, y, t.out, Len(x), Len(y))
    BY <1>18, <2>2, <2>3
  <2> QED
    BY <2>2, <2>4 DEF Written, t
<1>19. CASE ~eof /\ GoesOn(n, d.ctext)
  <2>1. t = Common(x, d, n)
    BY <1>11, <1>19
  <2>2. /\ Common(x, d, n) \in AtOf(S) /\ Consistent(x, y, Common(x, d, n))
        /\ Common(x, d, n).done = Pair(d.done.x + n, d.done.y + n)
        /\ Common(x, d, n).chunk = d.chunk /\ Common(x, d, n).out = d.out
        /\ Common(x, d, n).over = d.over
    <3>1. d.done.x + n <= Len(x) /\ d.done.y + n <= Len(y) /\ n \in Nat
      BY <1>5, <1>13
    <3>2. Same(x, y, d.done.x, d.done.y, n)
      BY <1>6, <1>13
    <3> QED
      BY <1>9, <3>1, <3>2, CommonKeeps
  <2>3. Pair(d.done.x + n, d.done.y + n) = end
    BY <1>5, <1>13 DEF end
  <2>4. /\ t \in AtOf(S) /\ Consistent(x, y, t) /\ t.done = end /\ t.chunk = d.chunk
        /\ t.out = d.out /\ t.over = at.over
    BY <1>9, <2>1, <2>2, <2>3
  <2>5. PatchedTo(x, y, t.out, t.chunk.x, t.chunk.y)
    BY <1>10, <2>4
  <2>6. m # Pair(Len(x), Len(y))
    <3> SUFFICES ASSUME m = Pair(Len(x), Len(y)) PROVE FALSE
      OBVIOUS
    <3>1. mx = Len(x) /\ my = Len(y)
      BY DEF Pair, mx, my
    <3>2. ex = Len(x) /\ ey = Len(y)
      BY <1>1, <1>5, <3>1
    <3> QED
      BY <1>19, <3>2
  <2>7. ~t.over
    BY <2>4
  <2> QED
    BY <1>17, <2>4, <2>5, <2>6, <2>7 DEF Written, t
<1>20. CASE ~eof /\ ~GoesOn(n, d.ctext)
  <2>1. t = NewChunk(x, ended, end)
    BY <1>11, <1>20
  <2>2. n >= C /\ (d.ctext # <<>> => n >= 2 * C)
    BY <1>1, <1>5, <1>20 DEF GoesOn
  <2>3. low = C
    BY <1>1, <1>5, <1>12, <2>2
  <2> DEFINE ax == ex - C
             ay == ey - C
             k == n - C
  <2>4. /\ k \in 0..n /\ sx + k = ax /\ sy + k = ay /\ n - k = C /\ k \in Nat
        /\ ax + C = ex /\ ay + C = ey /\ ex \in C..Len(x) /\ ey \in C..Len(y)
        /\ sx + k <= Len(x) /\ sy + k <= Len(y)
    BY <1>1, <1>5, <2>2
  <2>5. Same(x, y, sx, sy, k) /\ Same(x, y, sx + k, sy + k, n - k)
    BY <1>5, <1>6, <2>4, SameSplit
  <2>6. Same(x, y, ax, ay, C)
    BY <2>4, <2>5
  <2>7. PatchedTo(x, y, ended.out, ax, ay)
    <3>1. CASE d.ctext = <<>>
      <4>1. sx \in 0..Len(x) /\ sy \in 0..Len(y)
        BY <1>1, <1>5
      <4> HIDE DEF k
      <4>2. PatchedTo(x, y, ended.out, sx + k, sy + k)
        BY <1>15, <1>16, <2>4, <2>5, <3>1, <4>1, PatchedFurther
      <4> QED
        BY <2>4, <4>2
    <3>2. CASE d.ctext # <<>>
      <4> DEFINE px == sx + C
                 py == sy + C
                 j == k - C
      <4>0. C \in 0..k /\ j \in Nat
        BY <1>1, <1>5, <2>2, <2>4, <3>2
      <4>7. px + j = ax /\ py + j = ay
        BY <1>1, <1>5, <2>4
      <4>8. px \in 0..Len(x) /\ py \in 0..Len(y)
        BY <1>1, <1>5, <2>4, <4>0
      <4>9. px + j <= Len(x) /\ py + j <= Len(y)
        BY <1>1, <1>5, <2>4, <4>7
      <4>1. /\ px \in 0..Len(x) /\ py \in 0..Len(y) /\ j \in Nat /\ px + j = ax /\ py + j = ay
            /\ px + j <= Len(x) /\ py + j <= Len(y) /\ C \in 0..k
        BY <4>0, <4>7, <4>8, <4>9
      <4>2. PatchedTo(x, y, ended.out, px, py)
        BY <1>15, <2>3, <3>2
      <4> HIDE DEF k
      <4>3. Same(x, y, sx + C, sy + C, k - C)
        BY <1>5, <2>4, <2>5, <4>1, SameSplit
      <4>4. Same(x, y, px, py, j)
        BY <4>3
      <4> HIDE DEF px, py, j
      <4>5. PatchedTo(x, y, ended.out, px + j, py + j)
        BY <1>16, <4>1, <4>2, <4>4, PatchedFurther
      <4> QED
        BY <4>1, <4>5
    <3> QED
      BY <3>1, <3>2
  <2>8. /\ NewChunk(x, ended, end) \in AtOf(S) /\ Consistent(x, y, NewChunk(x, ended, end))
        /\ NewChunk(x, ended, end).done = end
        /\ NewChunk(x, ended, end).chunk = Pair(end.x - C, end.y - C)
        /\ NewChunk(x, ended, end).out = ended.out
        /\ NewChunk(x, ended, end).over = ended.over
    BY <1>8, <1>15, <2>4, <2>6, NewChunkKeeps
  <2>9. Pair(end.x - C, end.y - C).x = ax /\ Pair(end.x - C, end.y - C).y = ay
    BY <1>8 DEF Pair
  <2>10. /\ t \in AtOf(S) /\ Consistent(x, y, t) /\ t.done = end /\ ~t.over
         /\ PatchedTo(x, y, t.out, t.chunk.x, t.chunk.y)
    BY <1>15, <2>1, <2>7, <2>8, <2>9
  <2>11. m # Pair(Len(x), Len(y))
    <3> SUFFICES ASSUME m = Pair(Len(x), Len(y)) PROVE FALSE
      OBVIOUS
    <3>1. mx = Len(x) /\ my = Len(y)
      BY DEF Pair, mx, my
    <3>2. ex = Len(x) /\ ey = Len(y)
      BY <1>1, <1>5, <3>1
    <3> QED
      BY <1>20, <3>2
  <2> QED
    BY <1>17, <2>10, <2>11 DEF Written, t
<1> QED
  BY <1>18, <1>19, <1>20

-----------------------------------------------------------------------------
(***************************************************************************)
(* The matches.                                                            *)
(***************************************************************************)
\* Anchors are lines of both texts, each with a partner of its own.
LEMMA AnchorProperties ==
  ASSUME NEW S, NEW x \in Seq(S), NEW y \in Seq(S), NEW i \in Anchors(x, y)
  PROVE  /\ i \in 1..Len(x) /\ Partner(x, y, i) \in 1..Len(y)
         /\ y[Partner(x, y, i)] = x[i]
         /\ \A j \in 1..Len(x) : x[j] = x[i] => j = i
<1>1. DOMAIN x = 1..Len(x) /\ DOMAIN y = 1..Len(y)
  BY LenProperties
<1>2. i \in Once(x) /\ \E j \in Once(y) : y[j] = x[i]
  BY DEF Anchors
<1>3. Partner(x, y, i) \in Once(y) /\ y[Partner(x, y, i)] = x[i]
  BY <1>2 DEF Partner
<1> QED
  BY <1>1, <1>2, <1>3 DEF Once

LEMMA PartnersDiffer ==
  ASSUME NEW S, NEW x \in Seq(S), NEW y \in Seq(S),
         NEW i \in Anchors(x, y), NEW j \in Anchors(x, y), Partner(x, y, i) = Partner(x, y, j)
  PROVE  i = j
<1>1. x[i] = x[j]
  BY AnchorProperties
<1> QED
  BY <1>1, AnchorProperties

\* The greatest value of a function on a set, or 0.
Greatest(h, B) == Max({0} \cup {h[j] : j \in B})

LEMMA GreatestProperties ==
  ASSUME NEW N \in Nat, NEW B \in SUBSET (0..N), NEW h, \A j \in B : h[j] \in Nat
  PROVE  /\ Greatest(h, B) \in Nat
         /\ \A j \in B : h[j] <= Greatest(h, B)
         /\ \/ Greatest(h, B) = 0
            \/ \E j \in B : h[j] = Greatest(h, B)
<1> DEFINE T == {n \in 0..N : \E b \in Nat : \A j \in B : j <= n => h[j] <= b}
           R == {0} \cup {h[j] : j \in B}
<1>1. 0 \in T
  <2>1. CASE 0 \in B
    <3>1. h[0] \in Nat /\ \A j \in B : j <= 0 => j = 0
      BY <2>1
    <3>2. \A j \in B : j <= 0 => h[j] <= h[0]
      BY <3>1
    <3> QED
      BY <3>1, <3>2
  <2>2. CASE 0 \notin B
    <3>1. \A j \in B : ~(j <= 0)
      BY <2>2
    <3> QED
      BY <3>1
  <2> QED
    BY <2>1, <2>2
<1>2. ASSUME NEW n \in 1..N, n - 1 \in T PROVE n \in T
  <2>1. PICK b \in Nat : \A j \in B : j <= n - 1 => h[j] <= b
    BY <1>2
  <2>2. CASE n \in B
    <3>1. h[n] \in Nat
      BY <2>2
    <3>2. PICK c \in Nat : b <= c /\ h[n] <= c
      <4>1. b <= b + h[n] /\ h[n] <= b + h[n] /\ b + h[n] \in Nat
        BY <3>1
      <4> QED
        BY <4>1
    <3>3. ASSUME NEW j \in B, j <= n PROVE h[j] <= c
      <4>1. h[j] \in Nat /\ (j = n \/ j <= n - 1)
        BY <3>3
      <4>2. CASE j = n
        BY <3>2, <4>2
      <4>3. CASE j <= n - 1
        BY <2>1, <3>2, <4>1, <4>3
      <4> QED
        BY <4>1, <4>2, <4>3
    <3> QED
      BY <3>3
  <2>3. CASE n \notin B
    <3>1. \A j \in B : j <= n => j <= n - 1
      BY <2>3
    <3>2. \A j \in B : j <= n => h[j] <= b
      BY <2>1, <3>1
    <3> QED
      BY <3>2
  <2> QED
    BY <2>2, <2>3
<1>3. 0..N \subseteq T
  <2> HIDE DEF T
  <2> QED
    BY <1>1, <1>2, BoundedInduction
<1>4. PICK b \in Nat : \A j \in B : h[j] <= b
  <2>1. N \in 0..N /\ \A j \in B : j <= N
    OBVIOUS
  <2>2. N \in T
    <3> HIDE DEF T
    <3> QED
      BY <1>3, <2>1
  <2> QED
    BY <2>1, <2>2
<1>5. R \in SUBSET (0..b) /\ R # {}
  <2>1. \A j \in B : h[j] \in 0..b
    BY <1>4
  <2> QED
    BY <2>1
<1>6. Max(R) \in R /\ \A n \in R : n <= Max(R)
  <2> HIDE DEF R
  <2> QED
    BY <1>5, LeastAndGreatest
<1>7. \A j \in B : h[j] \in R
  OBVIOUS
<1>8. Max(R) \in Nat
  BY <1>5, <1>6
<1>9. Max(R) = 0 \/ \E j \in B : h[j] = Max(R)
  BY <1>6
<1>10. \A j \in B : h[j] <= Max(R)
  <2> HIDE DEF R
  <2> QED
    BY <1>6, <1>7
<1>11. Greatest(h, B) = Max(R)
  BY DEF Greatest
<1> HIDE DEF R
<1> QED
  BY <1>8, <1>9, <1>10, <1>11

Before(x, y, i) == {j \in Anchors(x, y) : j < i /\ Partner(x, y, j) < Partner(x, y, i)}

\* The longest runs are computed of those of the anchors before.
LEMMA LongestEquation ==
  ASSUME NEW S, NEW x \in Seq(S), NEW y \in Seq(S)
  PROVE  /\ LongestTo(x, y) \in [Anchors(x, y) -> Nat]
         /\ \A i \in Anchors(x, y) :
              LongestTo(x, y)[i] = 1 + Greatest(LongestTo(x, y), Before(x, y, i))
<1> DEFINE A == Anchors(x, y)
           N == Len(x)
           D == [A -> Nat]
           Value(h, i) == 1 + Greatest(h, Before(x, y, i))
           Body(h) == [i \in A |-> Value(h, i)]
           Eq(h) == h = Body(h)
           g == [p \in (1..N + 1) \X D |-> Body(p[2])]
           first == [i \in A |-> 0]
<1>1. N \in Nat /\ A \in SUBSET (0..N) /\ N + 1 \in Nat
  <2>1. \A i \in A : i \in 1..N
    BY AnchorProperties
  <2> HIDE DEF A
  <2> QED
    BY <2>1, LenProperties
<1>2. \A i \in A : Before(x, y, i) \in SUBSET A /\ \A j \in Before(x, y, i) : j < i
  BY DEF Before
<1>3. ASSUME NEW h \in D PROVE Body(h) \in D
  <2> HIDE DEF A, N
  <2>1. \A i \in A : Value(h, i) \in Nat
    <3> TAKE i \in A
    <3>1. /\ \A j \in Before(x, y, i) : h[j] \in Nat
          /\ Before(x, y, i) \in SUBSET (0..N)
      BY <1>1, <1>2
    <3>2. Greatest(h, Before(x, y, i)) \in Nat
      BY <1>1, <3>1, GreatestProperties
    <3> QED
      BY <3>2
  <2> HIDE DEF Value
  <2> QED
    BY <2>1
<1>4. first \in D
  OBVIOUS
<1>5. g \in [(1..N + 1) \X D -> D] /\ \A n \in 1..N + 1, h \in D : g[<<n, h>>] = Body(h)
  <2> HIDE DEF Body, D, N
  <2> QED
    BY <1>3
<1>6. PICK G : IsRecursion(G, D, N + 1, first, g)
  <2> HIDE DEF g, D, N, first
  <2> QED
    BY <1>1, <1>4, <1>5, Recursion
<1>7. /\ \A n \in 0..N + 1 : G[n] \in D
      /\ \A n \in 1..N + 1 : G[n] = Body(G[n - 1])
  <2> HIDE DEF g, Body, D, N, first
  <2>a. G \in [0..N + 1 -> D] /\ \A n \in 1..N + 1 : G[n] = g[<<n, G[n - 1]>>]
    BY <1>6, Zenon DEF IsRecursion
  <2>b. \A n \in 1..N + 1 : n - 1 \in 0..N + 1
    BY <1>1
  <2>1. /\ G \in [0..N + 1 -> D]
        /\ \A n \in 1..N + 1 : G[n] = g[<<n, G[n - 1]>>] /\ n - 1 \in 0..N + 1
    BY <2>a, <2>b, Zenon
  <2>2. \A n \in 0..N + 1 : G[n] \in D
    BY <2>1
  <2> QED
    BY <1>5, <2>1, <2>2
<1> DEFINE T == {n \in 0..N : \A i \in A : i <= n => G[n + 1][i] = G[n][i]}
<1>8. 0 \in T
  <2>1. \A i \in A : ~(i <= 0)
    BY AnchorProperties
  <2> HIDE DEF A, N
  <2> QED
    BY <1>1, <2>1
<1>9. ASSUME NEW n \in 1..N, n - 1 \in T PROVE n \in T
  <2>1. n \in 1..N + 1 /\ n + 1 \in 1..N + 1 /\ (n + 1) - 1 = n /\ (n - 1) + 1 = n /\ n \in 0..N
    BY <1>1
  <2>2. G[n] = Body(G[n - 1]) /\ G[n + 1] = Body(G[n])
    <3> HIDE DEF D, N, Body
    <3> QED
      BY <1>7, <2>1
  <2>3. \A i \in A : i <= n - 1 => G[n][i] = G[n - 1][i]
    <3> HIDE DEF A, N
    <3> QED
      BY <1>9, <2>1
  <2>4. ASSUME NEW i \in A, i <= n PROVE G[n + 1][i] = G[n][i]
    <3>1. \A j \in Before(x, y, i) : G[n][j] = G[n - 1][j]
      <4> TAKE j \in Before(x, y, i)
      <4>1. j \in A /\ j < i
        BY <1>2
      <4>2. j \in 0..N /\ i \in 0..N
        <5> HIDE DEF A, N
        <5> QED
          BY <1>1, <4>1
      <4>3. j <= n - 1
        <5> HIDE DEF A, N
        <5> QED
          BY <2>4, <4>1, <4>2
      <4> HIDE DEF A, N
      <4> QED
        BY <2>3, <4>1, <4>3
    <3>2. {G[n][j] : j \in Before(x, y, i)} = {G[n - 1][j] : j \in Before(x, y, i)}
      BY <3>1
    <3>3. Value(G[n], i) = Value(G[n - 1], i)
      BY <3>2 DEF Greatest
    <3>4. G[n + 1][i] = Value(G[n], i) /\ G[n][i] = Value(G[n - 1], i)
      <4> HIDE DEF A, N, Value
      <4> QED
        BY <2>2, <2>4
    <3> HIDE DEF Value
    <3> QED
      BY <3>3, <3>4
  <2> HIDE DEF A, N
  <2> QED
    BY <2>1, <2>4
<1>10. N \in T
  <2>1. 0..N \subseteq T
    <3> HIDE DEF T, N
    <3> QED
      BY <1>1, <1>8, <1>9, BoundedInduction
  <2> HIDE DEF T, N
  <2> QED
    BY <1>1, <2>1
<1>11. Eq(G[N])
  <2> HIDE DEF A, N, Value
  <2>1. \A i \in A : G[N + 1][i] = G[N][i]
    <3>1. \A i \in A : i <= N
      BY <1>1
    <3> QED
      BY <1>10, <3>1
  <2>2. G[N + 1] \in D /\ G[N] \in D /\ G[N + 1] = Body(G[N])
    <3>1. N + 1 \in 1..N + 1 /\ (N + 1) - 1 = N /\ N \in 0..N + 1 /\ N + 1 \in 0..N + 1
      BY <1>1
    <3> HIDE DEF D, Body
    <3> QED
      BY <1>7, <3>1
  <2>3. G[N + 1] = G[N]
    BY <2>1, <2>2
  <2> HIDE DEF Body
  <2> QED
    BY <2>2, <2>3
<1>12. Eq(CHOOSE h : Eq(h))
  <2> HIDE DEF Eq
  <2> QED
    BY <1>11
<1>13. LongestTo(x, y) = CHOOSE h : Eq(h)
  BY DEF LongestTo, Before, Greatest
<1> DEFINE L == LongestTo(x, y)
<1>14. L = Body(L)
  BY <1>12, <1>13
<1> HIDE DEF L
<1>15. \A i \in A : L[i] = Value(L, i)
  <2> HIDE DEF A, N, Value
  <2> QED
    BY <1>14
<1> DEFINE U == {n \in 0..N : \A i \in A : i <= n => L[i] \in Nat}
<1>16. 0 \in U
  <2>1. \A i \in A : ~(i <= 0)
    BY AnchorProperties
  <2> HIDE DEF A, N
  <2> QED
    BY <1>1, <2>1
<1>17. ASSUME NEW n \in 1..N, n - 1 \in U PROVE n \in U
  <2> HIDE DEF A, N
  <2>1. n \in 0..N
    BY <1>1
  <2>2. ASSUME NEW i \in A, i <= n PROVE L[i] \in Nat
    <3>1. i \in 0..N
      BY <1>1
    <3>2. ASSUME NEW j \in Before(x, y, i) PROVE L[j] \in Nat /\ j \in 0..N
      <4>1. j \in A /\ j < i
        BY <1>2
      <4>2. j \in 0..N
        BY <1>1, <4>1
      <4>3. j <= n - 1
        BY <2>2, <3>1, <4>1, <4>2
      <4> QED
        BY <1>17, <4>1, <4>2, <4>3
    <3>3. Greatest(L, Before(x, y, i)) \in Nat
      <4>1. Before(x, y, i) \in SUBSET (0..N)
        BY <3>2
      <4> QED
        BY <1>1, <3>2, <4>1, GreatestProperties
    <3> QED
      BY <1>15, <3>3
  <2> QED
    BY <2>1, <2>2
<1>18. \A i \in A : L[i] \in Nat
  <2>1. 0..N \subseteq U
    <3> HIDE DEF U, N
    <3> QED
      BY <1>1, <1>16, <1>17, BoundedInduction
  <2>2. \A i \in A : i <= N
    <3> HIDE DEF A, N
    <3> QED
      BY <1>1
  <2> HIDE DEF A, N
  <2>3. N \in U
    <3> HIDE DEF U
    <3> QED
      BY <1>1, <2>1
  <2> QED
    BY <2>2, <2>3
<1>19. L \in [A -> Nat]
  <2> HIDE DEF A, Value
  <2> QED
    BY <1>14, <1>18
<1>20. \A i \in A : L[i] = 1 + Greatest(L, Before(x, y, i))
  BY <1>15
<1> QED
  BY <1>19, <1>20 DEF L

\* A run that ends with an anchor is longer than those that end before it,
\* and by one longer than one of them.
LEMMA LongestProperties ==
  ASSUME NEW S, NEW x \in Seq(S), NEW y \in Seq(S), NEW i \in Anchors(x, y)
  PROVE  /\ LongestTo(x, y)[i] \in Nat /\ LongestTo(x, y)[i] >= 1
         /\ \A j \in Before(x, y, i) : LongestTo(x, y)[j] < LongestTo(x, y)[i]
         /\ \/ LongestTo(x, y)[i] = 1
            \/ \E j \in Before(x, y, i) : LongestTo(x, y)[j] = LongestTo(x, y)[i] - 1
<1> DEFINE L == LongestTo(x, y)
           B == Before(x, y, i)
           top == Greatest(L, B)
           N == Len(x)
<1>1. L \in [Anchors(x, y) -> Nat] /\ L[i] = 1 + top
  BY LongestEquation
<1>2. B \in SUBSET (0..N) /\ N \in Nat /\ B \in SUBSET Anchors(x, y)
  <2>1. \A j \in Anchors(x, y) : j \in 1..N
    BY AnchorProperties
  <2>2. N \in Nat
    BY LenProperties
  <2> HIDE DEF N
  <2> QED
    BY <2>1, <2>2 DEF Before
<1> HIDE DEF L, B, N
<1>3. \A j \in B : L[j] \in Nat
  BY <1>1, <1>2
<1>4. top \in Nat /\ (\A j \in B : L[j] <= top) /\ (top = 0 \/ \E j \in B : L[j] = top)
  BY <1>2, <1>3, GreatestProperties
<1> HIDE DEF top
<1>5. L[i] \in Nat /\ L[i] >= 1
  BY <1>1, <1>4
<1>6. \A j \in B : L[j] < L[i]
  BY <1>1, <1>3, <1>4
<1>7. L[i] = 1 \/ \E j \in B : L[j] = L[i] - 1
  BY <1>1, <1>4
<1> QED
  BY <1>5, <1>6, <1>7 DEF L, B

-----------------------------------------------------------------------------
(***************************************************************************)
(* The run picked: its lines come in order in both texts.                  *)
(***************************************************************************)
Longest(x, y) == Greatest(LongestTo(x, y), Anchors(x, y))
Picks(x, y, i, s) == i \in Anchors(x, y) /\ LongestTo(x, y)[i] = Longest(x, y) - Len(s)

IsRun(f, x, y) ==
  /\ f[0] = <<>>
  /\ \A n \in 1..Len(x) :
       /\ Picks(x, y, Len(x) - n + 1, f[n - 1]) => f[n] = <<Len(x) - n + 1>> \o f[n - 1]
       /\ ~Picks(x, y, Len(x) - n + 1, f[n - 1]) => f[n] = f[n - 1]

MatchesOf(x, y, picked) ==
  <<Pair(0, 0)>> \o [k \in DOMAIN picked |-> Pair(picked[k] - 1, Partner(x, y, picked[k]) - 1)]
  \o <<Pair(Len(x), Len(y))>>

\* The run is picked line by line.
LEMMA RunRecursion ==
  ASSUME NEW S, NEW x \in Seq(S), NEW y \in Seq(S)
  PROVE  \E f : Tgs(x, y) = MatchesOf(x, y, f[Len(x)]) /\ IsRun(f, x, y)
<1> DEFINE N == Len(x)
           L == Seq(Anchors(x, y))
           Body(n, s) == IF Picks(x, y, N - n + 1, s) THEN <<N - n + 1>> \o s ELSE s
           longest == Max({0} \cup {LongestTo(x, y)[i] : i \in Anchors(x, y)})
           f[n \in 0 .. Len(x)] ==
             LET i == Len(x) - n + 1
             IN  IF n = 0 THEN <<>>
                 ELSE IF i \in Anchors(x, y) /\ LongestTo(x, y)[i] = longest - Len(f[n - 1])
                 THEN <<i>> \o f[n - 1]
                 ELSE f[n - 1]
           Step(h) == [n \in 0..N |-> IF n = 0 THEN <<>> ELSE Body(n, h[n - 1])]
           Eq(h) == h = Step(h)
           g == [p \in (1..N) \X L |-> Body(p[1], p[2])]
<1>1. N \in Nat /\ <<>> \in L
  BY LenProperties
<1>2. ASSUME NEW n \in 1..N, NEW s \in L PROVE Body(n, s) \in L
  <2> DEFINE i == N - n + 1
  <2>1. CASE Picks(x, y, i, s)
    <3>1. i \in Anchors(x, y)
      BY <2>1 DEF Picks
    <3>2. <<i>> \in Seq(Anchors(x, y))
      BY <3>1
    <3> HIDE DEF i
    <3>3. <<i>> \o s \in Seq(Anchors(x, y))
      BY <3>2, ConcatProperties
    <3> QED
      BY <2>1, <3>3 DEF i
  <2>2. CASE ~Picks(x, y, i, s)
    BY <2>2
  <2> QED
    BY <2>1, <2>2
<1>3. g \in [(1..N) \X L -> L] /\ \A n \in 1..N, s \in L : g[<<n, s>>] = Body(n, s)
  <2> HIDE DEF Body, L, N
  <2> QED
    BY <1>2
<1>4. PICK F : IsRecursion(F, L, N, <<>>, g)
  <2> HIDE DEF g, L, N
  <2> QED
    BY <1>1, <1>3, Recursion
<1>5. Eq(F)
  <2> HIDE DEF g, Body, L, N
  <2>1. /\ F \in [0..N -> L] /\ F[0] = <<>>
        /\ \A n \in 1..N : F[n] = g[<<n, F[n - 1]>>] /\ n - 1 \in 0..N /\ n # 0
    BY <1>1, <1>4 DEF IsRecursion
  <2>2. \A n \in 1..N : F[n] = Body(n, F[n - 1]) /\ n # 0
    BY <1>3, <2>1
  <2>3. \A n \in 0..N : n = 0 \/ n \in 1..N
    BY <1>1
  <2> QED
    BY <2>1, <2>2, <2>3
<1>6. Eq(CHOOSE h : Eq(h))
  <2> HIDE DEF Eq
  <2> QED
    BY <1>5
<1>7. Eq(f)
  BY <1>6 DEF Picks, Longest, Greatest
<1>8. Tgs(x, y) = MatchesOf(x, y, f[N])
  BY DEF Tgs, MatchesOf
<1> DEFINE e == f
<1>9. Eq(e) /\ Tgs(x, y) = MatchesOf(x, y, e[N])
  BY <1>7, <1>8
<1> HIDE DEF e
<1>10. /\ e[0] = <<>>
       /\ \A n \in 1..N : e[n] = Body(n, e[n - 1])
  <2> HIDE DEF Body, N
  <2>1. \A n \in 1..N : n \in 0..N /\ n # 0
    OBVIOUS
  <2>2. 0 \in 0..N
    BY <1>1
  <2> QED
    BY <1>9, <2>1, <2>2
<1>11. IsRun(e, x, y)
  BY <1>10 DEF IsRun
<1> HIDE DEF Step, Body, Eq
<1> QED
  BY <1>9, <1>11

\* What is picked of the lines behind low.
InOrder(x, y, r) ==
  \A k \in 1..Len(r) : \A l \in 1..Len(r) :
    k < l => r[k] < r[l] /\ Partner(x, y, r[k]) < Partner(x, y, r[l])
PickedTo(x, y, r, low) ==
  /\ r \in Seq(Anchors(x, y))
  /\ \A k \in 1..Len(r) : r[k] > low
  /\ InOrder(x, y, r)
  /\ Len(r) > 0 =>
       /\ LongestTo(x, y)[r[1]] = Longest(x, y) - Len(r) + 1
       /\ \A j \in Anchors(x, y) : j > low /\ j < r[1] => LongestTo(x, y)[j] # Longest(x, y) - Len(r)

\* Of two anchors of which the run to one is by one longer than that to the
\* other, with none that is as long between them, the partners are in order.
LEMMA PartnersInOrder ==
  ASSUME NEW S, NEW x \in Seq(S), NEW y \in Seq(S),
         NEW i \in Anchors(x, y), NEW k \in Anchors(x, y), i < k,
         LongestTo(x, y)[i] = LongestTo(x, y)[k] - 1,
         \A j \in Anchors(x, y) : j > i /\ j < k => LongestTo(x, y)[j] # LongestTo(x, y)[i]
  PROVE  Partner(x, y, i) < Partner(x, y, k)
<1> DEFINE L == LongestTo(x, y)
           P(j) == Partner(x, y, j)
<1>1. /\ L[i] \in Nat /\ L[i] >= 1 /\ L[k] \in Nat
      /\ \A j \in Before(x, y, i) : L[j] < L[i]
      /\ L[k] = 1 \/ \E j \in Before(x, y, k) : L[j] = L[k] - 1
  BY LongestProperties
<1>2. PICK j \in Before(x, y, k) : L[j] = L[k] - 1
  BY <1>1
<1>3. j \in Anchors(x, y) /\ j < k /\ P(j) < P(k)
  BY <1>2 DEF Before
<1>4. i \in Nat /\ j \in Nat /\ k \in Nat /\ P(i) \in Nat /\ P(j) \in Nat /\ P(k) \in Nat
  <2>1. \A h \in Anchors(x, y) : h \in 1..Len(x) /\ P(h) \in 1..Len(y)
    BY AnchorProperties
  <2> HIDE DEF P
  <2> QED
    BY <1>3, <2>1, LenProperties
<1>5. P(i) # P(k)
  BY PartnersDiffer
<1>6. ~(j > i)
  BY <1>2, <1>3
<1>7. CASE j = i
  BY <1>3, <1>7
<1>8. CASE j < i
  <2> SUFFICES ASSUME ~(P(i) < P(k)) PROVE FALSE
    OBVIOUS
  <2> HIDE DEF P, L
  <2>1. P(j) < P(i)
    BY <1>3, <1>4, <1>5
  <2>2. j \in Before(x, y, i)
    BY <1>3, <1>8, <2>1 DEF Before, P
  <2>3. L[j] = L[i]
    BY <1>2 DEF L
  <2> QED
    BY <1>1, <2>2, <2>3
<1> HIDE DEF P, L
<1> QED
  BY <1>4, <1>6, <1>7, <1>8 DEF P

LEMMA OnePicked ==
  ASSUME NEW S, NEW x \in Seq(S), NEW y \in Seq(S), NEW i \in Nat, NEW r, PickedTo(x, y, r, i),
         Picks(x, y, i, r)
  PROVE  PickedTo(x, y, <<i>> \o r, i - 1)
<1> DEFINE A == Anchors(x, y)
           L == LongestTo(x, y)
           top == Longest(x, y)
           K == Len(r)
           q == <<i>> \o r
<1>1. /\ r \in Seq(A) /\ (\A k \in 1..K : r[k] > i) /\ InOrder(x, y, r)
      /\ K > 0 => /\ L[r[1]] = top - K + 1
                  /\ \A j \in A : j > i /\ j < r[1] => L[j] # top - K
  BY DEF PickedTo
<1>2. i \in A /\ L[i] = top - K
  BY DEF Picks
<1>3. \A j \in A : L[j] \in Nat /\ j \in Nat /\ Partner(x, y, j) \in Nat
  <2>1. \A j \in A : j \in 1..Len(x) /\ Partner(x, y, j) \in 1..Len(y)
    BY AnchorProperties
  <2>2. \A j \in A : L[j] \in Nat
    BY LongestProperties
  <2> HIDE DEF A
  <2> QED
    BY <2>1, <2>2, LenProperties
<1> HIDE DEF A
<1>4. K \in Nat /\ \A k \in 1..K : r[k] \in A
  BY <1>1, LenProperties, ElementOfSeq
<1>5. /\ q \in Seq(A) /\ Len(q) = K + 1 /\ q[1] = i
      /\ \A k \in 2..K + 1 : q[k] = r[k - 1]
  <2>1. <<i>> \in Seq(A) /\ Len(<<i>>) = 1
    BY <1>2
  <2> HIDE DEF K
  <2>2. /\ q \in Seq(A) /\ Len(q) = 1 + Len(r)
        /\ \A k \in 1..1 + Len(r) : q[k] = IF k <= 1 THEN <<i>>[k] ELSE r[k - 1]
    BY <1>1, <2>1, ConcatProperties
  <2> HIDE DEF q
  <2>3. Len(r) = K
    BY DEF K
  <2>4. q[1] = i
    BY <1>4, <2>2, <2>3
  <2>5. \A k \in 2..K + 1 : q[k] = r[k - 1]
    BY <1>4, <2>2, <2>3
  <2> QED
    BY <1>4, <2>2, <2>3, <2>4, <2>5
<1> HIDE DEF q, L, top, K
<1>t. top \in Int
  <2>2. \A j \in Anchors(x, y) : L[j] \in Nat /\ j \in 0..Len(x)
    <3>1. \A j \in Anchors(x, y) : j \in 1..Len(x)
      BY AnchorProperties
    <3> QED
      BY <1>3, <3>1, LenProperties DEF A
  <2>3. Greatest(LongestTo(x, y), Anchors(x, y)) \in Nat
    <3>1. Anchors(x, y) \in SUBSET (0..Len(x)) /\ \A j \in Anchors(x, y) : LongestTo(x, y)[j] \in Nat
      BY <2>2 DEF L
    <3> QED
      BY <3>1, GreatestProperties, LenProperties
  <2> QED
    BY <2>3 DEF top, Longest
<1>6. \A k \in 1..K + 1 : q[k] > i - 1
  <2> TAKE k \in 1..K + 1
  <2>1. CASE k = 1
    BY <1>5, <2>1
  <2>2. CASE k # 1
    <3>1. k \in 2..K + 1 /\ k - 1 \in 1..K
      BY <1>4, <2>2
    <3>2. q[k] = r[k - 1] /\ r[k - 1] > i /\ r[k - 1] \in Nat
      BY <1>1, <1>3, <1>4, <1>5, <3>1 DEF K
    <3> QED
      BY <3>2
  <2> QED
    BY <2>1, <2>2
<1>7. ASSUME K > 0 PROVE i < r[1] /\ Partner(x, y, i) < Partner(x, y, r[1])
  <2>1. 1 \in 1..K
    BY <1>4, <1>7
  <2>2. r[1] \in A /\ i < r[1]
    <3>1. r[1] > i /\ r[1] \in A
      BY <1>1, <1>4, <2>1 DEF K
    <3> QED
      BY <1>3, <3>1
  <2>3. L[i] = L[r[1]] - 1
    BY <1>1, <1>2, <1>3, <1>4, <1>7, <1>t, <2>2 DEF K, L, top
  <2>4. \A j \in A : j > i /\ j < r[1] => L[j] # L[i]
    BY <1>1, <1>2, <1>7 DEF K, L, top
  <2>5. Partner(x, y, i) < Partner(x, y, r[1])
    BY <1>2, <2>2, <2>3, <2>4, PartnersInOrder DEF A, L
  <2> QED
    BY <2>2, <2>5
<1>8. InOrder(x, y, q)
  <2> SUFFICES ASSUME NEW k \in 1..K + 1, NEW l \in 1..K + 1, k < l
               PROVE  q[k] < q[l] /\ Partner(x, y, q[k]) < Partner(x, y, q[l])
    BY <1>5 DEF InOrder
  <2>1. l \in 2..K + 1 /\ l - 1 \in 1..K /\ q[l] = r[l - 1] /\ K > 0 /\ 1 \in 1..K
    BY <1>4, <1>5
  <2>2. \A a \in 1..K : \A b \in 1..K :
          a < b => r[a] < r[b] /\ Partner(x, y, r[a]) < Partner(x, y, r[b])
    BY <1>1 DEF InOrder, K
  <2>3. CASE k = 1
    <3>1. q[k] = i
      BY <1>5, <2>3
    <3>2. CASE l = 2
      <4>1. q[l] = r[1]
        BY <2>1, <3>2
      <4> QED
        BY <1>7, <2>1, <3>1, <4>1
    <3>3. CASE l # 2
      <4> DEFINE m == l - 1
      <4>1. 1 < m /\ m \in 1..K /\ q[l] = r[m]
        BY <1>4, <2>1, <3>3
      <4> HIDE DEF m
      <4>2. r[1] < r[m] /\ Partner(x, y, r[1]) < Partner(x, y, r[m])
        BY <2>1, <2>2, <4>1
      <4>3. i < r[1] /\ Partner(x, y, i) < Partner(x, y, r[1])
        BY <1>7, <2>1
      <4>4. /\ i \in Nat /\ r[1] \in Nat /\ r[m] \in Nat /\ Partner(x, y, i) \in Nat
            /\ Partner(x, y, r[1]) \in Nat /\ Partner(x, y, r[m]) \in Nat
        BY <1>2, <1>3, <1>4, <2>1, <4>1
      <4>5. i < r[m]
        BY <4>2, <4>3, <4>4
      <4>6. Partner(x, y, i) < Partner(x, y, r[m])
        <5> DEFINE u == Partner(x, y, i)
                   v == Partner(x, y, r[1])
                   w == Partner(x, y, r[m])
        <5>1. u \in Nat /\ v \in Nat /\ w \in Nat /\ u < v /\ v < w
          BY <4>2, <4>3, <4>4
        <5> HIDE DEF u, v, w
        <5>2. u < w
          BY <5>1
        <5> QED
          BY <5>2 DEF u, w
      <4> QED
        BY <3>1, <4>1, <4>5, <4>6
    <3> QED
      BY <3>2, <3>3
  <2>4. CASE k # 1
    <3> DEFINE a == k - 1
               b == l - 1
    <3>1. a \in 1..K /\ b \in 1..K /\ a < b /\ q[k] = r[a] /\ q[l] = r[b]
      BY <1>4, <1>5, <2>1, <2>4
    <3> HIDE DEF a, b
    <3> QED
      BY <2>2, <3>1
  <2> QED
    BY <2>3, <2>4
<1>9. L[q[1]] = top - Len(q) + 1
  BY <1>2, <1>4, <1>5, <1>t
<1>10. \A j \in A : ~(j > i - 1 /\ j < q[1])
  BY <1>3, <1>5
<1>11. /\ \A k \in 1..Len(q) : q[k] > i - 1
       /\ Len(q) > 0 => /\ L[q[1]] = top - Len(q) + 1
                         /\ \A j \in A : j > i - 1 /\ j < q[1] => L[j] # top - Len(q)
  BY <1>5, <1>6, <1>9, <1>10
<1>12. PickedTo(x, y, q, i - 1)
  BY <1>5, <1>8, <1>11 DEF PickedTo, A, L, top
<1> QED
  BY <1>12 DEF q

LEMMA NonePicked ==
  ASSUME NEW S, NEW x \in Seq(S), NEW y \in Seq(S), NEW i \in Nat, NEW r, PickedTo(x, y, r, i),
         ~Picks(x, y, i, r)
  PROVE  PickedTo(x, y, r, i - 1)
<1> DEFINE A == Anchors(x, y)
           L == LongestTo(x, y)
           top == Longest(x, y)
           K == Len(r)
<1>1. /\ r \in Seq(A) /\ (\A k \in 1..K : r[k] > i) /\ InOrder(x, y, r)
      /\ K > 0 => /\ L[r[1]] = top - K + 1
                  /\ \A j \in A : j > i /\ j < r[1] => L[j] # top - K
  BY DEF PickedTo
<1>2. i \in A => L[i] # top - K
  BY DEF Picks
<1>3. \A j \in A : j \in Nat
  <2>1. \A j \in A : j \in 1..Len(x)
    BY AnchorProperties
  <2> HIDE DEF A
  <2> QED
    BY <2>1, LenProperties
<1> HIDE DEF A, L, top, K
<1>4. \A k \in 1..K : r[k] > i - 1
  <2> TAKE k \in 1..K
  <2>1. r[k] \in A
    BY <1>1, ElementOfSeq DEF K
  <2> QED
    BY <1>1, <1>3, <2>1
<1>5. K > 0 => \A j \in A : j > i - 1 /\ j < r[1] => L[j] # top - K
  <2> SUFFICES ASSUME K > 0, NEW j \in A, j > i - 1, j < r[1] PROVE L[j] # top - K
    OBVIOUS
  <2>1. j \in Nat
    BY <1>3
  <2>2. CASE j = i
    BY <1>2, <2>2
  <2>3. CASE j # i
    BY <1>1, <2>1, <2>3
  <2> QED
    BY <2>2, <2>3
<1> QED
  BY <1>1, <1>4, <1>5 DEF PickedTo, A, L, top, K

LEMMA RunPicks ==
  ASSUME NEW S, NEW x \in Seq(S), NEW y \in Seq(S), NEW f, IsRun(f, x, y)
  PROVE  PickedTo(x, y, f[Len(x)], 0)
<1> DEFINE N == Len(x)
           T == {n \in 0..N : PickedTo(x, y, f[n], N - n)}
<1>a. N \in Nat
  BY LenProperties
<1>f. /\ f[0] = <<>>
      /\ \A n \in 1..N :
           /\ Picks(x, y, N - n + 1, f[n - 1]) => f[n] = <<N - n + 1>> \o f[n - 1]
           /\ ~Picks(x, y, N - n + 1, f[n - 1]) => f[n] = f[n - 1]
  BY DEF IsRun
<1> HIDE DEF N
<1>1. 0 \in T
  <2>1. <<>> \in Seq(Anchors(x, y)) /\ Len(<<>>) = 0
    BY EmptySeq
  <2>2. PickedTo(x, y, <<>>, N - 0)
    BY <2>1 DEF PickedTo, InOrder
  <2> QED
    BY <1>a, <1>f, <2>2
<1>2. ASSUME NEW n \in 1..N, n - 1 \in T PROVE n \in T
  <2> DEFINE i == N - n + 1
             r == f[n - 1]
  <2>1. i \in Nat /\ N - (n - 1) = i /\ N - n = i - 1 /\ n \in 0..N
    BY <1>a
  <2>2. PickedTo(x, y, r, i)
    BY <1>2, <2>1
  <2>3. /\ Picks(x, y, i, r) => f[n] = <<i>> \o r
        /\ ~Picks(x, y, i, r) => f[n] = r
    BY <1>f
  <2> HIDE DEF i, r
  <2>4. PickedTo(x, y, f[n], i - 1)
    <3>1. CASE Picks(x, y, i, r)
      BY <2>1, <2>2, <2>3, <3>1, OnePicked
    <3>2. CASE ~Picks(x, y, i, r)
      BY <2>1, <2>2, <2>3, <3>2, NonePicked
    <3> QED
      BY <3>1, <3>2
  <2> QED
    BY <2>1, <2>4
<1>3. N \in T
  <2>1. 0..N \subseteq T
    <3> HIDE DEF T
    <3> QED
      BY <1>a, <1>1, <1>2, BoundedInduction
  <2> HIDE DEF T
  <2> QED
    BY <1>a, <2>1
<1>4. PickedTo(x, y, f[N], N - N)
  BY <1>3
<1>5. N - N = 0
  BY <1>a
<1> QED
  BY <1>4, <1>5 DEF N

\* A sequence with an element before and another after it.
IsFramed(T, a, m, b, S) ==
  /\ T \in Seq(S) /\ Len(T) = Len(m) + 2 /\ T[1] = a /\ T[Len(m) + 2] = b
  /\ \A k \in 2..Len(m) + 1 : T[k] = m[k - 1]

LEMMA Framed ==
  ASSUME NEW S, NEW a \in S, NEW b \in S, NEW m \in Seq(S)
  PROVE  IsFramed(<<a>> \o m \o <<b>>, a, m, b, S)
<1> DEFINE one == <<a>>
           two == one \o m
           all == two \o <<b>>
           K == Len(m)
<1>1. one \in Seq(S) /\ Len(one) = 1 /\ one[1] = a
  OBVIOUS
<1>2. K \in Nat
  BY LenProperties
<1> HIDE DEF one
<1>3. /\ two \in Seq(S) /\ Len(two) = 1 + K
      /\ \A k \in 1..1 + K : two[k] = IF k <= 1 THEN one[k] ELSE m[k - 1]
  <2> DEFINE L == Len(one)
  <2>1. /\ one \o m \in Seq(S)
        /\ Len(one \o m) = Len(one) + Len(m)
        /\ \A k \in 1..Len(one) + Len(m) : (one \o m)[k] =
              IF k <= Len(one) THEN one[k] ELSE m[k - Len(one)]
    BY <1>1, ConcatProperties, Zenon
  <2>2. /\ two \in Seq(S) /\ Len(two) = L + K
        /\ \A k \in 1..L + K : two[k] = IF k <= L THEN one[k] ELSE m[k - L]
    BY <2>1, Zenon
  <2>3. L = 1
    BY <1>1
  <2> HIDE DEF two, L, K
  <2> QED
    BY <2>2, <2>3
<1> HIDE DEF two, K
<1>4. two \in Seq(S) /\ Len(two) = K + 1 /\ two[1] = a /\ \A k \in 2..K + 1 : two[k] = m[k - 1]
  <2>1. 1 \in 1..1 + K /\ \A k \in 2..K + 1 : k \in 1..1 + K /\ ~(k <= 1)
    BY <1>2
  <2> QED
    BY <1>1, <1>2, <1>3, <2>1
<1>5. all = Append(two, b)
  BY <1>4, AppendIsConcat
<1>6. /\ all \in Seq(S) /\ Len(all) = (K + 1) + 1
      /\ \A k \in 1..K + 1 : all[k] = two[k]
      /\ all[(K + 1) + 1] = b
  BY <1>4, <1>5, AppendProperties
<1> HIDE DEF all
<1>7. Len(all) = K + 2 /\ all[K + 2] = b /\ all[1] = a /\ \A k \in 2..K + 1 : all[k] = m[k - 1]
  <2>1. (K + 1) + 1 = K + 2 /\ 1 \in 1..K + 1 /\ \A k \in 2..K + 1 : k \in 1..K + 1
    BY <1>2
  <2> QED
    BY <1>4, <1>6, <2>1
<1> QED
  BY <1>6, <1>7 DEF IsFramed, all, two, one, K

\* The matches begin and end with the texts, come in order in both of them, and
\* between are the lines, counted from 0, that both have exactly once.
AreMatches(x, y, T) ==
  /\ T \in Seq(PairOf) /\ Len(T) >= 2
  /\ T[1] = Pair(0, 0) /\ T[Len(T)] = Pair(Len(x), Len(y))
  /\ \A k \in 1..Len(T) : T[k].x \in 0..Len(x) /\ T[k].y \in 0..Len(y)
  /\ \A k \in 1..Len(T) : \A l \in 1..Len(T) : k <= l => T[k].x <= T[l].x /\ T[k].y <= T[l].y
  /\ \A k \in 2..Len(T) - 1 :
       /\ T[k].x + 1 \in 1..Len(x) /\ T[k].y + 1 \in 1..Len(y)
       /\ x[T[k].x + 1] = y[T[k].y + 1]
       /\ \A j \in 1..Len(x) : x[j] = x[T[k].x + 1] => j = T[k].x + 1

LEMMA MatchesProperties ==
  ASSUME NEW S, NEW x \in Seq(S), NEW y \in Seq(S)
  PROVE  AreMatches(x, y, Tgs(x, y))
<1>1. PICK f : Tgs(x, y) = MatchesOf(x, y, f[Len(x)]) /\ IsRun(f, x, y)
  BY RunRecursion
<1> DEFINE r == f[Len(x)]
           K == Len(r)
           P(k) == Partner(x, y, r[k])
           mid == [k \in 1..K |-> Pair(r[k] - 1, P(k) - 1)]
           last == Pair(Len(x), Len(y))
           T == <<Pair(0, 0)>> \o mid \o <<last>>
<1>2. PickedTo(x, y, r, 0)
  BY <1>1, RunPicks
<1> HIDE DEF r
<1>3. r \in Seq(Anchors(x, y)) /\ InOrder(x, y, r)
  BY <1>2 DEF PickedTo
<1>4. K \in Nat /\ DOMAIN r = 1..K /\ \A k \in 1..K : r[k] \in Anchors(x, y)
  BY <1>3, LenProperties, ElementOfSeq
<1>5. \A k \in 1..K : /\ r[k] \in 1..Len(x) /\ P(k) \in 1..Len(y) /\ y[P(k)] = x[r[k]]
                      /\ \A j \in 1..Len(x) : x[j] = x[r[k]] => j = r[k]
  BY <1>4, AnchorProperties
<1>6. \A k \in 1..K : \A l \in 1..K : k < l => r[k] < r[l] /\ P(k) < P(l)
  BY <1>3 DEF InOrder
<1>7. Tgs(x, y) = T
  BY <1>1, <1>4 DEF MatchesOf, r
<1>8. Len(x) \in Nat /\ Len(y) \in Nat
  BY LenProperties
<1> HIDE DEF P, K
<1>9. last \in PairOf /\ Pair(0, 0) \in PairOf /\ last.x = Len(x) /\ last.y = Len(y)
      /\ Pair(0, 0).x = 0 /\ Pair(0, 0).y = 0
  BY <1>8 DEF Pair, PairOf
<1>10. /\ mid \in Seq(PairOf) /\ Len(mid) = K
       /\ \A k \in 1..K : mid[k].x = r[k] - 1 /\ mid[k].y = P(k) - 1
  <2>1. \A k \in 1..K : /\ Pair(r[k] - 1, P(k) - 1) \in PairOf
                        /\ Pair(r[k] - 1, P(k) - 1).x = r[k] - 1
                        /\ Pair(r[k] - 1, P(k) - 1).y = P(k) - 1
    <3> TAKE k \in 1..K
    <3>1. r[k] - 1 \in Int /\ P(k) - 1 \in Int
      BY <1>5
    <3> QED
      BY <3>1 DEF Pair, PairOf
  <2>2. mid \in [1..K -> PairOf]
    BY <2>1
  <2>3. \A k \in 1..K : mid[k] = Pair(r[k] - 1, P(k) - 1)
    OBVIOUS
  <2> HIDE DEF mid
  <2>4. mid \in Seq(PairOf)
    BY <1>4, <2>2, SeqDef
  <2>5. Len(mid) = K
    BY <1>4, <2>2, <2>4
  <2> QED
    BY <2>1, <2>3, <2>4, <2>5
<1> HIDE DEF mid, last
<1>11. /\ T \in Seq(PairOf) /\ Len(T) = K + 2 /\ T[1] = Pair(0, 0) /\ T[K + 2] = last
       /\ \A k \in 2..K + 1 : T[k] = mid[k - 1]
  <2>1. IsFramed(T, Pair(0, 0), mid, last, PairOf)
    BY <1>9, <1>10, Framed
  <2> HIDE DEF T
  <2> QED
    BY <1>10, <2>1 DEF IsFramed
<1> HIDE DEF T
<1>12. \A k \in 2..K + 1 :
         /\ k - 1 \in 1..K
         /\ T[k].x = r[k - 1] - 1 /\ T[k].y = P(k - 1) - 1
  BY <1>4, <1>10, <1>11
<1>13. \A k \in 1..K + 2 : T[k].x \in 0..Len(x) /\ T[k].y \in 0..Len(y)
  <2> TAKE k \in 1..K + 2
  <2>1. CASE k = 1
    BY <1>8, <1>9, <1>11, <2>1
  <2>2. CASE k = K + 2
    BY <1>8, <1>9, <1>11, <2>2
  <2>3. CASE k \in 2..K + 1
    BY <1>5, <1>8, <1>12, <2>3
  <2> QED
    BY <1>4, <2>1, <2>2, <2>3
<1>14. ASSUME NEW k \in 1..K + 2, NEW l \in 1..K + 2, k <= l
       PROVE  T[k].x <= T[l].x /\ T[k].y <= T[l].y
  <2>0. /\ T[k].x \in 0..Len(x) /\ T[k].y \in 0..Len(y) /\ T[l].x \in 0..Len(x) /\ T[l].y \in 0..Len(y)
    BY <1>13
  <2>1. CASE k = l
    BY <2>0, <2>1
  <2>2. CASE k = 1
    <3>1. T[k].x = 0 /\ T[k].y = 0
      BY <1>9, <1>11, <2>2
    <3> QED
      BY <2>0, <3>1
  <2>3. CASE l = K + 2
    <3>1. T[l].x = Len(x) /\ T[l].y = Len(y)
      BY <1>9, <1>11, <2>3
    <3> QED
      BY <1>8, <2>0, <3>1
  <2>4. CASE k < l /\ k \in 2..K + 1 /\ l \in 2..K + 1
    <3> DEFINE a == k - 1
               b == l - 1
    <3>1. a \in 1..K /\ b \in 1..K /\ a < b
      BY <1>4, <2>4
    <3>2. T[k].x = r[a] - 1 /\ T[k].y = P(a) - 1 /\ T[l].x = r[b] - 1 /\ T[l].y = P(b) - 1
      BY <1>12, <2>4
    <3> HIDE DEF a, b
    <3>3. r[a] < r[b] /\ P(a) < P(b) /\ r[a] \in Int /\ r[b] \in Int /\ P(a) \in Int /\ P(b) \in Int
      BY <1>5, <1>6, <3>1
    <3>4. r[a] - 1 <= r[b] - 1 /\ P(a) - 1 <= P(b) - 1
      BY <3>3
    <3> QED
      BY <3>2, <3>4
  <2> QED
    BY <1>4, <1>14, <2>1, <2>2, <2>3, <2>4
<1>15. ASSUME NEW k \in 2..K + 1
       PROVE  /\ T[k].x + 1 \in 1..Len(x) /\ T[k].y + 1 \in 1..Len(y)
              /\ x[T[k].x + 1] = y[T[k].y + 1]
              /\ \A j \in 1..Len(x) : x[j] = x[T[k].x + 1] => j = T[k].x + 1
  <2> DEFINE a == k - 1
  <2>1. a \in 1..K /\ T[k].x = r[a] - 1 /\ T[k].y = P(a) - 1
    BY <1>12
  <2> HIDE DEF a
  <2>2. r[a] \in 1..Len(x) /\ P(a) \in 1..Len(y)
    BY <1>5, <2>1
  <2>3. T[k].x + 1 = r[a] /\ T[k].y + 1 = P(a)
    BY <2>1, <2>2
  <2> QED
    BY <1>5, <2>1, <2>2, <2>3
<1>16. Len(T) >= 2 /\ (K + 2) - 1 = K + 1 /\ Len(T) = K + 2
  BY <1>4, <1>11
<1>17. AreMatches(x, y, T)
  <2>1. \A k \in 2..Len(T) - 1 :
          /\ T[k].x + 1 \in 1..Len(x) /\ T[k].y + 1 \in 1..Len(y)
          /\ x[T[k].x + 1] = y[T[k].y + 1]
          /\ \A j \in 1..Len(x) : x[j] = x[T[k].x + 1] => j = T[k].x + 1
    BY <1>15, <1>16
  <2>2. \A k \in 1..Len(T) : \A l \in 1..Len(T) : k <= l => T[k].x <= T[l].x /\ T[k].y <= T[l].y
    BY <1>14, <1>16
  <2>3. \A k \in 1..Len(T) : T[k].x \in 0..Len(x) /\ T[k].y \in 0..Len(y)
    BY <1>13, <1>16
  <2>4. T \in Seq(PairOf) /\ T[1] = Pair(0, 0) /\ T[Len(T)] = Pair(Len(x), Len(y))
    BY <1>11, <1>16 DEF last
  <2> QED
    BY <1>16, <2>1, <2>2, <2>3, <2>4 DEF AreMatches
<1> QED
  BY <1>7, <1>17

-----------------------------------------------------------------------------
(***************************************************************************)
(* The loop from its beginning to its end.                                 *)
(***************************************************************************)
\* A match that is not behind done in the old text is not in the new one: it
\* would be one of the lines that are the same, and there is no other line
\* like it.
LEMMA MatchBehind ==
  ASSUME NEW S, NEW x \in Seq(S), NEW y \in Seq(S), NEW T, AreMatches(x, y, T),
         NEW k \in 1..Len(T), NEW j \in 1..k, NEW done \in PairOf,
         Reached(x, y, done, T[j]), done.x <= T[k].x
  PROVE  done.y <= T[k].y
<1> DEFINE jx == T[j].x
           jy == T[j].y
           kx == T[k].x
           ky == T[k].y
           dx == done.x
           dy == done.y
           N == Len(T)
<1>1. N \in Nat /\ N >= 2 /\ k \in 1..N /\ j \in 1..N /\ j <= k
  BY LenProperties DEF AreMatches
<1>2. PICK e \in Nat : dx = jx + e /\ dy = jy + e /\ dx <= Len(x) /\ dy <= Len(y) /\ Same(x, y, jx, jy, e)
  BY DEF Reached
<1>3. /\ jx \in 0..Len(x) /\ jy \in 0..Len(y) /\ kx \in 0..Len(x) /\ ky \in 0..Len(y)
      /\ jx <= kx /\ jy <= ky
  BY <1>1 DEF AreMatches
<1>4. /\ k = 1 => kx = 0 /\ ky = 0
      /\ k = N => ky = Len(y)
  BY <1>1 DEF AreMatches, Pair
<1>5. k \in 2..N - 1 =>
        /\ kx + 1 \in 1..Len(x) /\ ky + 1 \in 1..Len(y)
        /\ x[kx + 1] = y[ky + 1]
        /\ \A i \in 1..Len(x) : x[i] = x[kx + 1] => i = kx + 1
  BY DEF AreMatches
<1>6. dx <= kx /\ Len(x) \in Nat /\ Len(y) \in Nat /\ dx \in Int /\ dy \in Int
  BY LenProperties DEF PairOf
<1> HIDE DEF jx, jy, kx, ky, dx, dy, N
<1>7. SUFFICES ASSUME dy > ky PROVE FALSE
  <2>1. ky \in Int
    BY <1>3, <1>6
  <2>2. dy <= ky
    BY <1>6, <1>7, <2>1
  <2> QED
    BY <2>2 DEF dy, ky
<1>8. k # N
  BY <1>2, <1>3, <1>4, <1>6, <1>7
<1>9. k # 1
  BY <1>2, <1>3, <1>4, <1>6, <1>7
<1> DEFINE d == ky - jy + 1
<1>10. d \in 1..e /\ jy + d = ky + 1 /\ jx + d \in 1..Len(x)
  BY <1>2, <1>3, <1>6, <1>7
<1> HIDE DEF d
<1>11. x[jx + d] = y[jy + d]
  BY <1>2, <1>10 DEF Same
<1>12. k \in 2..N - 1
  BY <1>1, <1>8, <1>9
<1>13. jx + d = kx + 1
  BY <1>5, <1>10, <1>11, <1>12
<1> QED
  BY <1>2, <1>3, <1>6, <1>10, <1>13

\* What is so after k matches: done is where the lines that are the same
\* behind one of them end, and after the last the chunks are all written.
LoopKept(S, x, y, T, k, at) ==
  /\ at \in AtOf(S)
  /\ Written(x, y, at)
  /\ at.over \/ \E j \in 1..Len(T) : (j <= k \/ j = 1) /\ Reached(x, y, at.done, T[j])
  /\ k = Len(T) => at.over

LEMMA LoopBegins ==
  ASSUME NEW S, NEW x \in Seq(S), NEW y \in Seq(S), NEW T, AreMatches(x, y, T)
  PROVE  LoopKept(S, x, y, T, 0, Begun)
<1> DEFINE zero == Pair(0, 0)
           at == Begun
<1>1. zero \in PairOf /\ zero.x = 0 /\ zero.y = 0
  BY DEF Pair, PairOf
<1>2. /\ at.done = zero /\ at.chunk = zero /\ at.count = zero /\ at.ctext = <<>>
      /\ at.out = <<>> /\ at.over = FALSE
  BY DEF Begun
<1>3. at \in AtOf(S)
  BY <1>1 DEF Begun, AtOf
<1>4. Len(x) \in Nat /\ Len(y) \in Nat
  BY LenProperties
<1>5. Len(T) \in Nat /\ Len(T) >= 2 /\ T[1] = zero
  BY LenProperties DEF AreMatches
<1> HIDE DEF at, zero
<1>6. Ordered(x, y, at.chunk, at.done) /\ Counted(at.chunk, at.done, at.count)
  BY <1>1, <1>2, <1>4 DEF Ordered, Counted
<1>7. Holds(x, y, at.ctext, at.chunk, at.done)
  <2>1. Side(<<>>, {"both", "old"}) = <<>> /\ Side(<<>>, {"both", "new"}) = <<>>
    BY SideOfNone
  <2>2. Part(x, 0, 0) = <<>> /\ Part(y, 0, 0) = <<>>
    BY <1>4, PartWhole
  <2> QED
    BY <1>1, <1>2, <2>1, <2>2 DEF Holds
<1>8. PatchedTo(x, y, at.out, at.chunk.x, at.chunk.y)
  BY <1>1, <1>2, NothingPatched
<1>9. Written(x, y, at)
  BY <1>2, <1>6, <1>7, <1>8 DEF Written, Consistent
<1>10. Reached(x, y, at.done, T[1])
  BY <1>1, <1>2, <1>4, <1>5 DEF Reached, Same
<1>11. LoopKept(S, x, y, T, 0, at)
  BY <1>3, <1>5, <1>9, <1>10 DEF LoopKept
<1> QED
  BY <1>11 DEF at

LEMMA LoopGoesOn ==
  ASSUME NEW S, NEW x \in Seq(S), NEW y \in Seq(S), NEW T, AreMatches(x, y, T),
         NEW k \in 1..Len(T), NEW at, LoopKept(S, x, y, T, k - 1, at)
  PROVE  LoopKept(S, x, y, T, k, Turn(x, y, at, T[k]))
<1> DEFINE m == T[k]
           t == Turn(x, y, at, m)
           N == Len(T)
<1>1. /\ at \in AtOf(S) /\ Written(x, y, at)
      /\ at.over \/ \E j \in 1..N : (j <= k - 1 \/ j = 1) /\ Reached(x, y, at.done, T[j])
  BY DEF LoopKept
<1>2. N \in Nat /\ k \in 1..N
  BY LenProperties DEF AreMatches
<1>3. m \in PairOf /\ m.x \in 0..Len(x) /\ m.y \in 0..Len(y) /\ (k = N => m = Pair(Len(x), Len(y)))
  <2>1. m \in PairOf
    BY ElementOfSeq DEF AreMatches
  <2> QED
    BY <2>1 DEF AreMatches
<1>4. at.over \/ m.x < at.done.x => t = at
  BY DEF Turn
<1>5. Len(x) \in Nat /\ Len(y) \in Nat /\ at.done \in PairOf /\ at.done.x \in Int /\ at.done.y \in Int
  BY <1>1, LenProperties DEF AtOf, PairOf
<1> HIDE DEF t, m, N
<1>6. CASE at.over
  <2>1. t = at
    BY <1>4, <1>6
  <2>2. LoopKept(S, x, y, T, k, t)
    BY <1>1, <1>6, <2>1 DEF LoopKept
  <2> QED
    BY <2>2 DEF t, m
<1>7. CASE ~at.over
  <2>1. PICK j \in 1..N : (j <= k - 1 \/ j = 1) /\ Reached(x, y, at.done, T[j])
    BY <1>1, <1>7
  <2>2. j \in 1..k
    BY <1>2, <2>1
  <2>3. Consistent(x, y, at) /\ PatchedTo(x, y, at.out, at.chunk.x, at.chunk.y)
    BY <1>1, <1>7 DEF Written
  <2>4. at.done.x <= Len(x) /\ at.done.y <= Len(y)
    BY <2>1 DEF Reached
  <2>5. CASE m.x < at.done.x
    <3>1. t = at
      BY <1>4, <2>5
    <3>2. k # N
      <4>1. k = N => m.x = Len(x)
        BY <1>3 DEF Pair
      <4> QED
        BY <1>5, <2>4, <2>5, <4>1
    <3>3. j <= k \/ j = 1
      BY <2>2
    <3>4. LoopKept(S, x, y, T, k, t)
      BY <1>1, <2>1, <3>1, <3>2, <3>3 DEF LoopKept, N
    <3> QED
      BY <3>4 DEF t, m
  <2>6. CASE ~(m.x < at.done.x)
    <3>1. at.done.x <= m.x
      BY <1>3, <1>5, <2>6
    <3>2. at.done.y <= m.y
      BY <1>2, <1>5, <2>1, <2>2, <3>1, MatchBehind DEF m, N
    <3>3. m.x \in at.done.x..Len(x) /\ m.y \in at.done.y..Len(y)
      BY <1>3, <1>5, <3>1, <3>2
    <3>4. /\ t \in AtOf(S) /\ Written(x, y, t)
          /\ ~t.over => Reached(x, y, t.done, m)
          /\ m = Pair(Len(x), Len(y)) => t.over
      BY <1>1, <1>3, <1>7, <2>3, <3>3, TurnKeeps DEF t
    <3>5. t.over \/ \E i \in 1..N : (i <= k \/ i = 1) /\ Reached(x, y, t.done, T[i])
      <4>1. k \in 1..N /\ k <= k
        BY <1>2
      <4> QED
        BY <3>4, <4>1 DEF m
    <3>6. LoopKept(S, x, y, T, k, t)
      BY <1>3, <3>4, <3>5 DEF LoopKept, N
    <3> QED
      BY <3>6 DEF t, m
  <2> QED
    BY <2>5, <2>6
<1> QED
  BY <1>6, <1>7

IsLoop(f, x, y, T) ==
  /\ f[0] = Begun
  /\ \A n \in 1..Len(T) : f[n] = Turn(x, y, f[n - 1], T[n])

\* The turns from the first to any keep the loop right.
LEMMA TurnsKeep ==
  ASSUME NEW S, NEW x \in Seq(S), NEW y \in Seq(S), NEW T, AreMatches(x, y, T),
         NEW f, IsLoop(f, x, y, T)
  PROVE  \A n \in 0..Len(T) : LoopKept(S, x, y, T, n, f[n])
<1> DEFINE N == Len(T)
           K == {n \in 0..N : LoopKept(S, x, y, T, n, f[n])}
<1>a. N \in Nat
  BY LenProperties DEF AreMatches
<1>1. 0 \in K
  <2>1. LoopKept(S, x, y, T, 0, f[0])
    BY LoopBegins DEF IsLoop
  <2> HIDE DEF N
  <2> QED
    BY <1>a, <2>1
<1>2. ASSUME NEW n \in 1..N, n - 1 \in K PROVE n \in K
  <2>1. f[n] = Turn(x, y, f[n - 1], T[n])
    BY DEF IsLoop
  <2>2. LoopKept(S, x, y, T, n - 1, f[n - 1])
    BY <1>2
  <2>3. LoopKept(S, x, y, T, n, f[n])
    BY <2>1, <2>2, LoopGoesOn
  <2> HIDE DEF N
  <2> QED
    BY <1>a, <2>3
<1>3. 0..N \subseteq K
  <2> HIDE DEF K, N
  <2> QED
    BY <1>a, <1>1, <1>2, BoundedInduction
<1> QED
  BY <1>3

\* There is such a function, because every turn that is reached is typed.
LEMMA LoopRuns ==
  ASSUME NEW S, NEW x \in Seq(S), NEW y \in Seq(S), NEW T, AreMatches(x, y, T)
  PROVE  \E f \in [0..Len(T) -> AtOf(S)] : IsLoop(f, x, y, T)
<1> DEFINE N == Len(T)
           L == AtOf(S)
           Body(n, s) == Turn(x, y, s, T[n])
           Safe(n, s) == IF Body(n, s) \in L THEN Body(n, s) ELSE Begun
           g == [p \in (1..N) \X L |-> Safe(p[1], p[2])]
<1>1. N \in Nat
  BY LenProperties DEF AreMatches
<1>2. LoopKept(S, x, y, T, 0, Begun) /\ Begun \in L
  BY LoopBegins DEF LoopKept
<1>3. g \in [(1..N) \X L -> L] /\ \A n \in 1..N, s \in L : g[<<n, s>>] = Safe(n, s)
  <2> HIDE DEF Body, L, N
  <2> QED
    BY <1>2
<1>4. PICK F : IsRecursion(F, L, N, Begun, g)
  <2> HIDE DEF g, L, N
  <2> QED
    BY <1>1, <1>2, <1>3, Recursion
<1>5. /\ F \in [0..N -> L] /\ F[0] = Begun
      /\ \A n \in 1..N : n - 1 \in 0..N /\ n \in 0..N /\ F[n] = Safe(n, F[n - 1])
  <2> HIDE DEF g, Safe, L, N
  <2>1. /\ F \in [0..N -> L] /\ F[0] = Begun
        /\ \A n \in 1..N : F[n] = g[<<n, F[n - 1]>>] /\ n - 1 \in 0..N /\ n \in 0..N
    BY <1>1, <1>4 DEF IsRecursion
  <2> QED
    BY <1>3, <2>1
<1> DEFINE K == {n \in 0..N : LoopKept(S, x, y, T, n, F[n])}
<1>6. ASSUME NEW n \in 1..N, n - 1 \in K
      PROVE  F[n] = Turn(x, y, F[n - 1], T[n]) /\ LoopKept(S, x, y, T, n, F[n])
  <2>1. LoopKept(S, x, y, T, n - 1, F[n - 1])
    BY <1>6
  <2>2. LoopKept(S, x, y, T, n, Body(n, F[n - 1]))
    BY <2>1, LoopGoesOn
  <2>3. Body(n, F[n - 1]) \in L
    BY <2>2 DEF LoopKept
  <2>4. F[n] = Safe(n, F[n - 1])
    BY <1>5
  <2>5. F[n] = Body(n, F[n - 1])
    <3> HIDE DEF Body, L
    <3> QED
      BY <2>3, <2>4
  <2> QED
    BY <2>2, <2>5
<1>7. 0..N \subseteq K
  <2>1. 0 \in K
    <3> HIDE DEF N
    <3> QED
      BY <1>1, <1>2, <1>5
  <2>2. ASSUME NEW n \in 1..N, n - 1 \in K PROVE n \in K
    BY <1>5, <1>6, <2>2
  <2> HIDE DEF K, N
  <2> QED
    BY <1>1, <2>1, <2>2, BoundedInduction
<1>8. \A n \in 1..N : F[n] = Turn(x, y, F[n - 1], T[n])
  BY <1>5, <1>6, <1>7
<1>9. IsLoop(F, x, y, T)
  BY <1>5, <1>8 DEF IsLoop
<1> QED
  BY <1>5, <1>9

LEMMA LoopRecursion ==
  ASSUME NEW S, NEW x \in Seq(S), NEW y \in Seq(S)
  PROVE  \E f : /\ IsLoop(f, x, y, Tgs(x, y))
                /\ UnifiedDiff(x, y) = IF x = y THEN <<>> ELSE f[Len(Tgs(x, y))].out
<1> DEFINE T == Tgs(x, y)
           N == Len(T)
           L == AtOf(S)
           Body(n, s) == Turn(x, y, s, T[n])
           f[k \in 0 .. Len(T)] == IF k = 0 THEN Begun ELSE Turn(x, y, f[k - 1], T[k])
           Step(h) == [n \in 0..N |-> IF n = 0 THEN Begun ELSE Body(n, h[n - 1])]
           Eq(h) == h = Step(h)
<1>1. AreMatches(x, y, T)
  BY MatchesProperties
<1>2. N \in Nat
  BY <1>1, LenProperties DEF AreMatches
<1>3. PICK F \in [0..N -> L] : IsLoop(F, x, y, T)
  <2> HIDE DEF T
  <2> QED
    BY <1>1, LoopRuns
<1>4. Eq(F)
  <2>1. F[0] = Begun /\ \A n \in 1..N : F[n] = Body(n, F[n - 1])
    BY <1>3 DEF IsLoop
  <2> HIDE DEF Body, L, N
  <2>2. \A n \in 0..N : n = 0 \/ (n \in 1..N /\ n # 0)
    BY <1>2
  <2> QED
    BY <1>3, <2>1, <2>2
<1>5. Eq(CHOOSE h : Eq(h))
  <2> HIDE DEF Eq
  <2> QED
    BY <1>4
<1>6. Eq(f)
  BY <1>5
<1>7. UnifiedDiff(x, y) = IF x = y THEN <<>> ELSE f[N].out
  BY DEF UnifiedDiff
<1> DEFINE e == f
<1>8. Eq(e) /\ UnifiedDiff(x, y) = IF x = y THEN <<>> ELSE e[N].out
  BY <1>6, <1>7
<1> HIDE DEF e
<1>9. e[0] = Begun /\ \A n \in 1..N : e[n] = Body(n, e[n - 1])
  <2> HIDE DEF Body, N
  <2>1. \A n \in 1..N : n \in 0..N /\ n # 0
    OBVIOUS
  <2>2. 0 \in 0..N
    BY <1>2
  <2> QED
    BY <1>8, <2>1, <2>2
<1>10. IsLoop(e, x, y, T)
  BY <1>9 DEF IsLoop
<1> HIDE DEF Step, Body, Eq
<1> QED
  BY <1>8, <1>10

\* Patching the one text with the diff to another gives the other, every
\* chunk stands where its header says, and the diff is empty only for equal
\* texts.
DiffIsRight(x, y) ==
  LET patched == Patch(x, UnifiedDiff(x, y))
  IN  /\ patched.fits
      /\ patched.text \o Part(x, patched.at, Len(x)) = y
      /\ UnifiedDiff(x, y) = <<>> => x = y

\* formatter.diff is right for all texts, of whatever lines and with whatever
\* number of lines of context (formatter/diff.go): the anchors it takes come in
\* order in the new text too, though lastj is never set, and from one to the
\* next the chunk begun holds what the texts are up to there.
THEOREM UnifiedDiffPatches ==
  ASSUME NEW S, NEW x \in Seq(S), NEW y \in Seq(S)
  PROVE  DiffIsRight(x, y)
<1> DEFINE T == Tgs(x, y)
           N == Len(T)
           P == UnifiedDiff(x, y)
<1>1. PICK f : IsLoop(f, x, y, T) /\ P = IF x = y THEN <<>> ELSE f[N].out
  BY LoopRecursion
<1>2. AreMatches(x, y, T)
  BY MatchesProperties
<1>3. N \in Nat /\ N \in 0..N
  <2>1. N \in Nat
    BY <1>2, LenProperties DEF AreMatches
  <2> HIDE DEF N
  <2> QED
    BY <2>1
<1>4. LoopKept(S, x, y, T, N, f[N])
  <2> HIDE DEF T
  <2> QED
    BY <1>1, <1>2, <1>3, TurnsKeep
<1>5. PatchedTo(x, y, f[N].out, Len(x), Len(y))
  BY <1>4 DEF LoopKept, Written
<1> HIDE DEF T, N, P
<1>6. Part(x, 0, Len(x)) = x /\ Part(y, 0, Len(y)) = y
  BY PartWhole
<1>7. Patch(x, <<>>).fits /\ Patch(x, <<>>).at = 0 /\ Patch(x, <<>>).text = <<>>
  BY PatchSteps DEF Unpatched
<1>8. <<>> \o x = x
  BY ConcatEmptySeq
<1>9. CASE x = y
  <2>1. P = <<>>
    BY <1>1, <1>9
  <2>2. Patch(x, P).fits /\ Patch(x, P).text \o Part(x, Patch(x, P).at, Len(x)) = y
    BY <1>6, <1>7, <1>8, <1>9, <2>1
  <2> QED
    BY <1>9, <2>2 DEF DiffIsRight, P
<1>10. CASE x # y
  <2>1. P = f[N].out
    BY <1>1, <1>10
  <2>2. PatchedTo(x, y, P, Len(x), Len(y))
    BY <1>5, <2>1
  <2>3. Patch(x, P).fits /\ Patch(x, P).text \o Part(x, Patch(x, P).at, Len(x)) = y
    BY <1>6, <2>2 DEF PatchedTo
  <2>4. P = <<>> => x = y
    BY <1>6, <1>7, <1>8, <2>3
  <2> QED
    BY <2>3, <2>4 DEF DiffIsRight, P
<1> QED
  BY <1>9, <1>10

-----------------------------------------------------------------------------
(***************************************************************************)
(* The lines of a document.                                                *)
(***************************************************************************)
IsStarts(f, c) ==
  /\ f[0] = <<0>>
  /\ \A n \in 1..Len(c) : f[n] = IF c[n] = NL THEN Append(f[n - 1], n) ELSE f[n - 1]

\* LineStart is computed byte by byte.
LEMMA StartsRecursion ==
  ASSUME NEW S, NEW c \in Seq(S)
  PROVE  \E f : LineStart(c) = f[Len(c)] /\ IsStarts(f, c)
<1> DEFINE N == Len(c)
           L == Seq(Int)
           Body(n, s) == IF c[n] = NL THEN Append(s, n) ELSE s
           f[o \in 0 .. Len(c)] ==
             IF o = 0 THEN <<0>>
             ELSE IF c[o] = NL THEN Append(f[o - 1], o) ELSE f[o - 1]
           Step(h) == [n \in 0..N |-> IF n = 0 THEN <<0>> ELSE Body(n, h[n - 1])]
           Eq(h) == h = Step(h)
           g == [p \in (1..N) \X L |-> Body(p[1], p[2])]
<1>1. N \in Nat /\ <<0>> \in L
  BY LenProperties
<1>2. ASSUME NEW n \in 1..N, NEW s \in L PROVE Body(n, s) \in L
  BY AppendProperties
<1>3. g \in [(1..N) \X L -> L] /\ \A n \in 1..N, s \in L : g[<<n, s>>] = Body(n, s)
  <2> HIDE DEF Body, L, N
  <2> QED
    BY <1>2
<1>4. PICK F : IsRecursion(F, L, N, <<0>>, g)
  <2> HIDE DEF g, L, N
  <2> QED
    BY <1>1, <1>3, Recursion
<1>5. Eq(F)
  <2> HIDE DEF g, Body, L, N
  <2>1. /\ F \in [0..N -> L] /\ F[0] = <<0>>
        /\ \A n \in 1..N : F[n] = g[<<n, F[n - 1]>>] /\ n - 1 \in 0..N /\ n # 0
    BY <1>1, <1>4 DEF IsRecursion
  <2>2. \A n \in 1..N : F[n] = Body(n, F[n - 1]) /\ n # 0
    BY <1>3, <2>1
  <2>3. \A n \in 0..N : n = 0 \/ n \in 1..N
    BY <1>1
  <2> QED
    BY <2>1, <2>2, <2>3
<1>6. Eq(CHOOSE h : Eq(h))
  <2> HIDE DEF Eq
  <2> QED
    BY <1>5
<1>7. Eq(f)
  BY <1>6
<1>8. LineStart(c) = f[N]
  BY DEF LineStart
<1> DEFINE e == f
<1>9. Eq(e) /\ LineStart(c) = e[N]
  BY <1>7, <1>8
<1> HIDE DEF e
<1>10. /\ e[0] = <<0>>
       /\ \A n \in 1..N : e[n] = Body(n, e[n - 1])
  <2> HIDE DEF Body, N
  <2>1. \A n \in 1..N : n \in 0..N /\ n # 0
    OBVIOUS
  <2>2. 0 \in 0..N
    BY <1>1
  <2> QED
    BY <1>9, <2>1, <2>2
<1>11. IsStarts(e, c)
  BY <1>10 DEF IsStarts
<1> HIDE DEF Step, Body, Eq
<1> QED
  BY <1>9, <1>11

\* No line ends behind a before b.
NoFeed(c, a, b) == \A o \in a + 1..b : c[o] # NL

\* s is where the lines start of the first n bytes.
StartsTo(c, s, n) ==
  /\ s \in Seq(Int) /\ Len(s) >= 1 /\ s[1] = 0
  /\ \A k \in 1..Len(s) : s[k] \in 0..n
  /\ \A k \in 1..Len(s) - 1 : /\ s[k] < s[k + 1] /\ c[s[k + 1]] = NL
                               /\ NoFeed(c, s[k], s[k + 1] - 1)
  /\ NoFeed(c, s[Len(s)], n)

LEMMA StartsProperties ==
  ASSUME NEW S, NEW c \in Seq(S)
  PROVE  StartsTo(c, LineStart(c), Len(c))
<1> DEFINE N == Len(c)
<1>1. PICK f : LineStart(c) = f[N] /\ IsStarts(f, c)
  BY StartsRecursion
<1>2. N \in Nat
  BY LenProperties
<1>3. f[0] = <<0>> /\ \A n \in 1..N : f[n] = IF c[n] = NL THEN Append(f[n - 1], n) ELSE f[n - 1]
  BY <1>1 DEF IsStarts
<1> DEFINE T == {n \in 0..N : StartsTo(c, f[n], n)}
<1> HIDE DEF N
<1>4. 0 \in T
  <2> DEFINE z == <<0>>
  <2>1. z \in Seq(Int) /\ Len(z) = 1 /\ z[1] = 0
    OBVIOUS
  <2> HIDE DEF z
  <2>2. StartsTo(c, z, 0)
    BY <2>1 DEF StartsTo, NoFeed
  <2> QED
    BY <1>2, <1>3, <2>2 DEF z
<1>5. ASSUME NEW n \in 1..N, n - 1 \in T PROVE n \in T
  <2> DEFINE s == f[n - 1]
             M == Len(s)
  <2>1. StartsTo(c, s, n - 1)
    BY <1>5
  <2>2. n \in Int /\ n \in 0..N
    BY <1>2
  <2> HIDE DEF s
  <2>3. M \in Nat /\ M >= 1 /\ s \in Seq(Int) /\ s[1] = 0 /\ s[M] \in 0..n - 1
    BY <2>1, LenProperties DEF StartsTo
  <2>4. CASE c[n] # NL
    <3>1. f[n] = s
      BY <1>3, <2>4 DEF s
    <3>2. NoFeed(c, s[M], n)
      BY <2>1, <2>2, <2>3, <2>4 DEF StartsTo, NoFeed
    <3>3. StartsTo(c, s, n)
      BY <2>1, <2>2, <3>2 DEF StartsTo
    <3> QED
      BY <2>2, <3>1, <3>3
  <2>5. CASE c[n] = NL
    <3> DEFINE t == Append(s, n)
    <3>1. f[n] = t
      BY <1>3, <2>5 DEF s
    <3>2. /\ t \in Seq(Int) /\ Len(t) = M + 1 /\ t[M + 1] = n
          /\ \A k \in 1..M : t[k] = s[k]
      BY <2>2, <2>3, AppendProperties
    <3> HIDE DEF t, M
    <3>3. \A k \in 1..M : s[k] \in 0..n - 1
      BY <2>1 DEF StartsTo, M
    <3>4. ASSUME NEW k \in 1..M
          PROVE  t[k] < t[k + 1] /\ c[t[k + 1]] = NL /\ NoFeed(c, t[k], t[k + 1] - 1)
      <4>1. CASE k = M
        <5>1. t[k] = s[M] /\ t[k + 1] = n
          BY <2>3, <3>2, <4>1
        <5>2. NoFeed(c, s[M], n - 1)
          BY <2>1 DEF StartsTo, M
        <5> QED
          BY <2>2, <2>3, <2>5, <5>1, <5>2
      <4>2. CASE k # M
        <5>1. k \in 1..M - 1 /\ k + 1 \in 1..M
          BY <2>3, <4>2
        <5>2. t[k] = s[k] /\ t[k + 1] = s[k + 1]
          BY <3>2, <5>1
        <5>3. s[k] < s[k + 1] /\ c[s[k + 1]] = NL /\ NoFeed(c, s[k], s[k + 1] - 1)
          BY <2>1, <5>1 DEF StartsTo, M
        <5> QED
          BY <5>2, <5>3
      <4> QED
        BY <4>1, <4>2
    <3>5. ASSUME NEW k \in 1..M + 1 PROVE t[k] \in 0..n
      <4>1. CASE k = M + 1
        <5>1. n \in 0..n
          BY <2>2
        <5> QED
          BY <3>2, <4>1, <5>1
      <4>2. CASE k # M + 1
        <5>1. k \in 1..M
          BY <2>3, <4>2
        <5>2. t[k] = s[k] /\ s[k] \in 0..n - 1
          BY <3>2, <3>3, <5>1
        <5> HIDE DEF M
        <5> QED
          BY <2>2, <5>2
      <4> QED
        BY <4>1, <4>2
    <3>6. NoFeed(c, t[M + 1], n)
      BY <2>2, <3>2 DEF NoFeed
    <3>7. Len(t) >= 1 /\ t[1] = 0 /\ Len(t) - 1 = M
      BY <2>3, <3>2
    <3>8. StartsTo(c, t, n)
      BY <3>2, <3>4, <3>5, <3>6, <3>7 DEF StartsTo
    <3> QED
      BY <2>2, <3>1, <3>8
  <2> QED
    BY <2>4, <2>5
<1>6. 0..N \subseteq T
  <2> HIDE DEF T
  <2> QED
    BY <1>2, <1>4, <1>5, BoundedInduction
<1>7. StartsTo(c, f[N], N)
  <2>1. N \in 0..N
    BY <1>2
  <2> QED
    BY <1>6, <2>1
<1> QED
  BY <1>1, <1>7 DEF N

\* The next line starts behind the line feed that is next.
LEMMA NextStart ==
  ASSUME NEW c, NEW N \in Nat, Len(c) = N, NEW a \in 0..N, NEW b \in a..N,
         NoFeed(c, a, b - 1), b = N \/ (a < b /\ c[b] = NL)
  PROVE  NextLineStart(c, a) = b
<1> DEFINE feeds == {o \in a + 1..N : c[o] = NL}
           ends == {N} \cup feeds
<1>1. b \in ends
  OBVIOUS
<1>2. \A o \in ends : o \in Int /\ b <= o
  BY DEF NoFeed
<1>3. NextLineStart(c, a) = Min(ends)
  BY DEF NextLineStart
<1> HIDE DEF ends
<1> DEFINE g == Min(ends)
<1>4. g \in ends /\ \A o \in ends : g <= o
  BY <1>1, <1>2 DEF Min
<1> HIDE DEF g
<1>5. g \in Int /\ b \in Int /\ g <= b /\ b <= g
  BY <1>1, <1>2, <1>4
<1>6. g = b
  BY <1>5
<1> QED
  BY <1>3, <1>6 DEF g

\* The lines are the document cut in pieces, from its beginning to its end.
IsCut(lines, K, n) ==
  /\ K \in Nat /\ DOMAIN lines = 1..K
  /\ K = 0 => n = 0
  /\ K > 0 => lines[1].start = 0 /\ lines[K].end = n
  /\ \A k \in 1..K : lines[k].start \in 0..n /\ lines[k].end \in lines[k].start..n
  /\ \A k \in 2..K : lines[k].start = lines[k - 1].end

LEMMA LinesCut ==
  ASSUME NEW S, NEW c \in Seq(S)
  PROVE  \E K : IsCut(LinesOf(c), K, Len(c))
<1> DEFINE s == LineStart(c)
           N == Len(c)
           M == Len(s)
           K == IF s[M] = N THEN M - 1 ELSE M
           lines == LinesOf(c)
<1>1. StartsTo(c, s, N)
  BY StartsProperties
<1>2. lines = [k \in 1..K |-> [start |-> s[k], end |-> NextLineStart(c, s[k])]]
  BY DEF LinesOf, Last
<1>3. N \in Nat /\ N = Len(c)
  BY LenProperties
<1> HIDE DEF s, lines, N
<1>4. M \in Nat /\ M >= 1 /\ s[1] = 0 /\ \A k \in 1..M : s[k] \in 0..N
  BY <1>1, LenProperties DEF StartsTo
<1>5. \A k \in 1..M - 1 : /\ s[k] < s[k + 1] /\ c[s[k + 1]] = NL
                           /\ NoFeed(c, s[k], s[k + 1] - 1)
  BY <1>1 DEF StartsTo
<1>6. NoFeed(c, s[M], N)
  BY <1>1 DEF StartsTo
<1> HIDE DEF M
<1>7. K \in Nat /\ K <= M /\ (K = M \/ (K = M - 1 /\ s[M] = N)) /\ (K = 0 => N = 0)
  BY <1>4
<1> HIDE DEF K
<1>8. DOMAIN lines = 1..K
  BY <1>2
<1>9. \A k \in 1..K : lines[k].start = s[k] /\ lines[k].end = NextLineStart(c, s[k])
  BY <1>2
<1>10. ASSUME NEW k \in 1..M - 1 PROVE NextLineStart(c, s[k]) = s[k + 1]
  <2> DEFINE a == s[k]
             b == s[k + 1]
  <2>1. a \in 0..N /\ b \in 0..N /\ a < b /\ c[b] = NL /\ NoFeed(c, a, b - 1)
    BY <1>4, <1>5
  <2> HIDE DEF a, b
  <2>2. b \in a..N
    BY <1>3, <2>1
  <2>3. NextLineStart(c, a) = b
    BY <1>3, <2>1, <2>2, NextStart
  <2> QED
    BY <2>3 DEF a, b
<1>11. NextLineStart(c, s[M]) = N
  <2> DEFINE a == s[M]
  <2>1. a \in 0..N
    BY <1>4
  <2> HIDE DEF a
  <2>2. N \in a..N
    BY <1>3, <2>1
  <2>3. NoFeed(c, a, N - 1)
    BY <1>3, <1>6, <2>1 DEF NoFeed, a
  <2>4. NextLineStart(c, a) = N
    BY <1>3, <2>1, <2>2, <2>3, NextStart
  <2> QED
    BY <2>4 DEF a
<1>12. \A k \in 1..K : lines[k].start \in 0..N /\ lines[k].end \in lines[k].start..N
  <2> TAKE k \in 1..K
  <2>1. k \in 1..M
    BY <1>4, <1>7
  <2>2. lines[k].start = s[k] /\ s[k] \in 0..N
    BY <1>4, <1>9, <2>1
  <2>3. CASE k = M
    <3>1. lines[k].end = N
      BY <1>9, <1>11, <2>3
    <3> QED
      BY <1>3, <2>2, <3>1
  <2>4. CASE k # M
    <3>1. k \in 1..M - 1
      BY <1>4, <2>1, <2>4
    <3>2. lines[k].end = s[k + 1] /\ s[k] < s[k + 1] /\ s[k + 1] \in 0..N
      BY <1>4, <1>5, <1>9, <1>10, <3>1
    <3> QED
      BY <2>2, <3>2
  <2> QED
    BY <2>3, <2>4
<1>13. \A k \in 2..K : lines[k].start = lines[k - 1].end
  <2> TAKE k \in 2..K
  <2> DEFINE l == k - 1
  <2>1. l \in 1..K /\ l \in 1..M - 1 /\ l + 1 = k /\ k \in 1..K
    BY <1>4, <1>7
  <2> HIDE DEF l
  <2>2. lines[l].end = s[k] /\ lines[k].start = s[k]
    BY <1>9, <1>10, <2>1
  <2> QED
    BY <2>2 DEF l
<1>14. K > 0 => lines[1].start = 0 /\ lines[K].end = N
  <2> SUFFICES ASSUME K > 0 PROVE lines[1].start = 0 /\ lines[K].end = N
    OBVIOUS
  <2>1. 1 \in 1..K /\ K \in 1..K
    BY <1>7
  <2>2. lines[1].start = 0
    BY <1>4, <1>9, <2>1
  <2>3. CASE K = M
    BY <1>9, <1>11, <2>1, <2>2, <2>3
  <2>4. CASE K = M - 1 /\ s[M] = N
    <3>1. K \in 1..M - 1 /\ K + 1 = M
      BY <1>4, <1>7, <2>1, <2>4
    <3> QED
      BY <1>9, <1>10, <2>1, <2>2, <2>4, <3>1
  <2> QED
    BY <1>7, <2>3, <2>4
<1>15. IsCut(lines, K, N)
  BY <1>7, <1>8, <1>12, <1>13, <1>14 DEF IsCut
<1> QED
  BY <1>15 DEF lines, N

\* The lines of the diff are the pieces.
LEMMA DiffLinesCut ==
  ASSUME NEW S, NEW c \in Seq(S), NEW K, IsCut(LinesOf(c), K, Len(c))
  PROVE  /\ DiffLines(c) \in Seq(Seq(S)) /\ Len(DiffLines(c)) = K
         /\ \A k \in 1..K : DiffLines(c)[k] = Part(c, LinesOf(c)[k].start, LinesOf(c)[k].end)
<1> DEFINE lines == LinesOf(c)
           pieces == DiffLines(c)
           N == Len(c)
<1>1. pieces = [k \in DOMAIN lines |-> Part(c, lines[k].start, lines[k].end)]
  BY DEF DiffLines, TextOf, Slice, Part
<1>2. /\ K \in Nat /\ DOMAIN lines = 1..K
      /\ \A k \in 1..K : lines[k].start \in 0..N /\ lines[k].end \in lines[k].start..N
  BY DEF IsCut
<1> HIDE DEF lines, pieces
<1>3. \A k \in 1..K : Part(c, lines[k].start, lines[k].end) \in Seq(S)
  <2> TAKE k \in 1..K
  <2> QED
    BY <1>2, PartProperties
<1>4. pieces \in [1..K -> Seq(S)] /\ \A k \in 1..K : pieces[k] = Part(c, lines[k].start, lines[k].end)
  BY <1>1, <1>2, <1>3
<1>5. pieces \in Seq(Seq(S))
  BY <1>2, <1>4, SeqDef
<1>6. Len(pieces) = K
  BY <1>2, <1>4, <1>5
<1> QED
  BY <1>4, <1>5, <1>6 DEF pieces, lines

LEMMA DiffLinesTyped ==
  ASSUME NEW S, NEW c \in Seq(S)
  PROVE  DiffLines(c) \in Seq(Seq(S))
BY LinesCut, DiffLinesCut

\* Documents with the same lines are the same.
LEMMA DiffLinesDiffer ==
  ASSUME NEW S, NEW c \in Seq(S), NEW d \in Seq(S), DiffLines(c) = DiffLines(d)
  PROVE  c = d
<1> DEFINE l == LinesOf(c)
           m == LinesOf(d)
           M == Len(c)
           N == Len(d)
<1>1. PICK K : IsCut(l, K, M)
  BY LinesCut
<1>2. PICK J : IsCut(m, J, N)
  BY LinesCut
<1>3. /\ Len(DiffLines(c)) = K
      /\ \A k \in 1..K : DiffLines(c)[k] = Part(c, l[k].start, l[k].end)
  BY <1>1, DiffLinesCut
<1>4. /\ Len(DiffLines(d)) = J
      /\ \A k \in 1..J : DiffLines(d)[k] = Part(d, m[k].start, m[k].end)
  BY <1>2, DiffLinesCut
<1>5. M = Len(c) /\ N = Len(d) /\ M \in Nat /\ N \in Nat
  BY LenProperties
<1> HIDE DEF l, m, M, N
<1>6. J = K
  BY <1>3, <1>4
<1>7. \A k \in 1..K : Part(c, l[k].start, l[k].end) = Part(d, m[k].start, m[k].end)
  BY <1>3, <1>4, <1>6
<1>8. /\ K \in Nat /\ (K = 0 => M = 0 /\ N = 0)
      /\ K > 0 => l[1].start = 0 /\ l[K].end = M /\ m[1].start = 0 /\ m[K].end = N
      /\ \A k \in 1..K : /\ l[k].start \in 0..M /\ l[k].end \in l[k].start..M
                         /\ m[k].start \in 0..N /\ m[k].end \in m[k].start..N
      /\ \A k \in 2..K : l[k].start = l[k - 1].end /\ m[k].start = m[k - 1].end
  BY <1>1, <1>2, <1>6 DEF IsCut
<1> DEFINE T == {k \in 0..K : k = 0 \/ Part(c, 0, l[k].end) = Part(d, 0, m[k].end)}
<1>9. 0 \in T
  BY <1>8
<1>10. ASSUME NEW k \in 1..K, k - 1 \in T PROVE k \in T
  <2> DEFINE a == l[k].start
             b == l[k].end
             u == m[k].start
             v == m[k].end
  <2>1. /\ a \in 0..M /\ b \in a..M /\ u \in 0..N /\ v \in u..N /\ 0 \in 0..M /\ 0 \in 0..N
        /\ a \in 0..M /\ u \in 0..N
    BY <1>5, <1>8
  <2>2. Part(c, a, b) = Part(d, u, v)
    BY <1>7
  <2>3. Part(c, 0, a) = Part(d, 0, u)
    <3>1. CASE k = 1
      <4>1. a = 0 /\ u = 0
        BY <1>8, <3>1
      <4>2. Part(c, 0, 0) = <<>> /\ Part(d, 0, 0) = <<>>
        BY <1>5, PartWhole
      <4> QED
        BY <4>1, <4>2
    <3>2. CASE k # 1
      <4>1. k \in 2..K /\ k - 1 # 0
        BY <1>8, <3>2
      <4>2. a = l[k - 1].end /\ u = m[k - 1].end
        BY <1>8, <4>1
      <4>3. Part(c, 0, l[k - 1].end) = Part(d, 0, m[k - 1].end)
        BY <1>10, <4>1
      <4> QED
        BY <4>2, <4>3
    <3> QED
      BY <3>1, <3>2
  <2> HIDE DEF a, b, u, v
  <2>4. Part(c, 0, a) \o Part(c, a, b) = Part(c, 0, b)
    BY <1>5, <2>1, PartsConcat
  <2>5. Part(d, 0, u) \o Part(d, u, v) = Part(d, 0, v)
    BY <1>5, <2>1, PartsConcat
  <2>6. Part(c, 0, b) = Part(d, 0, v)
    BY <2>2, <2>3, <2>4, <2>5
  <2>7. k \in 0..K
    BY <1>8
  <2> QED
    BY <2>6, <2>7 DEF b, v
<1>11. 0..K \subseteq T
  <2> HIDE DEF T
  <2> QED
    BY <1>8, <1>9, <1>10, BoundedInduction
<1>12. K \in T
  <2> HIDE DEF T
  <2> QED
    BY <1>8, <1>11
<1>13. CASE K = 0
  <2>1. Len(c) = 0 /\ Len(d) = 0
    BY <1>5, <1>8, <1>13
  <2> QED
    BY <2>1, EmptySeq
<1>14. CASE K # 0
  <2>1. l[K].end = M /\ m[K].end = N
    BY <1>8, <1>14
  <2>2. Part(c, 0, M) = Part(d, 0, N)
    BY <1>12, <1>14, <2>1
  <2>3. Part(c, 0, M) = c /\ Part(d, 0, N) = d
    BY <1>5, PartWhole
  <2> QED
    BY <2>2, <2>3
<1> QED
  BY <1>13, <1>14

-----------------------------------------------------------------------------
(***************************************************************************)
(* The requests.                                                           *)
(***************************************************************************)
\* The answer to a request for the diff is that of the documents there are:
\* until it is asked for they are what the formatter was given and made, and
\* after it nothing changes them.
DiffAnswered ==
  /\ answer = Silent => /\ content \in Seq(STRING)
                        /\ formatted # NotParseable => formatted \in Seq(STRING)
  /\ answer.to = "diff" =>
       /\ content \in Seq(STRING) /\ formatted \in Seq(STRING)
       /\ answer.chunks = UnifiedDiff(DiffLines(content), DiffLines(formatted))

LEMMA DiffAnsweredHolds == Spec => []DiffAnswered
<1>1. Init => DiffAnswered
  <2> SUFFICES ASSUME Init PROVE DiffAnswered
    OBVIOUS
  <2>1. PICK pair \in Formats : content = pair[1] /\ formatted = pair[2]
    BY DEF Init
  <2>2. answer.to # "diff"
    BY DEF Init, Silent
  <2> QED
    BY <2>1, <2>2, FormatsAssumption DEF DiffAnswered
<1>2. DiffAnswered /\ [Next]_vars => DiffAnswered'
  <2> SUFFICES ASSUME DiffAnswered, [Next]_vars PROVE DiffAnswered'
    OBVIOUS
  <2>1. CASE AskDocument
    BY <2>1 DEF DiffAnswered, AskDocument, Silent
  <2>2. CASE AskDiff
    <3> DEFINE chunks == UnifiedDiff(DiffLines(content), DiffLines(formatted))
    <3>1. /\ answer = Silent /\ formatted # NotParseable /\ answer' = [to |-> "diff", chunks |-> chunks]
          /\ content' = content /\ formatted' = formatted
      BY <2>2 DEF AskDiff
    <3>2. content \in Seq(STRING) /\ formatted \in Seq(STRING)
      BY <3>1 DEF DiffAnswered
    <3>3. UnifiedDiff(DiffLines(content), DiffLines(formatted))' = chunks
      BY <3>1
    <3> HIDE DEF chunks
    <3> QED
      BY <3>1, <3>2, <3>3 DEF DiffAnswered
  <2>3. CASE Apply
    <3>1. answer' = [to |-> "done"] \/ answer' = Refused
      BY <2>3 DEF Apply
    <3>2. answer' # Silent /\ answer'.to # "diff"
      BY <3>1 DEF Silent, Refused
    <3> QED
      BY <3>2 DEF DiffAnswered
  <2>4. ASSUME NEW from, NEW to, AskRange(from, to) PROVE DiffAnswered'
    <3>1. PICK edits : \/ answer' = Refused
                       \/ answer' = [to |-> "range", from |-> from, until |-> to, edits |-> edits]
      BY <2>4 DEF AskRange
    <3>2. answer' # Silent /\ answer'.to # "diff"
      BY <3>1 DEF Silent, Refused
    <3> QED
      BY <3>2 DEF DiffAnswered
  <2>5. CASE UNCHANGED vars
    <3>1. content' = content /\ formatted' = formatted /\ answer' = answer
      BY <2>5 DEF vars
    <3>2. UnifiedDiff(DiffLines(content), DiffLines(formatted))'
            = UnifiedDiff(DiffLines(content), DiffLines(formatted))
      BY <3>1
    <3> QED
      BY <3>1, <3>2 DEF DiffAnswered, Silent
  <2> QED
    BY <2>1, <2>2, <2>3, <2>4, <2>5 DEF Next
<1> QED
  BY <1>1, <1>2, PTL DEF Spec

\* The diff `format -d` prints is the difference of the document and what the
\* formatter made of it, whatever they are: patch makes the one of the other,
\* every chunk stands where its header says, and nothing is printed only if
\* the formatter changed nothing (formatter/diff.go).
THEOREM FormattingDiffPatches == Spec => []DiffPatches
<1>1. DiffAnswered => DiffPatches
  <2> SUFFICES ASSUME DiffAnswered, answer.to = "diff" PROVE DiffPatches
    BY DEF DiffPatches
  <2> DEFINE x == DiffLines(content)
             y == DiffLines(formatted)
  <2>1. /\ content \in Seq(STRING) /\ formatted \in Seq(STRING)
        /\ answer.chunks = UnifiedDiff(x, y)
    BY DEF DiffAnswered
  <2>2. x \in Seq(Seq(STRING)) /\ y \in Seq(Seq(STRING))
    BY <2>1, DiffLinesTyped
  <2> HIDE DEF x, y
  <2>3. DiffIsRight(x, y)
    BY <2>2, UnifiedDiffPatches
  <2>4. x = y => content = formatted
    BY <2>1, DiffLinesDiffer DEF x, y
  <2>5. /\ Patch(x, answer.chunks).fits
        /\ Patch(x, answer.chunks).text \o Part(x, Patch(x, answer.chunks).at, Len(x)) = y
        /\ answer.chunks = <<>> => content = formatted
    BY <2>1, <2>3, <2>4 DEF DiffIsRight
  <2> QED
    BY <2>5 DEF DiffPatches, x, y
<1> QED
  BY <1>1, DiffAnsweredHolds, PTL
-----------------------------------------------------------------------------
(***************************************************************************)
(* The runes of a line.                                                    *)
(***************************************************************************)
\* A rune has one, two or four bytes, and they are there.
LEMMA RuneSizes ==
  ASSUME NEW S, NEW s \in Seq(S)
  PROVE  /\ RuneSize(s) \in {1, 2, 4}
         /\ Len(s) > 0 => RuneSize(s) <= Len(s)
         /\ s[1] \notin NonASCII => RuneSize(s) = 1
<1>1. Len(s) \in Nat
  BY LenProperties
<1> QED
  BY <1>1 DEF RuneSize, NonASCII

\* A rune is as long as it is if what comes behind it is cut off.
LEMMA RuneSizeOfPart ==
  ASSUME NEW S, NEW s \in Seq(S), NEW n \in 1..Len(s), RuneSize(s) <= n
  PROVE  RuneSize(SubSeq(s, 1, n)) = RuneSize(s)
<1> DEFINE t == SubSeq(s, 1, n)
<1>1. Len(s) \in Nat /\ n \in Nat
  BY LenProperties
<1>2. Len(t) = n /\ \A i \in 1..n : t[i] = s[i]
  BY <1>1, SubSeqProperties
<1> HIDE DEF t
<1>3. CASE RuneSize(s) = 2
  <2>1. Len(s) >= 2 /\ s[1] = "2" /\ s[2] = "+"
    BY <1>3 DEF RuneSize
  <2>2. n >= 2 /\ t[1] = s[1] /\ t[2] = s[2]
    BY <1>1, <1>2, <1>3
  <2> QED
    BY <1>2, <1>3, <2>1, <2>2 DEF RuneSize
<1>4. CASE RuneSize(s) = 4
  <2>1. Len(s) >= 4 /\ s[1] = "4" /\ \A i \in 2..4 : s[i] = "+"
    BY <1>4 DEF RuneSize
  <2>2. n >= 4 /\ t[1] = s[1] /\ \A i \in 2..4 : t[i] = s[i]
    BY <1>1, <1>2, <1>4
  <2>3. t[1] = "4" /\ \A i \in 2..4 : t[i] = "+"
    BY <2>1, <2>2
  <2>4. RuneSize(t) = 4
    BY <1>2, <2>2, <2>3 DEF RuneSize
  <2> QED
    BY <1>4, <2>4 DEF t
<1>5. CASE RuneSize(s) = 1
  <2>1. ~(Len(s) >= 2 /\ s[1] = "2" /\ s[2] = "+")
    BY <1>5 DEF RuneSize
  <2>2. ~(Len(s) >= 4 /\ s[1] = "4" /\ \A i \in 2..4 : s[i] = "+")
    BY <1>5, <2>1 DEF RuneSize
  <2>3. ~(Len(t) >= 2 /\ t[1] = "2" /\ t[2] = "+")
    BY <1>1, <1>2, <2>1
  <2>4. ~(Len(t) >= 4 /\ t[1] = "4" /\ \A i \in 2..4 : t[i] = "+")
    <3> SUFFICES ASSUME Len(t) >= 4, t[1] = "4", \A i \in 2..4 : t[i] = "+" PROVE FALSE
      OBVIOUS
    <3>1. n >= 4 /\ Len(s) >= 4 /\ s[1] = "4"
      BY <1>1, <1>2
    <3>2. \A i \in 2..4 : i \in 1..n /\ s[i] = "+"
      BY <1>1, <1>2, <3>1
    <3> QED
      BY <2>2, <3>1, <3>2
  <2>5. RuneSize(t) = 1
    BY <2>3, <2>4 DEF RuneSize
  <2> QED
    BY <1>5, <2>5 DEF t
<1> QED
  BY <1>3, <1>4, <1>5, RuneSizes

RunesBehind == [bytes : Nat, units : Nat]
IsAfter(f, s) ==
  /\ f \in [0..Len(s) -> RunesBehind]
  /\ f[0] = [bytes |-> 0, units |-> 0]
  /\ \A k \in 1..Len(s) : f[k] = NextRune(s, f[k - 1])

\* AfterRunes is computed rune by rune.
LEMMA AfterRecursion == ASSUME NEW S, NEW s \in Seq(S) PROVE IsAfter(AfterRunes(s), s)
<1> DEFINE N == Len(s)
           L == RunesBehind
           z == [bytes |-> 0, units |-> 0]
           Body(n, h) == NextRune(s, h)
           f[k \in 0 .. Len(s)] ==
             IF k = 0 THEN [bytes |-> 0, units |-> 0] ELSE NextRune(s, f[k - 1])
           Step(h) == [n \in 0..N |-> IF n = 0 THEN z ELSE Body(n, h[n - 1])]
           Eq(h) == h = Step(h)
           g == [p \in (1..N) \X L |-> Body(p[1], p[2])]
<1>1. N \in Nat /\ z \in L
  BY LenProperties DEF RunesBehind
<1>2. ASSUME NEW n \in 1..N, NEW h \in L PROVE Body(n, h) \in L
  <2>1. h.bytes \in Nat /\ h.units \in Nat
    BY DEF RunesBehind
  <2> DEFINE size == RuneSize(SubSeq(s, h.bytes + 1, N))
  <2>2. size \in {1, 2, 4}
    BY DEF RuneSize
  <2>3. Body(n, h) = IF h.bytes = N THEN h
                     ELSE [bytes |-> h.bytes + size, units |-> h.units + IF size = 4 THEN 2 ELSE 1]
    BY DEF NextRune
  <2> HIDE DEF size, N, Body
  <2>4. [bytes |-> h.bytes + size, units |-> h.units + IF size = 4 THEN 2 ELSE 1] \in L
    <3>1. h.bytes + size \in Nat /\ (h.units + IF size = 4 THEN 2 ELSE 1) \in Nat
      BY <2>1, <2>2
    <3> QED
      BY <3>1 DEF RunesBehind
  <2> QED
    BY <2>3, <2>4
<1>3. g \in [(1..N) \X L -> L] /\ \A n \in 1..N, h \in L : g[<<n, h>>] = Body(n, h)
  <2> HIDE DEF Body, L, N
  <2> QED
    BY <1>2
<1>4. PICK F : IsRecursion(F, L, N, z, g)
  <2> HIDE DEF g, L, N, z
  <2> QED
    BY <1>1, <1>3, Recursion
<1>5. Eq(F) /\ F \in [0..N -> L]
  <2> HIDE DEF g, Body, L, N, z
  <2>1. /\ F \in [0..N -> L] /\ F[0] = z
        /\ \A n \in 1..N : F[n] = g[<<n, F[n - 1]>>] /\ n - 1 \in 0..N /\ n # 0
    BY <1>1, <1>4 DEF IsRecursion
  <2>2. \A n \in 1..N : F[n] = Body(n, F[n - 1]) /\ n # 0
    BY <1>3, <2>1
  <2>3. \A n \in 0..N : n = 0 \/ n \in 1..N
    BY <1>1
  <2> QED
    BY <2>1, <2>2, <2>3
<1>6. Eq(CHOOSE h : Eq(h))
  <2> HIDE DEF Eq
  <2> QED
    BY <1>5
<1>7. Eq(f)
  BY <1>6
<1>8. AfterRunes(s) = f
  BY DEF AfterRunes
<1> DEFINE e == f
<1>9. Eq(e) /\ AfterRunes(s) = e
  BY <1>7, <1>8
<1> HIDE DEF e
<1>10. /\ e[0] = z
       /\ \A n \in 1..N : e[n] = Body(n, e[n - 1])
       /\ DOMAIN e = 0..N /\ e = [n \in 0..N |-> e[n]]
  <2> HIDE DEF Body, N, z
  <2>1. \A n \in 1..N : n \in 0..N /\ n # 0
    OBVIOUS
  <2>2. 0 \in 0..N
    BY <1>1
  <2> QED
    BY <1>9, <2>1, <2>2
<1> DEFINE T == {n \in 0..N : e[n] \in L}
<1>11. 0..N \subseteq T
  <2> HIDE DEF L, N, z, Body
  <2>1. 0 \in T
    BY <1>1, <1>10
  <2>2. ASSUME NEW n \in 1..N, n - 1 \in T PROVE n \in T
    <3>1. e[n] = Body(n, e[n - 1]) /\ e[n - 1] \in L
      BY <1>10, <2>2
    <3>2. n \in 0..N
      BY <1>1
    <3> QED
      BY <1>2, <3>1, <3>2
  <2> HIDE DEF T
  <2> QED
    BY <1>1, <2>1, <2>2, BoundedInduction
<1>12. e \in [0..N -> L]
  <2> HIDE DEF L, N
  <2> QED
    BY <1>10, <1>11
<1>13. IsAfter(e, s)
  BY <1>10, <1>12 DEF IsAfter
<1> HIDE DEF Step, Body, Eq
<1> QED
  BY <1>9, <1>13

\* Every turn of the loop leaves a rune behind, until none is left.
LEMMA AfterTurn ==
  ASSUME NEW S, NEW s \in Seq(S), NEW at \in RunesBehind, at.bytes <= Len(s)
  PROVE  LET next == NextRune(s, at)
             size == RuneSize(SubSeq(s, at.bytes + 1, Len(s)))
         IN  /\ next \in RunesBehind
             /\ at.bytes = Len(s) => next = at
             /\ at.bytes < Len(s) =>
                  /\ size \in {1, 2, 4} /\ next.bytes = at.bytes + size /\ next.bytes <= Len(s)
                  /\ next.units = at.units + IF size = 4 THEN 2 ELSE 1
<1> DEFINE N == Len(s)
           size == RuneSize(SubSeq(s, at.bytes + 1, N))
           next == NextRune(s, at)
<1>1. N \in Nat /\ at.bytes \in Nat /\ at.units \in Nat
  BY LenProperties DEF RunesBehind
<1>2. next = IF at.bytes = N THEN at
             ELSE [bytes |-> at.bytes + size, units |-> at.units + IF size = 4 THEN 2 ELSE 1]
  BY DEF NextRune
<1>3. CASE at.bytes = N
  BY <1>1, <1>2, <1>3
<1>4. CASE at.bytes # N
  <2>1. SubSeq(s, at.bytes + 1, N) \in Seq(S) /\ Len(SubSeq(s, at.bytes + 1, N)) = N - at.bytes
    <3>1. at.bytes \in 0..N /\ N \in at.bytes..N
      BY <1>1, <1>4
    <3> QED
      BY <3>1, PartProperties DEF Part
  <2> DEFINE t == SubSeq(s, at.bytes + 1, N)
  <2>a. t \in Seq(S) /\ Len(t) = N - at.bytes /\ size = RuneSize(t) /\ N - at.bytes > 0
    BY <1>1, <1>4, <2>1
  <2> HIDE DEF t, size
  <2>2. size \in {1, 2, 4} /\ size <= N - at.bytes
    <3>1. RuneSize(t) \in {1, 2, 4} /\ (Len(t) > 0 => RuneSize(t) <= Len(t))
      BY <2>a, RuneSizes
    <3> QED
      BY <2>a, <3>1
  <2> HIDE DEF N, next
  <2>3. next.bytes = at.bytes + size /\ next.units = at.units + IF size = 4 THEN 2 ELSE 1
    BY <1>2, <1>4
  <2>4. next \in RunesBehind
    <3>1. at.bytes + size \in Nat /\ (at.units + IF size = 4 THEN 2 ELSE 1) \in Nat
      BY <1>1, <2>2
    <3> QED
      BY <1>2, <1>4, <3>1 DEF RunesBehind
  <2>5. at.bytes + size <= N
    BY <1>1, <2>2
  <2> QED
    BY <1>4, <2>2, <2>3, <2>4, <2>5 DEF size, N, next
<1> QED
  BY <1>3, <1>4

\* What is left behind after one turn and a later one.
LeavesMore(f, j, k) ==
  /\ f[j].bytes <= f[k].bytes /\ f[j].units <= f[k].units
  /\ f[j].bytes < f[k].bytes => f[j].units < f[k].units

\* After k turns k bytes are behind at least, and all in the end; more bytes
\* are more units.
LEMMA AfterProperties ==
  ASSUME NEW S, NEW s \in Seq(S)
  PROVE  LET f == AfterRunes(s)
             N == Len(s)
         IN  /\ f[0].bytes = 0 /\ f[0].units = 0 /\ DOMAIN f = 0..N
             /\ \A k \in 0..N : f[k] \in RunesBehind /\ f[k].bytes \in k..N
             /\ \A k \in 1..N : f[k] = NextRune(s, f[k - 1])
             /\ \A j \in 0..N : \A k \in j..N : LeavesMore(f, j, k)
<1> DEFINE f == AfterRunes(s)
           N == Len(s)
<1>1. N \in Nat
  BY LenProperties
<1>2. /\ f \in [0..N -> RunesBehind] /\ f[0] = [bytes |-> 0, units |-> 0]
      /\ \A k \in 1..N : f[k] = NextRune(s, f[k - 1])
  BY AfterRecursion DEF IsAfter
<1> HIDE DEF f
<1> DEFINE T == {k \in 0..N : f[k] \in RunesBehind /\ f[k].bytes \in k..N}
<1>3. 0 \in T
  BY <1>1, <1>2
<1>4. ASSUME NEW k \in 1..N, f[k - 1].bytes \in k - 1..N, f[k - 1] \in RunesBehind
      PROVE  /\ f[k] \in RunesBehind /\ f[k].bytes \in k..N
             /\ LeavesMore(f, k - 1, k)
  <2> DEFINE at == f[k - 1]
             size == RuneSize(SubSeq(s, at.bytes + 1, N))
  <2>1. f[k] = NextRune(s, at) /\ at \in RunesBehind /\ at.bytes <= N /\ at.bytes \in k - 1..N
    BY <1>1, <1>2, <1>4
  <2> HIDE DEF at
  <2>2. /\ f[k] \in RunesBehind
        /\ at.bytes = N => f[k] = at
        /\ at.bytes < N =>
             /\ size \in {1, 2, 4} /\ f[k].bytes = at.bytes + size /\ f[k].bytes <= N
             /\ f[k].units = at.units + IF size = 4 THEN 2 ELSE 1
    BY <2>1, AfterTurn
  <2> HIDE DEF size, N
  <2>3. /\ at.bytes \in Nat /\ at.units \in Nat /\ f[k].bytes \in Nat /\ f[k].units \in Nat
        /\ k \in Nat
    BY <1>1, <2>1, <2>2 DEF RunesBehind
  <2>4. CASE at.bytes = N
    <3>1. f[k] = at
      BY <2>2, <2>4
    <3>2. at.bytes \in k..N
      BY <1>1, <2>3, <2>4
    <3>3. LeavesMore(f, k - 1, k)
      BY <2>3, <3>1 DEF LeavesMore, at
    <3> QED
      BY <2>2, <3>1, <3>2, <3>3
  <2>5. CASE at.bytes < N
    <3>1. f[k].bytes \in k..N
      BY <1>1, <2>1, <2>2, <2>3, <2>5
    <3>2. f[k].bytes > at.bytes /\ f[k].units > at.units
      BY <2>2, <2>3, <2>5
    <3>3. LeavesMore(f, k - 1, k)
      BY <2>3, <3>2 DEF LeavesMore, at
    <3> QED
      BY <2>2, <3>1, <3>3
  <2> QED
    BY <1>1, <2>1, <2>3, <2>4, <2>5
<1>5. 0..N \subseteq T
  <2>1. ASSUME NEW k \in 1..N, k - 1 \in T PROVE k \in T
    BY <1>1, <1>4, <2>1
  <2> HIDE DEF T, N
  <2> QED
    BY <1>1, <1>3, <2>1, BoundedInduction
<1>6. ASSUME NEW k \in 0..N PROVE f[k] \in RunesBehind /\ f[k].bytes \in k..N
  BY <1>5
<1>7. ASSUME NEW j \in 0..N PROVE \A k \in j..N : LeavesMore(f, j, k)
  <2> DEFINE R == {k \in 0..N : j <= k => LeavesMore(f, j, k)}
  <2>1. ASSUME NEW k \in 0..N PROVE f[k].bytes \in Nat /\ f[k].units \in Nat
    BY <1>6 DEF RunesBehind
  <2>2. LeavesMore(f, j, j)
    BY <2>1 DEF LeavesMore
  <2>3. 0 \in R
    <3>1. j <= 0 => j = 0
      OBVIOUS
    <3> QED
      BY <1>1, <2>2, <3>1
  <2>4. ASSUME NEW k \in 1..N, k - 1 \in R PROVE k \in R
    <3>1. k - 1 \in 0..N /\ k \in 0..N
      BY <1>1
    <3>2. LeavesMore(f, k - 1, k)
      BY <1>4, <1>6, <3>1
    <3>3. CASE j = k
      BY <2>2, <3>1, <3>3
    <3>4. CASE j # k /\ j <= k
      <4>1. LeavesMore(f, j, k - 1)
        BY <2>4, <3>4
      <4>2. /\ f[j].bytes \in Nat /\ f[j].units \in Nat /\ f[k].bytes \in Nat /\ f[k].units \in Nat
            /\ f[k - 1].bytes \in Nat /\ f[k - 1].units \in Nat
        BY <2>1, <3>1
      <4>3. LeavesMore(f, j, k)
        BY <3>2, <4>1, <4>2 DEF LeavesMore
      <4> QED
        BY <3>1, <4>3
    <3>5. CASE ~(j <= k)
      BY <3>1, <3>5
    <3> QED
      BY <3>3, <3>4, <3>5
  <2>5. 0..N \subseteq R
    <3> HIDE DEF R, N
    <3> QED
      BY <1>1, <2>3, <2>4, BoundedInduction
  <2>6. \A k \in j..N : k \in R /\ j <= k
    BY <1>1, <2>5
  <2> QED
    BY <2>6
<1> QED
  BY <1>2, <1>6, <1>7 DEF f

\* A part of s that starts at a byte, and what that is of a part of s.
LEMMA PartOfPart ==
  ASSUME NEW S, NEW s \in Seq(S), NEW b \in 0..Len(s), NEW a \in 0..b
  PROVE  Part(Part(s, 0, b), a, b) = SubSeq(Part(s, a, Len(s)), 1, b - a)
<1> DEFINE N == Len(s)
           u == Part(s, 0, b)
           v == Part(s, a, N)
           n == b - a
<1>1. N \in Nat /\ b \in Nat /\ a \in Nat /\ n \in Nat
  BY LenProperties
<1>2. u \in Seq(S) /\ Len(u) = b /\ \A i \in 1..b : u[i] = s[i]
  <2>1. 0 \in 0..Len(s) /\ b \in 0..Len(s)
    BY <1>1
  <2>2. /\ u \in Seq(S) /\ Len(u) = b - 0
        /\ \A i \in 1..(b - 0) : u[i] = s[0 + i]
    BY <2>1, PartProperties
  <2> HIDE DEF u
  <2> QED
    BY <1>1, <2>2
<1>3. v \in Seq(S) /\ Len(v) = N - a /\ \A i \in 1..N - a : v[i] = s[a + i]
  <2>1. a \in 0..Len(s) /\ Len(s) \in a..Len(s)
    BY <1>1
  <2> QED
    BY <2>1, PartProperties
<1> HIDE DEF u, v, N
<1>4. Part(u, a, b) \in Seq(S) /\ Len(Part(u, a, b)) = n /\ \A i \in 1..n : Part(u, a, b)[i] = u[a + i]
  <2>1. u \in Seq(S) /\ a \in 0..Len(u) /\ b \in a..Len(u)
    BY <1>1, <1>2
  <2> QED
    BY <2>1, PartProperties
<1>5. /\ SubSeq(v, 1, n) \in Seq(S) /\ Len(SubSeq(v, 1, n)) = n
      /\ \A i \in 1..n : SubSeq(v, 1, n)[i] = v[i]
  <2>1. v \in Seq(S) /\ 0 \in 0..Len(v) /\ n \in 0..Len(v)
    BY <1>1, <1>3 DEF N
  <2> DEFINE w == Part(v, 0, n)
  <2>2. w \in Seq(S) /\ Len(w) = n - 0 /\ \A i \in 1..(n - 0) : w[i] = v[0 + i]
    BY <2>1, PartProperties
  <2>3. w = SubSeq(v, 1, n)
    BY DEF Part
  <2> HIDE DEF w, n
  <2>4. w \in Seq(S) /\ Len(w) = n /\ \A i \in 1..n : w[i] = v[i]
    BY <1>1, <2>2
  <2> QED
    BY <2>3, <2>4
<1>6. \A i \in 1..n : Part(u, a, b)[i] = SubSeq(v, 1, n)[i]
  <2> SUFFICES ASSUME NEW i \in 1..n PROVE u[a + i] = v[i]
    BY <1>4, <1>5
  <2>1. a + i \in 1..b /\ i \in 1..N - a
    BY <1>1 DEF N
  <2> QED
    BY <1>2, <1>3, <2>1
<1> HIDE DEF n
<1>7. Part(u, a, b) = SubSeq(v, 1, n)
  BY <1>4, <1>5, <1>6, SeqEqual
<1> QED
  BY <1>7 DEF u, v, n, N

\* The units of a part that ends between two runes are those left behind
\* there.
LEMMA UnitsOfPart ==
  ASSUME NEW S, NEW s \in Seq(S), NEW k \in 0..Len(s)
  PROVE  UTF16Count(Part(s, 0, AfterRunes(s)[k].bytes)) = AfterRunes(s)[k].units
<1> DEFINE f == AfterRunes(s)
           N == Len(s)
           b == f[k].bytes
           t == Part(s, 0, b)
           g == AfterRunes(t)
<1>1. N \in Nat /\ k \in Nat
  BY LenProperties
<1>2. /\ \A j \in 0..N : f[j] \in RunesBehind /\ f[j].bytes \in j..N
      /\ \A j \in 1..N : f[j] = NextRune(s, f[j - 1])
      /\ \A i \in 0..N : \A j \in i..N : LeavesMore(f, i, j)
      /\ f[0].bytes = 0 /\ f[0].units = 0 /\ f[0] = [bytes |-> 0, units |-> 0]
  BY AfterProperties, AfterRecursion DEF IsAfter
<1> HIDE DEF f
<1>3. b \in 0..N /\ k <= b /\ b \in Nat
  BY <1>1, <1>2
<1>4. t \in Seq(S) /\ Len(t) = b
  <2> HIDE DEF b
  <2>1. 0 \in 0..Len(s) /\ b \in 0..Len(s)
    BY <1>1, <1>3
  <2>2. t \in Seq(S) /\ Len(t) = b - 0
    BY <2>1, PartProperties
  <2> QED
    BY <1>3, <2>2
<1>5. g[0] = [bytes |-> 0, units |-> 0] /\ \A j \in 1..b : g[j] = NextRune(t, g[j - 1])
  BY <1>4, AfterRecursion DEF IsAfter
<1>6. UTF16Count(t) = g[b].units
  BY <1>4 DEF UTF16Count
<1> HIDE DEF g
<1> DEFINE T == {j \in 0..b : g[j] = IF j <= k THEN f[j] ELSE f[k]}
<1>7. 0 \in T
  BY <1>1, <1>2, <1>3, <1>5
<1>8. ASSUME NEW j \in 1..b, j - 1 \in T PROVE j \in T
  <2>1. j \in Nat /\ j - 1 \in Nat /\ j \in 0..b
    BY <1>3
  <2>2. CASE j <= k
    <3> DEFINE at == f[j - 1]
               x == at.bytes
    <3>1. g[j - 1] = at /\ g[j] = NextRune(t, at) /\ f[j] = NextRune(s, at)
      BY <1>1, <1>2, <1>5, <1>8, <2>1, <2>2
    <3>2. /\ at \in RunesBehind /\ x \in 0..b /\ f[j].bytes \in 0..b
          /\ LeavesMore(f, j, k)
      <4>1. j \in 0..N /\ j - 1 \in 0..N /\ k \in j..N /\ k \in j - 1..N
        BY <1>1, <2>1, <2>2
      <4>2. LeavesMore(f, j, k) /\ LeavesMore(f, j - 1, k)
        BY <1>2, <4>1
      <4> QED
        BY <1>1, <1>2, <1>3, <4>1, <4>2 DEF LeavesMore
    <3> HIDE DEF at
    <3>3. CASE x = b
      <4>1. NextRune(t, at) = at
        BY <1>4, <3>2, <3>3, AfterTurn
      <4>2. NextRune(s, at) = at
        <5>1. CASE x = N
          BY <3>2, <5>1, AfterTurn
        <5>2. CASE x < N
          <6>1. f[j].bytes > x
            <7>1. RuneSize(SubSeq(s, x + 1, N)) \in {1, 2, 4}
                  /\ f[j].bytes = x + RuneSize(SubSeq(s, x + 1, N))
              BY <3>1, <3>2, <5>2, AfterTurn
            <7> QED
              BY <3>2, <7>1
          <6> QED
            BY <3>2, <3>3, <6>1
        <5> QED
          BY <1>3, <3>3, <5>1, <5>2
      <4> QED
        BY <2>1, <2>2, <3>1, <4>1, <4>2
    <3>4. CASE x # b
      <4> DEFINE w == SubSeq(s, x + 1, N)
                 v == SubSeq(t, x + 1, b)
      <4>1. x \in 0..N /\ x < N /\ x < b /\ b - x \in 1..N - x
        BY <1>1, <1>3, <3>2, <3>4
      <4>2. RuneSize(w) \in {1, 2, 4} /\ f[j].bytes = x + RuneSize(w)
            /\ f[j].units = at.units + IF RuneSize(w) = 4 THEN 2 ELSE 1
        BY <3>1, <3>2, <4>1, AfterTurn
      <4>3. w \in Seq(S) /\ Len(w) = N - x
        <5>1. x \in 0..N /\ N \in x..N
          BY <1>1, <4>1
        <5> QED
          BY <5>1, PartProperties DEF Part
      <4>4. v = SubSeq(w, 1, b - x)
        <5>1. b \in 0..Len(s) /\ x \in 0..b
          BY <1>3, <3>2
        <5> QED
          BY <5>1, PartOfPart DEF Part
      <4> HIDE DEF w, v
      <4>5. RuneSize(v) = RuneSize(w)
        <5>1. RuneSize(w) <= b - x /\ b - x \in 1..Len(w)
          BY <1>1, <1>3, <3>2, <4>1, <4>2, <4>3
        <5> QED
          BY <4>3, <4>4, <5>1, RuneSizeOfPart
      <4>6. NextRune(t, at) = [bytes |-> x + RuneSize(v),
                               units |-> at.units + IF RuneSize(v) = 4 THEN 2 ELSE 1]
        BY <1>4, <3>4 DEF NextRune, v
      <4>7. NextRune(s, at) = [bytes |-> x + RuneSize(w),
                               units |-> at.units + IF RuneSize(w) = 4 THEN 2 ELSE 1]
        BY <4>1, <3>2 DEF NextRune, w
      <4>8. g[j] = f[j]
        BY <3>1, <4>5, <4>6, <4>7
      <4> QED
        BY <2>1, <2>2, <4>8
    <3> QED
      BY <3>3, <3>4
  <2>3. CASE ~(j <= k)
    <3>1. g[j - 1] = f[k]
      <4>1. j - 1 = k \/ ~(j - 1 <= k)
        BY <1>1, <2>1, <2>3
      <4> QED
        BY <1>8, <4>1
    <3>2. g[j] = NextRune(t, f[k])
      BY <1>5, <3>1
    <3>3. NextRune(t, f[k]) = f[k]
      BY <1>4 DEF NextRune
    <3> QED
      BY <2>1, <2>3, <3>2, <3>3
  <2> QED
    BY <2>2, <2>3
<1>9. 0..b \subseteq T
  <2> HIDE DEF T, b
  <2> QED
    BY <1>3, <1>7, <1>8, BoundedInduction
<1>10. g[b] = f[k]
  <2>1. b \in T
    BY <1>3, <1>9
  <2>2. b <= k => b = k
    BY <1>1, <1>3
  <2> HIDE DEF b
  <2> QED
    BY <2>1, <2>2
<1> QED
  BY <1>6, <1>10 DEF f

\* Letters are bytes and units.
LEMMA AfterLetters ==
  ASSUME NEW S, NEW s \in Seq(S), \A i \in 1..Len(s) : s[i] \notin NonASCII
  PROVE  \A k \in 0..Len(s) : AfterRunes(s)[k].bytes = k /\ AfterRunes(s)[k].units = k
<1> DEFINE f == AfterRunes(s)
           N == Len(s)
           T == {k \in 0..N : f[k].bytes = k /\ f[k].units = k}
<1>1. N \in Nat
  BY LenProperties
<1>2. /\ \A k \in 0..N : f[k] \in RunesBehind
      /\ f[0].bytes = 0 /\ f[0].units = 0
      /\ \A k \in 1..N : f[k] = NextRune(s, f[k - 1])
  BY AfterProperties
<1> HIDE DEF f
<1>3. 0 \in T
  BY <1>1, <1>2
<1>4. ASSUME NEW k \in 1..N, k - 1 \in T PROVE k \in T
  <2> DEFINE at == f[k - 1]
             w == SubSeq(s, at.bytes + 1, N)
  <2>1. /\ at.bytes = k - 1 /\ at.units = k - 1 /\ at \in RunesBehind /\ f[k] = NextRune(s, at)
        /\ at.bytes < N /\ k \in 0..N
    BY <1>1, <1>2, <1>4
  <2>2. RuneSize(w) = 1
    <3>1. k - 1 \in 0..N /\ N \in k - 1..N /\ 1 \in 1..N - (k - 1)
      BY <1>1
    <3>2. w \in Seq(S) /\ w[1] = s[k]
      <4>1. /\ Part(s, k - 1, N) \in Seq(S)
            /\ \A i \in 1..N - (k - 1) : Part(s, k - 1, N)[i] = s[k - 1 + i]
        BY <3>1, PartProperties
      <4>2. Part(s, k - 1, N)[1] = s[k - 1 + 1] /\ k - 1 + 1 = k
        BY <3>1, <4>1
      <4> QED
        BY <2>1, <4>1, <4>2 DEF Part
    <3> HIDE DEF w
    <3> QED
      BY <3>2, RuneSizes
  <2>3. f[k].bytes = at.bytes + 1 /\ f[k].units = at.units + 1
    <3> HIDE DEF at
    <3>1. f[k].bytes = at.bytes + RuneSize(w) /\ f[k].units = at.units + IF RuneSize(w) = 4 THEN 2 ELSE 1
      BY <2>1, AfterTurn
    <3> QED
      BY <2>2, <3>1
  <2> QED
    BY <2>1, <2>3
<1>5. 0..N \subseteq T
  <2> HIDE DEF T, N
  <2> QED
    BY <1>1, <1>3, <1>4, BoundedInduction
<1> QED
  BY <1>5 DEF f

\* A line starts behind every earlier one.
LEMMA StartsInOrder ==
  ASSUME NEW c, NEW s, NEW n \in Nat, StartsTo(c, s, n)
  PROVE  \A j, k \in 1..Len(s) : j < k => s[j] < s[k]
<1> DEFINE M == Len(s)
<1>1. /\ M \in Nat /\ \A k \in 1..M : s[k] \in Int
      /\ \A k \in 1..M - 1 : s[k] < s[k + 1]
  BY LenProperties DEF StartsTo
<1> HIDE DEF M
<1> DEFINE T == {k \in 0..M : \A j \in 1..M : j < k => s[j] < s[k]}
<1>2. 0 \in T
  BY <1>1
<1>3. ASSUME NEW k \in 1..M, k - 1 \in T PROVE k \in T
  <2> SUFFICES ASSUME NEW j \in 1..M, j < k PROVE s[j] < s[k]
    BY <1>1
  <2>1. k - 1 \in 1..M - 1 /\ (k - 1) + 1 = k /\ k - 1 \in 1..M
    BY <1>1
  <2>2. s[k - 1] < s[k] /\ s[k - 1] \in Int /\ s[k] \in Int /\ s[j] \in Int
    BY <1>1, <2>1
  <2>3. CASE j = k - 1
    BY <2>2, <2>3
  <2>4. CASE j # k - 1
    <3>1. s[j] < s[k - 1]
      BY <1>1, <1>3, <2>4
    <3> QED
      BY <2>2, <3>1
  <2> QED
    BY <2>3, <2>4
<1>4. 0..M \subseteq T
  <2> HIDE DEF T
  <2> QED
    BY <1>1, <1>2, <1>3, BoundedInduction
<1> QED
  BY <1>1, <1>4 DEF M

\* What stands between the start of a line and its end is of that line, and
\* the end is not inside of a terminator.
LineFrom(c, l, a, e) ==
  /\ a \in 0..Len(c) /\ e \in a..Len(c)
  /\ \A o \in a..e : /\ Max({k \in DOMAIN LineStart(c) : LineStart(c)[k] <= o}) = l + 1
                     /\ ~(o > 0 /\ o < Len(c) /\ c[o] = CR /\ c[o + 1] = NL)

LEMMA LineEnds ==
  ASSUME NEW S, NEW c \in Seq(S), NEW l \in 0..Len(LineStart(c)) - 1
  PROVE  LineFrom(c, l, LineStart(c)[l + 1], LineEnd(c, l))
<1> DEFINE s == LineStart(c)
           M == Len(s)
           N == Len(c)
           a == s[l + 1]
           e == LineEnd(c, l)
<1>1. StartsTo(c, s, N)
  BY StartsProperties
<1>2. N \in Nat /\ M \in Nat /\ DOMAIN s = 1..M /\ l + 1 \in 1..M /\ l \in Nat
  BY <1>1, LenProperties DEF StartsTo
<1>3. e = IF l + 1 = M THEN N
          ELSE IF s[l + 2] - 1 > a /\ c[s[l + 2] - 1] = CR THEN s[l + 2] - 1 - 1
          ELSE s[l + 2] - 1
  BY DEF LineEnd
<1>4. \A j, k \in 1..M : j < k => s[j] < s[k]
  BY <1>1, <1>2, StartsInOrder
<1> HIDE DEF s, N, M, e
<1>5. /\ \A k \in 1..M : s[k] \in 0..N
      /\ s[1] = 0
      /\ \A k \in 1..M - 1 : c[s[k + 1]] = NL /\ NoFeed(c, s[k], s[k + 1] - 1)
      /\ NoFeed(c, s[M], N)
  BY <1>1 DEF StartsTo, M
<1>6. a \in 0..N
  BY <1>2, <1>5
<1>7. ASSUME NEW o \in Int, a <= o, \A k \in 1..M : k > l + 1 => o < s[k]
      PROVE  Max({k \in DOMAIN s : s[k] <= o}) = l + 1
  <2> DEFINE K == {k \in DOMAIN s : s[k] <= o}
  <2>1. K \in SUBSET (0..M) /\ l + 1 \in K
    BY <1>2, <1>7
  <2>2. ASSUME NEW k \in K PROVE k <= l + 1
    <3>1. k \in 1..M /\ s[k] <= o /\ s[k] \in Int
      BY <1>2, <1>5
    <3> QED
      BY <1>2, <1>7, <3>1
  <2> HIDE DEF K
  <2>3. Max(K) \in K /\ \A k \in K : k <= Max(K)
    BY <1>2, <2>1, LeastAndGreatest
  <2> DEFINE m == Max(K)
  <2>4. m \in K /\ l + 1 <= m
    BY <2>1, <2>3
  <2> HIDE DEF m
  <2>5. m = l + 1
    <3>1. m <= l + 1 /\ m \in 0..M
      BY <2>1, <2>2, <2>4
    <3> QED
      BY <1>2, <2>4, <3>1
  <2> QED
    BY <2>5 DEF K, m
<1>8. CASE l + 1 = M
  <2>1. e = N
    BY <1>3, <1>8
  <2>2. ASSUME NEW o \in a..e
        PROVE  /\ Max({k \in DOMAIN s : s[k] <= o}) = l + 1
               /\ ~(o > 0 /\ o < N /\ c[o] = CR /\ c[o + 1] = NL)
    <3>1. o \in Int /\ a <= o /\ \A k \in 1..M : ~(k > l + 1)
      BY <1>2, <1>8
    <3>2. NoFeed(c, a, N)
      BY <1>5, <1>8
    <3>3. o < N => c[o + 1] # NL
      BY <1>2, <1>6, <2>1, <3>2 DEF NoFeed
    <3> QED
      BY <1>7, <3>1, <3>3
  <2>3. e \in a..N
    BY <1>2, <1>6, <2>1
  <2> QED
    BY <1>6, <2>2, <2>3 DEF LineFrom, s, N, e
<1>9. CASE l + 1 # M
  <2> DEFINE b == s[l + 2]
             feed == b - 1
  <2>1. l + 1 \in 1..M - 1 /\ (l + 1) + 1 = l + 2 /\ l + 2 \in 1..M
    BY <1>2, <1>9
  <2>2. b \in 0..N /\ a < b /\ c[b] = NL /\ NoFeed(c, a, b - 1)
    BY <1>2, <1>4, <1>5, <2>1
  <2>3. \A k \in 1..M : k > l + 1 => b <= s[k]
    <3> SUFFICES ASSUME NEW k \in 1..M, k > l + 1 PROVE b <= s[k]
      OBVIOUS
    <3>1. k = l + 2 \/ l + 2 < k
      BY <1>2
    <3>2. s[k] \in Int /\ b \in Int
      BY <1>5, <2>2
    <3> QED
      BY <1>4, <2>1, <3>1, <3>2
  <2> HIDE DEF b
  <2>4. e = IF feed > a /\ c[feed] = CR THEN feed - 1 ELSE feed
    BY <1>3, <1>9 DEF b
  <2>5. feed \in Int /\ a <= feed /\ feed < N /\ a \in Int /\ N \in Int /\ feed + 1 = b
    BY <1>2, <1>6, <2>2
  <2>6. e \in a..N /\ e <= feed
    BY <2>4, <2>5
  <2>7. a > 0 => c[a] = NL
    <3> SUFFICES ASSUME a > 0 PROVE c[a] = NL
      OBVIOUS
    <3>1. l + 1 # 1
      BY <1>5
    <3>2. l \in 1..M - 1
      BY <1>2, <3>1
    <3> QED
      BY <1>5, <3>2
  <2>8. ASSUME NEW o \in a..e
        PROVE  /\ Max({k \in DOMAIN s : s[k] <= o}) = l + 1
               /\ ~(o > 0 /\ o < N /\ c[o] = CR /\ c[o + 1] = NL)
    <3>1. o \in Int /\ a <= o /\ o <= feed
      BY <2>5, <2>6
    <3>2. \A k \in 1..M : k > l + 1 => o < s[k]
      <4> SUFFICES ASSUME NEW k \in 1..M, k > l + 1 PROVE o < s[k]
        OBVIOUS
      <4>1. b <= s[k] /\ s[k] \in Int
        BY <1>5, <2>3
      <4> QED
        BY <2>5, <3>1, <4>1
    <3>3. ~(o > 0 /\ o < N /\ c[o] = CR /\ c[o + 1] = NL)
      <4> SUFFICES ASSUME o > 0, c[o] = CR, c[o + 1] = NL PROVE FALSE
        OBVIOUS
      <4>1. o = feed
        <5> SUFFICES ASSUME o < feed PROVE FALSE
          BY <2>5, <3>1
        <5>1. o + 1 \in a + 1..b - 1
          BY <2>5, <3>1
        <5> QED
          BY <2>2, <5>1 DEF NoFeed
      <4>2. CASE feed > a
        <5>1. e = feed - 1
          BY <2>4, <4>1, <4>2
        <5> QED
          BY <2>5, <4>1, <5>1
      <4>3. CASE feed = a
        <5>1. c[o] = NL
          BY <2>7, <4>1, <4>3
        <5> QED
          BY <5>1 DEF CR, NL
      <4> QED
        BY <2>5, <4>2, <4>3
    <3> QED
      BY <1>7, <3>1, <3>2, <3>3
  <2> QED
    BY <1>6, <2>6, <2>8 DEF LineFrom, s, N, e
<1> QED
  BY <1>8, <1>9

\* The turns in which the loop of LSPPosToParserPosition may stop.
Stops(f, M, n, k) == f[k].bytes = M \/ f[k].units >= n

\* The offset of a position is where the loop stops first, in documents of
\* letters too.
LEMMA OffsetMeans ==
  ASSUME NEW S, NEW c \in Seq(S), NEW l \in 0..Len(LineStart(c)) - 1, NEW n \in Nat
  PROVE  LET a == LineStart(c)[l + 1]
             line == Slice(c, a, LineEnd(c, l))
             f == AfterRunes(line)
         IN  \E k \in 0..Len(line) :
               /\ PositionToOffset(c, Position(l, n)) = a + f[k].bytes
               /\ Stops(f, Len(line), n, k)
               /\ \A j \in 0..Len(line) : Stops(f, Len(line), n, j) => f[k].bytes <= f[j].bytes
<1> DEFINE a == LineStart(c)[l + 1]
           e == LineEnd(c, l)
           line == Slice(c, a, e)
           f == AfterRunes(line)
           M == Len(line)
           letters == \A i \in DOMAIN c : c[i] \notin NonASCII
           enough == {k \in DOMAIN f : f[k].bytes = M \/ f[k].units >= n}
           o == PositionToOffset(c, Position(l, n))
<1>1. a \in 0..Len(c) /\ e \in a..Len(c)
  <2>1. LineFrom(c, l, a, e)
    BY LineEnds
  <2> QED
    BY <2>1 DEF LineFrom
<1>2. line \in Seq(S) /\ Len(line) = e - a /\ \A i \in 1..(e - a) : line[i] = c[a + i]
  BY <1>1, PartProperties DEF Part, Slice
<1>3. o = IF letters THEN a + Min({n, M}) ELSE a + f[Min(enough)].bytes
  <2>1. Position(l, n).line = l /\ Position(l, n).character = n /\ ~(l >= Len(LineStart(c)))
    BY DEF Position
  <2> HIDE DEF Position
  <2> QED
    BY <2>1 DEF PositionToOffset
<1> HIDE DEF a, e, o
<1>4. /\ DOMAIN f = 0..M /\ M \in Nat
      /\ \A k \in 0..M : f[k] \in RunesBehind /\ f[k].bytes \in k..M
      /\ \A j \in 0..M : \A k \in j..M : LeavesMore(f, j, k)
  BY <1>2, AfterProperties, LenProperties
<1>5. CASE letters
  <2>1. \A i \in 1..M : line[i] \notin NonASCII
    <3> SUFFICES ASSUME NEW i \in 1..M PROVE line[i] \notin NonASCII
      OBVIOUS
    <3>1. i \in 1..(e - a) /\ a + i \in 1..Len(c)
      BY <1>1, <1>2
    <3>2. a + i \in DOMAIN c
      BY <3>1
    <3> QED
      BY <1>2, <1>5, <3>1, <3>2
  <2>2. \A k \in 0..M : f[k].bytes = k /\ f[k].units = k
    BY <1>2, <2>1, AfterLetters
  <2> DEFINE k == IF n <= M THEN n ELSE M
  <2> HIDE DEF line, f, M, letters
  <2>3. Min({n, M}) = k
    <3>1. n \in Int /\ M \in Int
      BY <1>4
    <3> QED
      BY <3>1, MinOfTwo
  <2>4. k \in 0..M /\ o = a + k
    BY <1>3, <1>4, <1>5, <2>3
  <2>5. Stops(f, M, n, k)
    <3>1. f[k].bytes = k /\ f[k].units = k
      BY <2>2, <2>4
    <3> QED
      BY <1>4, <3>1 DEF Stops
  <2>6. ASSUME NEW j \in 0..M, Stops(f, M, n, j) PROVE f[k].bytes <= f[j].bytes
    <3>1. f[j].bytes = j /\ f[j].units = j /\ f[k].bytes = k
      BY <2>2, <2>4
    <3>2. j = M \/ j >= n
      BY <2>6, <3>1 DEF Stops
    <3> QED
      BY <1>4, <2>4, <3>1, <3>2
  <2>7. o = a + f[k].bytes
    BY <2>2, <2>4
  <2> HIDE DEF k
  <2> QED
    BY <2>4, <2>5, <2>6, <2>7 DEF a, e, line, f, M, o
<1>6. CASE ~letters
  <2> DEFINE k == Min(enough)
  <2> HIDE DEF line, f, M, letters
  <2>1. o = a + f[k].bytes
    BY <1>3, <1>6
  <2>2. enough \in SUBSET (0..M) /\ M \in enough
    <3>1. M \in 0..M /\ f[M].bytes = M
      BY <1>4
    <3> QED
      BY <1>4, <3>1
  <2>3. \A j \in 0..M : j \in enough <=> Stops(f, M, n, j)
    BY <1>4 DEF Stops
  <2> HIDE DEF enough
  <2>4. k \in enough /\ \A j \in enough : k <= j
    BY <1>4, <2>2, LeastAndGreatest
  <2> HIDE DEF k
  <2>5. k \in 0..M /\ Stops(f, M, n, k)
    BY <2>2, <2>3, <2>4
  <2>6. ASSUME NEW j \in 0..M, Stops(f, M, n, j) PROVE f[k].bytes <= f[j].bytes
    <3>1. j \in k..M
      BY <2>3, <2>4, <2>5, <2>6
    <3> QED
      BY <1>4, <2>5, <3>1 DEF LeavesMore
  <2> QED
    BY <2>1, <2>5, <2>6 DEF a, e, line, f, M, o
<1> QED
  BY <1>5, <1>6

\* An offset between two runes of a line has a position on the line.
LEMMA PositionMeans ==
  ASSUME NEW S, NEW c \in Seq(S), NEW l \in 0..Len(LineStart(c)) - 1
  PROVE  LET a == LineStart(c)[l + 1]
             line == Slice(c, a, LineEnd(c, l))
             f == AfterRunes(line)
         IN  \A k \in 0..Len(line) :
               OffsetToPosition(c, a + f[k].bytes) = Position(l, f[k].units)
<1> DEFINE s == LineStart(c)
           a == s[l + 1]
           e == LineEnd(c, l)
           line == Slice(c, a, e)
           f == AfterRunes(line)
           M == Len(line)
<1>1. LineFrom(c, l, a, e)
  BY LineEnds
<1>2. /\ a \in 0..Len(c) /\ e \in a..Len(c)
      /\ \A o \in a..e : Max({k \in DOMAIN s : s[k] <= o}) = l + 1
  BY <1>1 DEF LineFrom
<1>3. line \in Seq(S) /\ Len(line) = e - a /\ \A i \in 1..(e - a) : line[i] = c[a + i]
  BY <1>2, PartProperties DEF Part, Slice
<1>4. M \in Nat /\ \A k \in 0..M : f[k] \in RunesBehind /\ f[k].bytes \in k..M
  BY <1>3, AfterProperties, LenProperties
<1> SUFFICES ASSUME NEW k \in 0..M
             PROVE  OffsetToPosition(c, a + f[k].bytes) = Position(l, f[k].units)
  OBVIOUS
<1> DEFINE b == f[k].bytes
           o == a + b
<1>5. UTF16Count(Part(line, 0, b)) = f[k].units
  BY <1>3, UnitsOfPart
<1> HIDE DEF a, e, line, f
<1>6. b \in 0..M /\ o \in a..e /\ o - a = b
  <2>1. M = e - a /\ b \in k..M /\ k \in 0..M
    BY <1>3, <1>4
  <2> HIDE DEF M, b
  <2> QED
    BY <1>2, <1>4, <2>1
<1> HIDE DEF b, o
<1>7. Part(line, 0, b) = Slice(c, a, o)
  <2> DEFINE u == Part(line, 0, b)
             v == Part(c, a, o)
  <2>1. 0 \in 0..Len(line) /\ b \in 0..Len(line)
    BY <1>4, <1>6
  <2>2. u \in Seq(S) /\ Len(u) = b - 0 /\ \A i \in 1..(b - 0) : u[i] = line[0 + i]
    BY <1>3, <2>1, PartProperties
  <2>3. a \in 0..Len(c) /\ o \in a..Len(c)
    BY <1>2, <1>6
  <2>4. v \in Seq(S) /\ Len(v) = o - a /\ \A i \in 1..(o - a) : v[i] = c[a + i]
    BY <2>3, PartProperties, Zenon
  <2> HIDE DEF u, v
  <2>5. \A i \in 1..b : u[i] = v[i]
    <3> SUFFICES ASSUME NEW i \in 1..b PROVE u[i] = v[i]
      OBVIOUS
    <3>1. i \in 1..(e - a) /\ 0 + i = i /\ b - 0 = b
      BY <1>2, <1>3, <1>6
    <3> QED
      BY <1>3, <1>6, <2>2, <2>4, <3>1
  <2>6. Len(u) = b /\ Len(v) = b
    BY <1>6, <2>2, <2>4
  <2>7. u = v
    BY <2>2, <2>4, <2>5, <2>6, SeqEqual
  <2> QED
    BY <2>7 DEF u, v, Part, Slice
<1>8. Max({j \in DOMAIN s : s[j] <= o}) = l + 1
  BY <1>2, <1>6
<1>9. OffsetToPosition(c, o) = Position((l + 1) - 1, UTF16Count(Slice(c, s[l + 1], o)))
  BY <1>8 DEF OffsetToPosition
<1>10. (l + 1) - 1 = l
  OBVIOUS
<1> QED
  BY <1>5, <1>7, <1>9, <1>10 DEF a, b, o

\* What PositionsMap says of a line.
LineMaps(c, l) ==
  LET a == LineStart(c)[l + 1]
      line == Slice(c, a, LineEnd(c, l))
      ends == {a + AfterRunes(line)[k].bytes : k \in 0 .. Len(line)}
  IN  /\ \A o \in ends : PositionToOffset(c, OffsetToPosition(c, o)) = o
      /\ \A n \in Nat :
           /\ PositionToOffset(c, Position(l, n)) \in ends
           /\ LET o == PositionToOffset(c, Position(l, n))
              IN  ~(o > 0 /\ o < Len(c) /\ c[o] = CR /\ c[o + 1] = NL)
      /\ \A m, n \in Nat :
           m <= n => PositionToOffset(c, Position(l, m)) <= PositionToOffset(c, Position(l, n))
      /\ UTF16Count(line) \in Nat

\* The three parts of it follow from where the loop stops first.
LEMMA LinesMap ==
  ASSUME NEW S, NEW c \in Seq(S), NEW l \in 0..Len(LineStart(c)) - 1
  PROVE  LineMaps(c, l)
<1> DEFINE a == LineStart(c)[l + 1]
           e == LineEnd(c, l)
           line == Slice(c, a, e)
           f == AfterRunes(line)
           M == Len(line)
           At(n) == PositionToOffset(c, Position(l, n))
           ends == {a + f[k].bytes : k \in 0..M}
<1>1. LineFrom(c, l, a, e)
  BY LineEnds
<1>2. /\ a \in 0..Len(c) /\ e \in a..Len(c)
      /\ \A o \in a..e : ~(o > 0 /\ o < Len(c) /\ c[o] = CR /\ c[o + 1] = NL)
  BY <1>1 DEF LineFrom
<1>3. line \in Seq(S) /\ Len(line) = e - a
  BY <1>2, PartProperties DEF Part, Slice
<1>4. /\ M \in Nat
      /\ \A k \in 0..M : f[k] \in RunesBehind /\ f[k].bytes \in k..M
      /\ \A j \in 0..M : \A k \in j..M : LeavesMore(f, j, k)
  BY <1>3, AfterProperties, LenProperties
<1>5. \A n \in Nat : \E k \in 0..M :
        /\ At(n) = a + f[k].bytes
        /\ Stops(f, M, n, k)
        /\ \A j \in 0..M : Stops(f, M, n, j) => f[k].bytes <= f[j].bytes
  BY OffsetMeans
<1>6. \A k \in 0..M : OffsetToPosition(c, a + f[k].bytes) = Position(l, f[k].units)
  BY PositionMeans
<1>7. UTF16Count(line) \in Nat
  <2>1. f[M] \in RunesBehind
    BY <1>4
  <2> QED
    BY <2>1 DEF UTF16Count, RunesBehind
<1>8. M = e - a
  BY <1>3
<1> HIDE DEF e, line, f, M, a
<1>9. ASSUME NEW k \in 0..M PROVE PositionToOffset(c, OffsetToPosition(c, a + f[k].bytes)) = a + f[k].bytes
  <2> DEFINE n == f[k].units
  <2>1. n \in Nat /\ f[k].bytes \in Nat
    BY <1>4 DEF RunesBehind
  <2>2. PICK i \in 0..M : /\ At(n) = a + f[i].bytes
                          /\ Stops(f, M, n, i)
                          /\ \A j \in 0..M : Stops(f, M, n, j) => f[i].bytes <= f[j].bytes
    BY <1>5, <2>1
  <2>3. f[i].bytes \in 0..M /\ f[i].units \in Nat /\ f[k].bytes \in 0..M
    BY <1>4 DEF RunesBehind
  <2>4. Stops(f, M, n, k)
    BY <2>1 DEF Stops
  <2>5. f[i].bytes <= f[k].bytes
    BY <2>2, <2>4
  <2>6. ~(f[i].bytes < f[k].bytes)
    <3> SUFFICES ASSUME f[i].bytes < f[k].bytes PROVE FALSE
      OBVIOUS
    <3>1. f[i].units >= f[k].units
      BY <2>2, <2>3 DEF Stops
    <3>2. i <= k \/ k <= i
      OBVIOUS
    <3>3. CASE i <= k
      <4>1. k \in i..M
        BY <1>4, <3>3
      <4>2. LeavesMore(f, i, k)
        BY <1>4, <4>1
      <4> QED
        BY <2>1, <2>3, <3>1, <4>2 DEF LeavesMore
    <3>4. CASE k <= i
      <4>1. i \in k..M
        BY <1>4, <3>4
      <4>2. LeavesMore(f, k, i)
        BY <1>4, <4>1
      <4> QED
        BY <2>3, <4>2 DEF LeavesMore
    <3> QED
      BY <3>2, <3>3, <3>4
  <2>7. f[i].bytes = f[k].bytes
    BY <2>3, <2>5, <2>6
  <2> HIDE DEF n
  <2>8. OffsetToPosition(c, a + f[k].bytes) = Position(l, n)
    BY <1>6 DEF n
  <2> QED
    BY <2>2, <2>7, <2>8
<1>10. ASSUME NEW n \in Nat
       PROVE  At(n) \in ends /\ ~(At(n) > 0 /\ At(n) < Len(c) /\ c[At(n)] = CR /\ c[At(n) + 1] = NL)
  <2>1. PICK k \in 0..M : At(n) = a + f[k].bytes
    BY <1>5
  <2>2. f[k].bytes \in 0..M
    BY <1>4
  <2>3. a + f[k].bytes \in a..e
    BY <1>2, <1>8, <2>2
  <2> QED
    BY <1>2, <2>1, <2>3
<1>11. ASSUME NEW m \in Nat, NEW n \in Nat, m <= n PROVE At(m) <= At(n)
  <2>1. PICK j \in 0..M : /\ At(m) = a + f[j].bytes
                          /\ \A i \in 0..M : Stops(f, M, m, i) => f[j].bytes <= f[i].bytes
    BY <1>5
  <2>2. PICK k \in 0..M : At(n) = a + f[k].bytes /\ Stops(f, M, n, k)
    BY <1>5
  <2>3. f[j].bytes \in 0..M /\ f[k].bytes \in 0..M /\ f[k].units \in Nat
    BY <1>4 DEF RunesBehind
  <2>4. Stops(f, M, m, k)
    BY <1>11, <2>2, <2>3 DEF Stops
  <2>5. f[j].bytes <= f[k].bytes
    BY <2>1, <2>4
  <2>6. At(m) = a + f[j].bytes /\ At(n) = a + f[k].bytes /\ a \in Int
    BY <1>2, <2>1, <2>2
  <2> HIDE DEF At
  <2> QED
    BY <2>3, <2>5, <2>6
<1> HIDE DEF ends
<1>12. \A o \in ends : PositionToOffset(c, OffsetToPosition(c, o)) = o
  BY <1>9 DEF ends
<1> HIDE DEF At
<1> QED
  BY <1>7, <1>10, <1>11, <1>12 DEF LineMaps, a, e, line, f, M, ends, At

\* In every document, with runes of any size, whole or broken, and any line
\* ends: offsets between runes come back from their positions, and a position
\* past the end of its line or inside of a rune is taken for one on the line,
\* not inside of its ending, and no earlier than positions before it
\* (mapper.go:81-84).
THEOREM FormattingPositionsMap == Spec => []PositionsMap
<1>1. DiffAnswered => PositionsMap
  <2> SUFFICES ASSUME DiffAnswered, answer = Silent PROVE PositionsMap
    BY DEF PositionsMap
  <2>1. content \in Seq(STRING)
    BY DEF DiffAnswered
  <2>2. ASSUME NEW l \in 0..Len(LineStart(content)) - 1 PROVE LineMaps(content, l)
    BY <2>1, LinesMap
  <2>3. ASSUME NEW u \in Nat PROVE /\ \A n \in 0..u + 1 : n \in Nat
                                   /\ \A n \in 1..u + 1 : n - 1 \in Nat /\ n \in Nat /\ n - 1 <= n
    OBVIOUS
  <2> QED
    BY <2>2, <2>3 DEF PositionsMap, LineMaps
<1> QED
  BY <1>1, DiffAnsweredHolds, PTL
=============================================================================
