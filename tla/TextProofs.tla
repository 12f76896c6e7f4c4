----------------------------- MODULE TextProofs ------------------------------
(***************************************************************************)
(* Theorems about the two parts that work on offsets in a text: sema.Apply *)
(* (FixApply), for contents of any size and any fixes, and syntax.Lex      *)
(* (Lexer), for any source.                                                *)
(***************************************************************************)
EXTENDS FixApply, Lexer, Induction, SequenceTheorems, TLAPS

-----------------------------------------------------------------------------
(***************************************************************************)
(* FixApply: the data.                                                     *)
(***************************************************************************)
LEMMA FixesTyped ==
  ASSUME fixes \in Input
  PROVE  /\ fixes \in Seq(Fix)
         /\ Len(fixes) \in Nat
         /\ DOMAIN fixes = Index
         /\ \A i \in Index : fixes[i] \in Fix /\ i \in Nat /\ i > 0
  BY InputAssumption DEF Index

LEMMA PlaceTyped ==
  ASSUME fixes \in Input, NEW i \in Index, NEW p \in EditsOf(i)
  PROVE  /\ p = <<i, p[2]>> /\ p[1] = i /\ i \in Nat /\ i > 0 /\ p[2] \in Nat
         /\ p[2] \in DOMAIN fixes[i]
         /\ p \in Place
         /\ fixes[i][p[2]] \in Edit
         /\ Start(p) \in Int /\ End(p) \in Int
<1>1. fixes[i] \in Seq(Edit) /\ i \in Nat /\ i > 0
  BY FixesTyped DEF Fix
<1>2. PICK j \in DOMAIN fixes[i] : p = <<i, j>>
  BY DEF EditsOf
<1>3. j \in Nat /\ fixes[i][j] \in Edit
  BY <1>1
<1>4. p \in Place
  BY DEF Place
<1>5. QED
  BY <1>1, <1>2, <1>3, <1>4 DEF Start, End, Edit

LEMMA ContentTyped ==
  /\ Content \in Seq(Item) /\ Len(Content) = Size
  /\ \A k \in 1..Size : Content[k] = <<0, k - 1>>
<1>1. \A k \in 1..Size : <<0, k - 1>> \in Item
  BY InputAssumption DEF Item
<1>2. QED
  BY <1>1, InputAssumption DEF Content

\* The edits of the accepted fixes are places of the argument.
LEMMA TakenTyped ==
  ASSUME TypeOK, NEW p \in Taken
  PROVE  p[1] \in accepted /\ p[1] \in valid /\ p[1] \in Index /\ p \in EditsOf(p[1])
<1>1. PICK i \in accepted : p \in EditsOf(i)
  BY DEF Taken
<1>2. i \in Index /\ i \in valid
  BY DEF TypeOK
<1>3. p[1] = i
  BY <1>1, <1>2, PlaceTyped DEF TypeOK
<1>4. QED
  BY <1>1, <1>2, <1>3

\* Cutting the span from a to b out of s and putting t there gives r.
IsSplice(r, s, t, a, b) ==
  /\ Len(r) = a + Len(t) + (Len(s) - b)
  /\ \A k \in 1..a : r[k] = s[k]
  /\ \A k \in 1..Len(t) : r[a + k] = t[k]
  /\ \A k \in (b + 1)..Len(s) : r[k - b + a + Len(t)] = s[k]

LEMMA Spliced ==
  ASSUME NEW S, NEW s \in Seq(S), NEW t \in Seq(S),
         NEW a \in Nat, NEW b \in Nat, a <= b, b <= Len(s),
         NEW r, r = SubSeq(s, 1, a) \o t \o SubSeq(s, b + 1, Len(s))
  PROVE  r \in Seq(S) /\ IsSplice(r, s, t, a, b)
<1> DEFINE u == SubSeq(s, 1, a)
           v == SubSeq(s, b + 1, Len(s))
           w == u \o t
           c == w \o v
<1>1. Len(s) \in Nat /\ Len(t) \in Nat
  OBVIOUS
<1>2. u \in Seq(S) /\ Len(u) = a /\ \A k \in 1..a : u[k] = s[k]
  BY <1>1, SubSeqProperties, \A i \in 1..a : s[i] \in S
<1>3. /\ v \in Seq(S) /\ Len(v) = Len(s) - b
      /\ \A k \in 1..(Len(s) - b) : v[k] = s[b + k]
  BY <1>1, SubSeqProperties, \A i \in (b + 1)..Len(s) : s[i] \in S
<1>4. /\ w \in Seq(S) /\ Len(w) = a + Len(t)
      /\ \A k \in 1..(a + Len(t)) : w[k] = IF k <= a THEN u[k] ELSE t[k - a]
  BY <1>2, ConcatProperties
<1>5. /\ r \in Seq(S) /\ Len(r) = a + Len(t) + (Len(s) - b)
      /\ \A k \in 1..(a + Len(t) + (Len(s) - b)) :
           r[k] = IF k <= a + Len(t) THEN w[k] ELSE v[k - (a + Len(t))]
<2>0. w \in Seq(S) /\ v \in Seq(S)
  BY <1>3, <1>4
<2>1. Len(w) = a + Len(t) /\ Len(v) = Len(s) - b
  BY <1>3, <1>4
<2> HIDE DEF w, v
<2>2. /\ c \in Seq(S) /\ Len(c) = Len(w) + Len(v)
      /\ \A k \in 1..(Len(w) + Len(v)) : c[k] = IF k <= Len(w) THEN w[k] ELSE v[k - Len(w)]
  BY <2>0, ConcatProperties
<2>3. r = c
  BY DEF w, v
<2> HIDE DEF c
<2>4. QED
  BY <2>0, <2>1, <2>2, <2>3
<1> HIDE DEF w, v, u
<1>6. \A k \in 1..a : r[k] = s[k]
<2> TAKE k \in 1..a
<2>1. k \in 1..(a + Len(t)) /\ k \in 1..(a + Len(t) + (Len(s) - b)) /\ k <= a + Len(t) /\ k <= a
  BY <1>1
<2>2. QED
  BY <2>1, <1>2, <1>4, <1>5
<1>7. \A k \in 1..Len(t) : r[a + k] = t[k]
<2> TAKE k \in 1..Len(t)
<2>1. /\ a + k \in 1..(a + Len(t)) /\ a + k \in 1..(a + Len(t) + (Len(s) - b))
      /\ a + k <= a + Len(t) /\ ~(a + k <= a) /\ a + k - a = k
  BY <1>1
<2>2. r[a + k] = w[a + k]
  BY <2>1, <1>5
<2>3. w[a + k] = t[a + k - a]
  BY <2>1, <1>4
<2>4. QED
  BY <2>1, <2>2, <2>3
<1>8. \A k \in (b + 1)..Len(s) : r[k - b + a + Len(t)] = s[k]
<2> TAKE k \in (b + 1)..Len(s)
<2> DEFINE m == k - b + a + Len(t)
<2>1. /\ m \in 1..(a + Len(t) + (Len(s) - b)) /\ ~(m <= a + Len(t))
      /\ m - (a + Len(t)) = k - b /\ k - b \in 1..(Len(s) - b) /\ b + (k - b) = k
  BY <1>1
<2>2. r[m] = v[k - b] /\ v[k - b] = s[k]
  <3> HIDE DEF m
  <3> QED  BY <2>1, <1>3, <1>5
<2>3. QED
  BY <2>2
<1>9. QED
  BY <1>5, <1>6, <1>7, <1>8 DEF IsSplice

-----------------------------------------------------------------------------
(***************************************************************************)
(* The inductive invariant.                                                *)
(***************************************************************************)
\* What the first loop found of the fixes that it admitted.
ValidSound ==
  \A i \in valid : ~SelfOverlaps(i) /\ \A p \in EditsOf(i) : InRange(p)

\* What the second loop found of the fixes that it accepted.
AcceptedDisjoint ==
  \A i, k \in accepted : i # k => \A p \in EditsOf(i), q \in EditsOf(k) : ~Overlap(p, q)

\* What is untouched while a loop runs.
Untouched ==
  /\ pc = "check" => accepted = {} /\ pending = {} /\ out = Content
  /\ pc = "accept" => pending = {} /\ out = Content
  /\ pc = "failed" => accepted = {} /\ pending = {}
  /\ pc = "done" => pending = {}

\* The edits that are made are the last ones.
LastFirst == Walked => \A p \in pending, q \in Made : Before(p, q)

IInv == TypeOK /\ ValidSound /\ AcceptedDisjoint /\ Untouched /\ LastFirst
        /\ EarlierOffsetsValid /\ MadeAtOnce

LEMMA AcceptedInRange ==
  ASSUME TypeOK, ValidSound, NEW p \in Taken
  PROVE  /\ InRange(p) /\ Start(p) \in Nat /\ End(p) \in Nat
         /\ p[1] \in Nat /\ p[1] > 0 /\ p[2] \in Nat /\ p = <<p[1], p[2]>>
         /\ p[2] \in DOMAIN fixes[p[1]] /\ fixes[p[1]][p[2]] \in Edit
         /\ p \in Place /\ p \in Item
<1>1. p[1] \in valid /\ p[1] \in Index /\ p \in EditsOf(p[1])
  BY TakenTyped
<1>2. InRange(p)
  BY <1>1 DEF ValidSound
<1>3. /\ p = <<p[1], p[2]>> /\ p[1] \in Nat /\ p[1] > 0 /\ p[2] \in Nat
      /\ p[2] \in DOMAIN fixes[p[1]] /\ fixes[p[1]][p[2]] \in Edit
      /\ p \in Place /\ Start(p) \in Int /\ End(p) \in Int
  BY <1>1, PlaceTyped DEF TypeOK
<1>4. Start(p) \in Nat /\ End(p) \in Nat
  BY <1>2, <1>3 DEF InRange
<1>5. QED
  BY <1>2, <1>3, <1>4 DEF Item

LEMMA ApartLemma ==
  ASSUME TypeOK, ValidSound, AcceptedDisjoint
  PROVE  AcceptedApart
<1> SUFFICES ASSUME NEW p \in Taken, NEW q \in Taken, Before(p, q)
             PROVE  End(p) <= Start(q)
  BY DEF AcceptedApart
<1>1. /\ p[1] \in accepted /\ p[1] \in valid /\ p \in EditsOf(p[1])
      /\ q[1] \in accepted /\ q[1] \in valid /\ q \in EditsOf(q[1])
  BY TakenTyped
<1>2. /\ Start(p) \in Nat /\ End(p) \in Nat /\ Start(q) \in Nat /\ End(q) \in Nat
      /\ Start(p) <= End(p) /\ Start(q) <= End(q)
      /\ p[1] \in Nat /\ p[2] \in Nat /\ q[1] \in Nat /\ q[2] \in Nat
  BY AcceptedInRange DEF InRange
<1>3. CASE p[1] = q[1]
  <2>1. SortsBefore(p, q) => End(p) <= Start(q)
    BY <1>1, <1>2, <1>3 DEF ValidSound, SelfOverlaps
  <2>2. SortsBefore(q, p) => End(q) <= Start(p)
    BY <1>1, <1>2, <1>3 DEF ValidSound, SelfOverlaps
  <2>3. QED
    BY <1>2, <1>3, <2>1, <2>2 DEF SortsBefore, Before, Rank, ArgumentOrder
<1>4. CASE p[1] # q[1]
  <2>1. ~Overlap(p, q)
    BY <1>1, <1>4, SMTT(20) DEF AcceptedDisjoint
  <2>2. QED
    BY <1>2, <1>4, <2>1 DEF Overlap, Before, Rank
<1>5. QED
  BY <1>3, <1>4

-----------------------------------------------------------------------------
(***************************************************************************)
(* One edit is made.  The last pending edit p leaves out[k] where it is    *)
(* up to its start, and moves what follows its end.                        *)
(***************************************************************************)
LEMMA ReplaceLemma ==
  ASSUME TypeOK, ValidSound, EarlierOffsetsValid, NEW p \in pending
  PROVE  /\ Replace(p) \in Seq(Item)
         /\ Len(Replace(p)) = Start(p) + Len(Text(p)) + (Len(out) - End(p))
         /\ \A k \in 1..Start(p) : Replace(p)[k] = out[k]
         /\ Len(Text(p)) = 1 => Replace(p)[Start(p) + 1] = p
         /\ \A k \in (End(p) + 1)..Len(out) :
              Replace(p)[k - End(p) + Start(p) + Len(Text(p))] = out[k]
         /\ Len(Text(p)) = IF p \in Taken /\ fixes[p[1]][p[2]].adds THEN 1 ELSE 0
<1>1. p \in Taken /\ out \in Seq(Item)
  BY DEF TypeOK
<1>2. /\ Start(p) \in Nat /\ End(p) \in Nat /\ Start(p) <= End(p) /\ p \in Item
      /\ fixes[p[1]][p[2]].adds \in BOOLEAN
  BY <1>1, AcceptedInRange DEF InRange, Edit
<1>3. End(p) <= Len(out)
  BY <1>2 DEF EarlierOffsetsValid
<1>4. Text(p) \in Seq(Item) /\ (Text(p) = <<p>> \/ Text(p) = <<>>)
  BY <1>2 DEF Text
<1>5. Len(Text(p)) = IF p \in Taken /\ fixes[p[1]][p[2]].adds THEN 1 ELSE 0
  BY <1>1, <1>2 DEF Text
<1>6. Len(Text(p)) = 1 => Text(p)[1] = p
  BY <1>4
<1>7. /\ Replace(p) \in Seq(Item)
      /\ Len(Replace(p)) = Start(p) + Len(Text(p)) + (Len(out) - End(p))
      /\ \A k \in 1..Start(p) : Replace(p)[k] = out[k]
      /\ \A k \in 1..Len(Text(p)) : Replace(p)[Start(p) + k] = Text(p)[k]
      /\ \A k \in (End(p) + 1)..Len(out) :
           Replace(p)[k - End(p) + Start(p) + Len(Text(p))] = out[k]
<2> DEFINE r == Replace(p)  t == Text(p)  a == Start(p)  b == End(p)
<2>1. r = SubSeq(out, 1, a) \o t \o SubSeq(out, b + 1, Len(out))
  BY DEF Replace
<2>2. /\ out \in Seq(Item) /\ t \in Seq(Item) /\ a \in Nat /\ b \in Nat
      /\ a <= b /\ b <= Len(out)
  BY <1>1, <1>2, <1>3, <1>4
<2> HIDE DEF r, t, a, b
<2>3. r \in Seq(Item) /\ IsSplice(r, out, t, a, b)
  BY <2>1, <2>2, Spliced
<2>4. QED
  BY <2>3 DEF r, t, a, b, IsSplice
<1>8. Len(Text(p)) = 1 => Replace(p)[Start(p) + 1] = p
  BY <1>6, <1>7
<1>9. QED
  BY <1>5, <1>7, <1>8

\* What an action that leaves fixes alone leaves alone with it.
LEMMA SameFixes ==
  ASSUME fixes' = fixes
  PROVE  /\ Index' = Index /\ Place' = Place /\ Item' = Item /\ Content' = Content
         /\ \A i : EditsOf(i)' = EditsOf(i) /\ SelfOverlaps(i)' = SelfOverlaps(i)
  BY DEF Index, Place, Item, Content, EditsOf, SelfOverlaps, SortsBefore, Start, End

\* What comes after the end of the last pending edit comes after its text.
LEMMA TailFollows ==
  ASSUME IInv, pc = "splice", NEW p \in pending, NEW k \in DOMAIN out, k > End(p)
  PROVE  /\ Precedes(p, out[k])
         /\ \/ out[k] \in Added
            \/ out[k] \in Kept /\ out[k][1] = 0 /\ out[k][2] \in Int /\ out[k][2] >= End(p)
<1>1. TypeOK /\ ValidSound /\ p \in Taken
  BY DEF IInv, TypeOK
<1>2. /\ Start(p) \in Nat /\ End(p) \in Nat /\ Start(p) <= End(p) /\ End(p) <= Size
      /\ p[1] \in Nat /\ p[1] > 0
  BY <1>1, AcceptedInRange DEF InRange
<1>3. out[k] \in Kept \cup Added /\ k \in Nat
  BY <1>1 DEF IInv, MadeAtOnce, Walked, TypeOK
<1>4. CASE out[k] \in Added
  <2>1. out[k] \in Made /\ out[k] \in Taken
    BY <1>4 DEF Added, Made
  <2>2. Before(p, out[k])
    BY <2>1 DEF IInv, LastFirst, Walked
  <2>3. out[k][1] \in Nat /\ out[k][1] > 0
    BY <1>1, <2>1, AcceptedInRange
  <2>4. QED
    BY <1>2, <1>4, <2>2, <2>3 DEF Before, Precedes, Offset, Kind
<1>5. CASE out[k] \in Kept
  <2>1. PICK m \in 0..(Size - 1) : out[k] = <<0, m>>
    BY <1>5 DEF Kept
  <2>2. m >= End(p)
    <3>1. CASE End(p) = 0
      BY <3>1
    <3>2. CASE End(p) > 0
      <4>1. End(p) \in DOMAIN out /\ out[End(p)] = Content[End(p)]
        BY <1>1, <1>2, <3>2 DEF IInv, EarlierOffsetsValid, TypeOK
      <4>2. out[End(p)] = <<0, End(p) - 1>>
        BY <1>2, <3>2, <4>1, ContentTyped
      <4>3. Precedes(out[End(p)], out[k])
        BY <4>1, <1>2 DEF IInv, MadeAtOnce, Walked
      <4>4. QED
        BY <1>2, <2>1, <4>2, <4>3 DEF Precedes, Offset, Kind, ArgumentOrder
    <3>3. QED
      BY <1>2, <3>1, <3>2
  <2>3. Precedes(p, out[k])
    BY <1>2, <2>1, <2>2 DEF Precedes, Offset, Kind, Rank
  <2>4. QED
    BY <1>5, <2>1, <2>2, <2>3
<1>6. QED
  BY <1>3, <1>4, <1>5

\* What stands before the last pending edit comes before its text.
LEMMA HeadPrecedes ==
  ASSUME IInv, pc = "splice", NEW p \in pending, NEW k \in 1..Start(p)
  PROVE  /\ k \in DOMAIN out /\ out[k] = <<0, k - 1>>
         /\ Precedes(out[k], p)
         /\ out[k] \in Kept
<1>1. TypeOK /\ ValidSound /\ p \in Taken
  BY DEF IInv, TypeOK
<1>2. /\ Start(p) \in Nat /\ End(p) \in Nat /\ Start(p) <= End(p) /\ End(p) <= Size
      /\ p[1] \in Nat /\ p[1] > 0
  BY <1>1, AcceptedInRange DEF InRange
<1>3. k \in DOMAIN out /\ out[k] = Content[k] /\ k \in 1..Size
  BY <1>1, <1>2, InputAssumption, SMTT(20) DEF IInv, EarlierOffsetsValid, TypeOK
<1>4. out[k] = <<0, k - 1>>
  BY <1>3, ContentTyped
<1>5. Precedes(out[k], p)
  BY <1>2, <1>3, <1>4 DEF Precedes, Offset
<1>6. out[k] \in Kept \cup Added
  BY <1>3 DEF IInv, MadeAtOnce, Walked
<1>7. out[k] \notin Added
  <2> SUFFICES ASSUME out[k] \in Added PROVE FALSE
    OBVIOUS
  <2>1. out[k] \in Taken
    BY DEF Added, Made
  <2>2. QED
    BY <1>1, <1>4, <2>1, AcceptedInRange
<1>8. QED
  BY <1>3, <1>4, <1>5, <1>6, <1>7

-----------------------------------------------------------------------------
(***************************************************************************)
(* The steps.                                                              *)
(***************************************************************************)
LEMMA SplicePreserves ==
  ASSUME IInv, NEW p \in pending, Splice(p)
  PROVE  IInv'
<1> DEFINE s == Start(p)  e == End(p)  n == Len(Text(p))  new == Replace(p)
<1>1. TypeOK /\ ValidSound /\ AcceptedDisjoint /\ EarlierOffsetsValid /\ pc = "splice" /\ Walked
  BY DEF IInv, Splice, Walked
<1>2. p \in Taken /\ out \in Seq(Item) /\ pending \subseteq Taken
  BY <1>1 DEF TypeOK
<1>3. /\ s \in Nat /\ e \in Nat /\ s <= e /\ e <= Size /\ e <= Len(out)
      /\ p[1] \in Nat /\ p[1] > 0 /\ fixes[p[1]][p[2]] \in Edit
  BY <1>1, <1>2, AcceptedInRange DEF InRange, EarlierOffsetsValid
<1>4. /\ new \in Seq(Item)
      /\ Len(new) = s + n + (Len(out) - e)
      /\ \A k \in 1..s : new[k] = out[k]
      /\ n = 1 => new[s + 1] = p
      /\ \A k \in (e + 1)..Len(out) : new[k - e + s + n] = out[k]
      /\ n = IF fixes[p[1]][p[2]].adds THEN 1 ELSE 0
  BY <1>1, <1>2, ReplaceLemma
<1>5. /\ fixes' = fixes /\ pc' = pc /\ at' = at /\ valid' = valid
      /\ accepted' = accepted /\ skipped' = skipped
      /\ out' = new /\ pending' = pending \ {p}
      /\ \A q \in pending \ {p} : Before(q, p)
  BY DEF Splice
<1>6. /\ Index' = Index /\ Item' = Item /\ Content' = Content
      /\ \A i : EditsOf(i)' = EditsOf(i) /\ SelfOverlaps(i)' = SelfOverlaps(i)
  BY <1>5, SameFixes
<1>7. Taken' = Taken /\ Made' = Made \cup {p} /\ Walked'
  BY <1>1, <1>2, <1>5, <1>6 DEF Taken, Made, Walked
<1>8. TypeOK'
  BY <1>1, <1>4, <1>5, <1>6, <1>7 DEF TypeOK
<1>9. ValidSound' /\ AcceptedDisjoint' /\ Untouched'
  BY <1>1, <1>5, <1>6
  DEF ValidSound, AcceptedDisjoint, Untouched, InRange, Overlap, Start, End
<1>10. LastFirst'
  <2>1. \A q \in pending', r \in Made' : Before(q, r)
    BY <1>1, <1>5, <1>7 DEF IInv, LastFirst
  <2>2. QED
    BY <1>5, <2>1 DEF LastFirst, Before, Rank, ArgumentOrder, Start, End
<1>11. EarlierOffsetsValid'
  <2> SUFFICES ASSUME NEW q \in pending'
               PROVE  Len(new) >= End(q) /\ \A k \in 1..End(q) : new[k] = Content[k]
    BY <1>5, <1>6 DEF EarlierOffsetsValid, End
  <2>1. q \in pending /\ Before(q, p) /\ q \in Taken
    BY <1>2, <1>5
  <2>2. End(q) <= s /\ End(q) \in Nat
    BY <1>1, <1>2, <2>1, ApartLemma, AcceptedInRange DEF AcceptedApart
  <2>3. Len(new) >= End(q)
    BY <1>3, <1>4, <2>2
  <2>4. ASSUME NEW k \in 1..End(q) PROVE new[k] = Content[k]
    <3>1. k \in 1..s
      BY <1>3, <2>2
    <3>2. new[k] = out[k]
      BY <1>4, <3>1
    <3>3. out[k] = Content[k]
      BY <1>1, <2>1 DEF EarlierOffsetsValid
    <3>4. QED
      BY <3>2, <3>3
  <2>5. QED
    BY <2>3, <2>4
<1> HIDE DEF new, n, s, e
\* Where an item of the new content comes from.
<1>12. ASSUME NEW a \in DOMAIN new
       PROVE  \/ a <= s /\ a \in 1..s /\ a \in DOMAIN out /\ new[a] = out[a]
              \/ a = s + 1 /\ n = 1 /\ new[a] = p
              \/ /\ a > s + n /\ a + e - s - n > e /\ a + e - s - n \in DOMAIN out
                 /\ new[a] = out[a + e - s - n]
  <2>1. a \in 1..(s + n + (Len(out) - e)) /\ (n = 0 \/ n = 1) /\ Len(out) \in Nat
    BY <1>2, <1>4
  <2>2. CASE a <= s
    BY <1>2, <1>3, <1>4, <2>1, <2>2
  <2>3. CASE a > s /\ a <= s + n
    BY <1>3, <1>4, <2>1, <2>3, SMTT(40)
  <2>4. CASE a > s + n
    <3> DEFINE m == a + e - s - n
    <3>1. m \in (e + 1)..Len(out) /\ m - e + s + n = a /\ m > e
      BY <1>3, <2>1, <2>4, SMTT(20)
    <3>2. new[m - e + s + n] = out[m]
      BY <1>4, <3>1
    <3>3. QED
      BY <1>2, <1>3, <2>4, <3>1, <3>2
  <2>5. QED
    BY <1>3, <2>1, <2>2, <2>3, <2>4
<1>13. \A k \in DOMAIN out : k > e =>
          /\ Precedes(p, out[k])
          /\ \/ out[k] \in Added
             \/ out[k] \in Kept /\ out[k][1] = 0 /\ out[k][2] \in Int /\ out[k][2] >= e
  BY <1>1, TailFollows DEF e
<1>14. \A k \in 1..s : /\ k \in DOMAIN out /\ out[k] = <<0, k - 1>>
                       /\ Precedes(out[k], p) /\ out[k] \in Kept
  BY <1>1, HeadPrecedes DEF s
<1>15. \A a, b \in DOMAIN out : a < b => Precedes(out[a], out[b])
  BY <1>1 DEF IInv, MadeAtOnce
<1>16. ASSUME NEW a \in DOMAIN new, NEW b \in DOMAIN new, a < b
       PROVE  Precedes(new[a], new[b])
  <2>1. /\ s \in Nat /\ e \in Nat /\ s <= e /\ (n = 0 \/ n = 1)
        /\ a \in Nat /\ b \in Nat /\ a < b
    BY <1>3, <1>4, <1>16
  <2>2. CASE a <= s /\ a \in 1..s /\ a \in DOMAIN out /\ new[a] = out[a]
    <3>1. CASE b <= s /\ b \in DOMAIN out /\ new[b] = out[b]
      BY <2>1, <2>2, <3>1, <1>15
    <3>2. CASE new[b] = p
      BY <2>2, <3>2, <1>14
    <3>3. CASE /\ b + e - s - n > e /\ b + e - s - n \in DOMAIN out
               /\ new[b] = out[b + e - s - n]
      BY <2>1, <2>2, <3>3, <1>15
    <3>4. QED
      BY <1>12, <3>1, <3>2, <3>3
  <2>3. CASE a = s + 1 /\ n = 1 /\ new[a] = p
    <3>1. /\ b + e - s - n > e /\ b + e - s - n \in DOMAIN out
          /\ new[b] = out[b + e - s - n]
      BY <2>1, <2>3, <1>12
    <3>2. QED
      BY <2>3, <3>1, <1>13
  <2>4. CASE /\ a > s + n /\ a + e - s - n > e /\ a + e - s - n \in DOMAIN out
             /\ new[a] = out[a + e - s - n]
    <3>1. /\ b + e - s - n \in DOMAIN out /\ new[b] = out[b + e - s - n]
      BY <2>1, <2>4, <1>12
    <3>2. a + e - s - n < b + e - s - n
      BY <2>1
    <3>3. QED
      BY <2>4, <3>1, <3>2, <1>15
  <2>5. QED
    BY <1>12, <2>2, <2>3, <2>4
<1>17. /\ Kept' = {x \in Kept : ~(s <= x[2] /\ x[2] < e)}
       /\ Added' = Added \cup (IF n = 1 THEN {p} ELSE {})
  <2>1. Kept' = {x \in Kept : ~(s <= x[2] /\ x[2] < e)}
    BY <1>5, <1>7, SMTT(40) DEF Kept, Start, End, s, e
  <2>2. Added' = Added \cup (IF n = 1 THEN {p} ELSE {})
    BY <1>4, <1>5, <1>7 DEF Added
  <2>3. QED
    BY <2>1, <2>2
<1>18. {out[k] : k \in DOMAIN out} = Kept \cup Added
  BY <1>1 DEF IInv, MadeAtOnce
<1>19. ASSUME NEW a \in DOMAIN new PROVE new[a] \in Kept' \cup Added'
  <2>1. CASE a <= s /\ a \in 1..s /\ new[a] = out[a]
    <3>1. out[a] \in Kept /\ out[a][2] = a - 1
      BY <1>14, <2>1
    <3>2. ~(s <= out[a][2])
      BY <1>3, <2>1, <3>1
    <3>3. QED
      BY <1>17, <2>1, <3>1, <3>2
  <2>2. CASE n = 1 /\ new[a] = p
    BY <1>17, <2>2
  <2>3. CASE /\ a + e - s - n > e /\ a + e - s - n \in DOMAIN out
             /\ new[a] = out[a + e - s - n]
    <3>1. \/ new[a] \in Added
          \/ new[a] \in Kept /\ new[a][2] \in Int /\ new[a][2] >= e
      BY <1>13, <2>3
    <3>2. QED
      BY <1>3, <1>17, <3>1
  <2>4. QED
    BY <1>12, <2>1, <2>2, <2>3
<1>20. ASSUME NEW x \in Kept' \cup Added' PROVE \E a \in DOMAIN new : new[a] = x
  <2>0. Len(out) \in Nat /\ DOMAIN out = 1..Len(out) /\ (n = 0 \/ n = 1)
        /\ DOMAIN new = 1..(s + n + (Len(out) - e))
    BY <1>2, <1>4
  <2>1. CASE n = 1 /\ x = p
    <3>1. s + 1 \in DOMAIN new /\ new[s + 1] = p
      BY <1>3, <1>4, <2>0, <2>1
    <3>2. QED
      BY <2>1, <3>1
  <2>2. CASE x \in Kept' \cup Added
    <3>1. x \in Kept \cup Added
      BY <1>17, <2>2
    <3>2. PICK m \in DOMAIN out : out[m] = x
      BY <1>18, <3>1
    <3>3. CASE m <= s
      <4>1. m \in 1..s /\ m \in DOMAIN new
        BY <1>3, <2>0, <3>3
      <4>2. QED
        BY <1>4, <3>2, <4>1
    <3>4. CASE s < m /\ m <= e
      <4>1. m \in 1..e /\ out[m] = Content[m] /\ m \in 1..Size
        BY <1>1, <1>3, <2>0, <3>4, InputAssumption DEF EarlierOffsetsValid, e
      <4>2. x = <<0, m - 1>>
        BY <3>2, <4>1, ContentTyped
      <4>3. x \notin Added
        <5>1. x \in Added => x \in Taken
          BY DEF Added, Made
        <5>2. QED
          BY <1>1, <4>2, <5>1, AcceptedInRange
      <4>4. x \notin Kept'
        BY <1>3, <1>17, <2>0, <3>4, <4>2
      <4>5. QED
        BY <2>2, <4>3, <4>4
    <3>5. CASE m > e
      <4>1. m \in (e + 1)..Len(out) /\ m - e + s + n \in DOMAIN new
        BY <1>3, <2>0, <3>5, SMTT(20)
      <4>2. QED
        BY <1>4, <3>2, <4>1
    <3>6. QED
      BY <1>3, <2>0, <3>3, <3>4, <3>5
  <2>3. QED
    BY <1>17, <2>1, <2>2
<1>21. MadeAtOnce'
  <2>1. {new[k] : k \in DOMAIN new} = Kept' \cup Added'
    BY <1>19, <1>20
  <2>2. out' = new
    BY <1>5 DEF new
  <2>3. \A x, y : Precedes(x, y)' <=> Precedes(x, y)
    BY <1>5 DEF Precedes, Offset, Kind, Rank, ArgumentOrder, Start, End
  <2>4. QED
    BY <1>16, <2>1, <2>2, <2>3 DEF MadeAtOnce
<1>22. QED
  BY <1>8, <1>9, <1>10, <1>11, <1>21 DEF IInv

LEMMA InitEstablishes == Init => IInv
<1> SUFFICES ASSUME Init PROVE IInv
  OBVIOUS
<1>1. TypeOK
  BY FixesTyped, ContentTyped DEF Init, TypeOK
<1>2. Taken = {} /\ ~Walked
  BY DEF Init, Taken, Walked
<1>3. QED
  BY <1>1, <1>2
  DEF Init, IInv, ValidSound, AcceptedDisjoint, Untouched, LastFirst, EarlierOffsetsValid,
      MadeAtOnce

\* A step of the first loop, or its end, changes nothing of what is accepted.
LEMMA CheckPreserves ==
  ASSUME IInv, Fail \/ Reject \/ Admit \/ Checked
  PROVE  IInv'
<1>1. /\ TypeOK /\ ValidSound /\ pc = "check" /\ accepted = {} /\ pending = {}
      /\ fixes' = fixes /\ accepted' = {} /\ pending' = {}
  BY DEF IInv, Untouched, Fail, Reject, Admit, Checked, Checks
<1>2. /\ Index' = Index /\ Item' = Item /\ Content' = Content
      /\ \A i : EditsOf(i)' = EditsOf(i) /\ SelfOverlaps(i)' = SelfOverlaps(i)
      /\ Len(fixes) \in Nat /\ Index = 1..Len(fixes)
  BY <1>1, SameFixes, FixesTyped DEF TypeOK, Index
<1>3. Taken' = {} /\ ~Walked'
  BY <1>1, <1>2 DEF Taken, Walked, Fail, Reject, Admit, Checked, Checks
<1>4. TypeOK'
  <2>1. CASE Fail
    BY <1>1, <1>2, <1>3, <2>1 DEF TypeOK, Fail
  <2>2. CASE Reject
    <3>1. at \in Index /\ at + 1 \in 1..(Len(fixes) + 1)
      BY <1>1, <1>2, <2>2 DEF TypeOK, Reject, Checks
    <3>2. skipped' \in Seq(Index)
      BY <1>1, <2>2, <3>1 DEF TypeOK, Reject
    <3>3. QED
      BY <1>1, <1>2, <1>3, <2>2, <3>1, <3>2 DEF TypeOK, Reject
  <2>3. CASE Admit
    <3>1. at \in Index /\ at + 1 \in 1..(Len(fixes) + 1)
      BY <1>1, <1>2, <2>3 DEF TypeOK, Admit, Checks
    <3>2. QED
      BY <1>1, <1>2, <1>3, <2>3, <3>1 DEF TypeOK, Admit
  <2>4. CASE Checked
    BY <1>1, <1>2, <1>3, <2>4 DEF TypeOK, Checked
  <2>5. QED
    BY <2>1, <2>2, <2>3, <2>4
<1>5. ValidSound'
  <2>1. CASE Admit
    BY <1>1, <1>2, <2>1, SMTT(40) DEF ValidSound, Admit, InRange, Start, End
  <2>2. CASE Fail \/ Reject \/ Checked
    BY <1>1, <1>2, <2>2, ZenonT(40) DEF ValidSound, Fail, Reject, Checked, InRange, Start, End
  <2>3. QED
    BY <2>1, <2>2
<1>6. Untouched'
  BY <1>1, <1>2 DEF IInv, Untouched, Fail, Reject, Admit, Checked, Checks
<1>7. QED
  BY <1>1, <1>3, <1>4, <1>5, <1>6
  DEF IInv, AcceptedDisjoint, LastFirst, EarlierOffsetsValid, MadeAtOnce

\* A round of the second loop.
LEMMA AcceptPreserves ==
  ASSUME IInv, Pass \/ Skip \/ Accept
  PROVE  IInv'
<1>1. /\ TypeOK /\ ValidSound /\ pc = "accept" /\ pending = {} /\ out = Content
      /\ fixes' = fixes /\ pc' = pc /\ valid' = valid /\ pending' = {} /\ out' = out
      /\ at' = at + 1 /\ at <= Len(fixes)
  BY DEF IInv, Untouched, Pass, Skip, Accept, Accepts
<1>2. /\ Index' = Index /\ Item' = Item /\ Content' = Content
      /\ \A i : EditsOf(i)' = EditsOf(i) /\ SelfOverlaps(i)' = SelfOverlaps(i)
      /\ Len(fixes) \in Nat /\ Index = 1..Len(fixes)
  BY <1>1, SameFixes, FixesTyped DEF TypeOK, Index
<1>3. at \in Index /\ at' \in 1..(Len(fixes) + 1) /\ ~Walked'
  BY <1>1, <1>2 DEF TypeOK, Walked
<1>4. TypeOK'
  <2>1. skipped' \in Seq(Index)
    BY <1>1, <1>3 DEF TypeOK, Pass, Skip, Accept
  <2>2. accepted' \in SUBSET valid
    BY <1>1, <1>3 DEF TypeOK, Pass, Skip, Accept
  <2>3. QED
    BY <1>1, <1>2, <1>3, <2>1, <2>2 DEF TypeOK
<1>5. AcceptedDisjoint'
  <2>1. CASE Pass \/ Skip
    BY <1>1, <1>2, <2>1 DEF IInv, AcceptedDisjoint, Pass, Skip, Overlap, Start, End
  <2>2. CASE Accept
    <3>1. \A i, k \in accepted : i # k =>
             \A p \in EditsOf(i), q \in EditsOf(k) : ~Overlap(p, q)
      BY DEF IInv, AcceptedDisjoint
    <3>2. \A k \in accepted : \A p \in EditsOf(at), q \in EditsOf(k) :
             ~Overlap(p, q) /\ ~Overlap(q, p)
      BY <2>2 DEF Accept, Conflicts, Taken, Overlap
    <3>3. \A i, k \in accepted \cup {at} : i # k =>
             \A p \in EditsOf(i), q \in EditsOf(k) : ~Overlap(p, q)
      BY <3>1, <3>2
    <3>4. QED
      BY <1>1, <1>2, <2>2, <3>3 DEF AcceptedDisjoint, Accept, Overlap, Start, End
  <2>3. QED
    BY <2>1, <2>2
<1>6. ValidSound' /\ Untouched'
  BY <1>1, <1>2 DEF IInv, ValidSound, Untouched, InRange, Start, End
<1>7. QED
  BY <1>1, <1>3, <1>4, <1>5, <1>6 DEF IInv, LastFirst, EarlierOffsetsValid, MadeAtOnce

\* The third loop starts with the content as it is, and all edits pending.
LEMMA AcceptedPreserves ==
  ASSUME IInv, Accepted
  PROVE  IInv'
<1>1. /\ TypeOK /\ ValidSound /\ pc = "accept" /\ out = Content
      /\ fixes' = fixes /\ pc' = "splice" /\ valid' = valid /\ accepted' = accepted
      /\ skipped' = skipped /\ at' = at /\ pending' = Taken /\ out' = out
  BY DEF IInv, Untouched, Accepted
<1>2. /\ Index' = Index /\ Item' = Item /\ Content' = Content
      /\ \A i : EditsOf(i)' = EditsOf(i) /\ SelfOverlaps(i)' = SelfOverlaps(i)
  BY <1>1, SameFixes
<1>3. Taken' = Taken /\ Made' = {} /\ Added' = {} /\ Kept' = {<<0, k>> : k \in 0..(Size - 1)}
  BY <1>1, <1>2 DEF Taken, Made, Added, Kept
<1>4. TypeOK'
  BY <1>1, <1>2, <1>3 DEF TypeOK
<1>5. ValidSound' /\ AcceptedDisjoint' /\ Untouched' /\ LastFirst'
  BY <1>1, <1>2, <1>3
  DEF IInv, ValidSound, AcceptedDisjoint, Untouched, LastFirst, InRange, Overlap, Start, End
<1>6. EarlierOffsetsValid'
  <2> SUFFICES ASSUME NEW p \in Taken
               PROVE  Len(Content) >= End(p)
    BY <1>1, <1>2 DEF EarlierOffsetsValid, End
  <2>1. QED
    BY <1>1, AcceptedInRange, ContentTyped, InputAssumption DEF InRange
<1>7. MadeAtOnce'
  <2>1. DOMAIN Content = 1..Size
    BY ContentTyped DEF Content
  <2>2. {Content[k] : k \in 1..Size} = {<<0, k>> : k \in 0..(Size - 1)}
    <3>1. ASSUME NEW k \in 1..Size
          PROVE  Content[k] \in {<<0, i>> : i \in 0..(Size - 1)}
      <4>1. k - 1 \in 0..(Size - 1)
        BY InputAssumption
      <4>2. QED
        BY <4>1, ContentTyped
    <3>2. ASSUME NEW k \in 0..(Size - 1)
          PROVE  <<0, k>> \in {Content[i] : i \in 1..Size}
      <4>1. k + 1 \in 1..Size /\ k + 1 - 1 = k
        BY InputAssumption
      <4>2. QED
        BY <4>1, ContentTyped
    <3>3. QED
      BY <3>1, <3>2
  <2>3. ASSUME NEW a \in 1..Size, NEW b \in 1..Size, a < b
        PROVE  Precedes(Content[a], Content[b])'
    <3>1. Content[a] = <<0, a - 1>> /\ Content[b] = <<0, b - 1>>
      BY ContentTyped
    <3>2. a - 1 < b - 1
      BY <2>3, InputAssumption
    <3>3. QED
      BY <1>2, <3>1, <3>2 DEF Precedes, Offset
  <2>4. QED
    BY <1>1, <1>2, <1>3, <2>1, <2>2, <2>3 DEF MadeAtOnce
<1>8. QED
  BY <1>4, <1>5, <1>6, <1>7 DEF IInv

LEMMA ReturnPreserves ==
  ASSUME IInv, Return
  PROVE  IInv'
<1>1. /\ pending = {} /\ fixes' = fixes /\ valid' = valid /\ accepted' = accepted
      /\ skipped' = skipped /\ at' = at /\ pending' = pending /\ out' = out
      /\ Walked /\ Walked' /\ pc' = "done"
  BY DEF Return, Walked
<1>2. /\ Index' = Index /\ Item' = Item /\ Content' = Content
      /\ \A i : EditsOf(i)' = EditsOf(i) /\ SelfOverlaps(i)' = SelfOverlaps(i)
  BY <1>1, SameFixes
<1>3. Taken' = Taken /\ Made' = Made /\ Added' = Added /\ Kept' = Kept
  BY <1>1, <1>2 DEF Taken, Made, Added, Kept, Start, End
<1>4. TypeOK' /\ ValidSound' /\ AcceptedDisjoint' /\ Untouched' /\ LastFirst'
  BY <1>1, <1>2, <1>3
  DEF IInv, TypeOK, ValidSound, AcceptedDisjoint, Untouched, LastFirst, InRange, Overlap,
      Start, End
<1>5. EarlierOffsetsValid'
  BY <1>1 DEF EarlierOffsetsValid
<1>6. MadeAtOnce'
  BY <1>1, <1>3
  DEF IInv, MadeAtOnce, Precedes, Offset, Kind, Rank, ArgumentOrder, Start, End
<1>7. QED
  BY <1>4, <1>5, <1>6 DEF IInv

LEMMA StutterPreserves ==
  ASSUME IInv, UNCHANGED vars
  PROVE  IInv'
<1>1. /\ fixes' = fixes /\ pc' = pc /\ at' = at /\ valid' = valid /\ accepted' = accepted
      /\ skipped' = skipped /\ pending' = pending /\ out' = out /\ Walked' = Walked
  BY DEF vars, Walked
<1>2. /\ Index' = Index /\ Item' = Item /\ Content' = Content
      /\ \A i : EditsOf(i)' = EditsOf(i) /\ SelfOverlaps(i)' = SelfOverlaps(i)
  BY <1>1, SameFixes
<1>3. Taken' = Taken /\ Made' = Made /\ Added' = Added /\ Kept' = Kept
  BY <1>1, <1>2 DEF Taken, Made, Added, Kept, Start, End
<1>4. TypeOK' /\ ValidSound' /\ AcceptedDisjoint' /\ Untouched'
  BY <1>1, <1>2, <1>3
  DEF IInv, TypeOK, ValidSound, AcceptedDisjoint, Untouched, InRange, Overlap, Start, End
<1>5. LastFirst' /\ EarlierOffsetsValid'
  BY <1>1, <1>2, <1>3
  DEF IInv, LastFirst, EarlierOffsetsValid, Before, Rank, ArgumentOrder, Start, End
<1>6. MadeAtOnce'
  BY <1>1, <1>3
  DEF IInv, MadeAtOnce, Precedes, Offset, Kind, Rank, ArgumentOrder, Start, End
<1>7. QED
  BY <1>4, <1>5, <1>6 DEF IInv

\* Each of the loops of Apply keeps what the ones behind it rest on.
THEOREM FixApplyInvariant == Spec => []IInv
<1>1. Init => IInv
  BY InitEstablishes
<1>2. IInv /\ [Next]_vars => IInv'
  <2> SUFFICES ASSUME IInv, [Next]_vars PROVE IInv'
    OBVIOUS
  <2>1. CASE Fail \/ Reject \/ Admit \/ Checked
    BY <2>1, CheckPreserves
  <2>2. CASE Pass \/ Skip \/ Accept
    BY <2>2, AcceptPreserves
  <2>3. CASE Accepted
    BY <2>3, AcceptedPreserves
  <2>4. ASSUME NEW p \in pending, Splice(p) PROVE IInv'
    BY <2>4, SplicePreserves
  <2>5. CASE Return
    BY <2>5, ReturnPreserves
  <2>6. CASE UNCHANGED vars
    BY <2>6, StutterPreserves
  <2>7. QED
    BY <2>1, <2>2, <2>3, <2>4, <2>5, <2>6 DEF Next
<1>3. QED
  BY <1>1, <1>2, PTL DEF Spec

-----------------------------------------------------------------------------
(***************************************************************************)
(* Which fixes are skipped, and why.                                       *)
(***************************************************************************)
\* The fixes that are dealt with, and not taken.
GivenUp ==
  CASE pc \in {"check", "failed"} -> {i \in Index : i < at /\ i \notin valid}
    [] pc = "accept" -> {i \in Index : i \notin valid \/ (i < at /\ i \notin accepted)}
    [] pc \in {"splice", "done"} -> Index \ accepted

HasCause(i) ==
  \/ SelfOverlaps(i)
  \/ \E k \in accepted : k < i /\ \E p \in EditsOf(i), q \in EditsOf(k) : Overlap(p, q)

SkipInv ==
  /\ pc = "check" => \A i \in valid : i < at
  /\ pc = "accept" => \A i \in accepted : i < at
  /\ {skipped[a] : a \in DOMAIN skipped} = GivenUp
  /\ \A a, b \in DOMAIN skipped : skipped[a] = skipped[b] => a = b
  /\ \A i \in GivenUp : HasCause(i)

LEMMA AppendedSkip ==
  ASSUME TypeOK, NEW i \in Index
  PROVE  LET r == Append(skipped, i)
         IN  /\ {r[a] : a \in DOMAIN r} = {skipped[a] : a \in DOMAIN skipped} \cup {i}
             /\ /\ i \notin {skipped[a] : a \in DOMAIN skipped}
                /\ \A a, b \in DOMAIN skipped : skipped[a] = skipped[b] => a = b
                => \A a, b \in DOMAIN r : r[a] = r[b] => a = b
<1> DEFINE r == Append(skipped, i)  n == Len(skipped)
<1>1. /\ n \in Nat /\ DOMAIN skipped = 1..n /\ DOMAIN r = 1..(n + 1)
      /\ \A a \in 1..n : r[a] = skipped[a]
      /\ r[n + 1] = i
  BY DEF TypeOK
<1> HIDE DEF r, n
<1>2. 1..(n + 1) = (1..n) \cup {n + 1}
  BY <1>1
<1>3. {r[a] : a \in DOMAIN r} = {skipped[a] : a \in DOMAIN skipped} \cup {i}
  BY <1>1, <1>2
<1>4. ASSUME i \notin {skipped[a] : a \in DOMAIN skipped},
             \A a, b \in DOMAIN skipped : skipped[a] = skipped[b] => a = b,
             NEW a \in DOMAIN r, NEW b \in DOMAIN r, r[a] = r[b]
      PROVE  a = b
  BY <1>1, <1>2, <1>4
<1>5. QED
  BY <1>3, <1>4 DEF r

LEMMA SkipPreserved ==
  ASSUME IInv, SkipInv, [Next]_vars
  PROVE  SkipInv'
<1>0. TypeOK /\ Untouched
  BY DEF IInv
<1>1. Len(fixes) \in Nat /\ Index = 1..Len(fixes) /\ at \in Nat /\ at >= 1
      /\ valid \subseteq Index /\ accepted \subseteq valid
      /\ (\A i \in valid : i \in Nat) /\ (\A i \in accepted : i \in Nat)
  BY <1>0, FixesTyped DEF TypeOK, Index
<1>2. fixes' = fixes
  BY DEF Next, vars, Fail, Reject, Admit, Checked, Pass, Skip, Accept, Accepted, Splice, Return
<1>3. /\ Index' = Index
      /\ \A i : EditsOf(i)' = EditsOf(i) /\ SelfOverlaps(i)' = SelfOverlaps(i)
      /\ \A p, q : Overlap(p, q)' = Overlap(p, q)
  BY <1>2, SameFixes DEF Overlap, Start, End
<1>4. ASSUME accepted \subseteq accepted'
      PROVE  \A i : HasCause(i) => HasCause(i)'
  BY <1>3, <1>4 DEF HasCause
<1>5. CASE Fail
  <2>1. GivenUp' = GivenUp /\ skipped' = skipped /\ accepted' = accepted
    BY <1>3, <1>5 DEF GivenUp, Fail, Checks
  <2>2. pc' = "failed"
    BY <1>5 DEF Fail
  <2>3. QED
    BY <1>4, <2>1, <2>2 DEF SkipInv
<1>6. CASE Reject
  <2>1. at \in Index /\ SelfOverlaps(at) /\ at \notin valid
        /\ skipped' = Append(skipped, at) /\ at' = at + 1 /\ valid' = valid
        /\ accepted' = accepted /\ pc = "check" /\ pc' = "check"
    BY <1>1, <1>6 DEF Reject, Checks, SkipInv
  <2>2. GivenUp' = GivenUp \cup {at} /\ at \notin GivenUp
    BY <1>1, <1>3, <2>1 DEF GivenUp
  <2>3. {skipped[a] : a \in DOMAIN skipped}' = GivenUp'
    BY <1>0, <2>1, <2>2, AppendedSkip DEF SkipInv
  <2>4. (\A a, b \in DOMAIN skipped : skipped[a] = skipped[b] => a = b)'
    BY <1>0, <2>1, <2>2, AppendedSkip DEF SkipInv
  <2>5. \A i : i = at => HasCause(i)'
    BY <1>3, <2>1 DEF HasCause
  <2>6. \A i \in GivenUp' : HasCause(i)'
    BY <1>4, <2>1, <2>2, <2>5 DEF SkipInv
  <2>7. \A i \in valid' : i < at'
    BY <1>1, <2>1 DEF SkipInv
  <2>8. QED
    BY <2>1, <2>3, <2>4, <2>6, <2>7 DEF SkipInv
<1>7. CASE Admit
  <2>1. at \in Index /\ skipped' = skipped /\ at' = at + 1 /\ valid' = valid \cup {at}
        /\ accepted' = accepted /\ pc = "check" /\ pc' = "check"
    BY <1>1, <1>7 DEF Admit, Checks
  <2>2. GivenUp' = GivenUp
    BY <1>1, <1>3, <2>1 DEF GivenUp
  <2>3. \A i \in valid' : i < at'
    BY <1>1, <2>1 DEF SkipInv
  <2>4. QED
    BY <1>4, <2>1, <2>2, <2>3 DEF SkipInv
<1>8. CASE Checked
  <2>1. at > Len(fixes) /\ skipped' = skipped /\ at' = 1 /\ valid' = valid
        /\ accepted' = accepted /\ pc = "check" /\ pc' = "accept"
    BY <1>8 DEF Checked
  <2>2. GivenUp' = GivenUp
    BY <1>1, <1>3, <2>1 DEF GivenUp
  <2>3. \A i \in accepted' : i < at'
    <3>1. accepted = {}
      BY <1>0, <2>1 DEF Untouched
    <3>2. QED
      BY <2>1, <3>1
  <2>4. QED
    BY <1>4, <2>1, <2>2, <2>3 DEF SkipInv
<1>9. CASE Pass
  <2>1. at \notin valid /\ skipped' = skipped /\ at' = at + 1 /\ valid' = valid
        /\ accepted' = accepted /\ pc = "accept" /\ pc' = "accept"
    BY <1>9 DEF Pass, Accepts
  <2>2. GivenUp' = GivenUp
    BY <1>1, <1>3, <2>1 DEF GivenUp
  <2>3. \A i \in accepted' : i < at'
    BY <1>1, <2>1 DEF SkipInv
  <2>4. QED
    BY <1>4, <2>1, <2>2, <2>3 DEF SkipInv
<1>10. CASE Skip
  <2>1. at \in valid /\ at \in Index /\ Conflicts(at)
        /\ skipped' = Append(skipped, at) /\ at' = at + 1 /\ valid' = valid
        /\ accepted' = accepted /\ pc = "accept" /\ pc' = "accept"
    BY <1>1, <1>10 DEF Skip, Accepts
  <2>2. GivenUp' = GivenUp \cup {at} /\ at \notin GivenUp
    BY <1>1, <1>3, <2>1 DEF GivenUp, SkipInv
  <2>3. {skipped[a] : a \in DOMAIN skipped}' = GivenUp'
    BY <1>0, <2>1, <2>2, AppendedSkip DEF SkipInv
  <2>4. (\A a, b \in DOMAIN skipped : skipped[a] = skipped[b] => a = b)'
    BY <1>0, <2>1, <2>2, AppendedSkip DEF SkipInv
  <2>5. HasCause(at)
    <3>1. PICK k \in accepted : \E p \in EditsOf(at), q \in EditsOf(k) : Overlap(p, q)
      BY <2>1 DEF Conflicts, Taken
    <3>2. k < at
      BY <2>1 DEF SkipInv
    <3>3. QED
      BY <3>1, <3>2 DEF HasCause
  <2>6. \A i \in GivenUp' : HasCause(i)'
    BY <1>4, <2>1, <2>2, <2>5 DEF SkipInv
  <2>7. \A i \in accepted' : i < at'
    BY <1>1, <2>1 DEF SkipInv
  <2>8. QED
    BY <2>1, <2>3, <2>4, <2>6, <2>7 DEF SkipInv
<1>11. CASE Accept
  <2>1. at \in valid /\ skipped' = skipped /\ at' = at + 1 /\ valid' = valid
        /\ accepted' = accepted \cup {at} /\ pc = "accept" /\ pc' = "accept"
    BY <1>11 DEF Accept, Accepts
  <2>2. GivenUp' = GivenUp
    BY <1>1, <1>3, <2>1 DEF GivenUp
  <2>3. \A i \in accepted' : i < at'
    BY <1>1, <2>1 DEF SkipInv
  <2>4. QED
    BY <1>4, <2>1, <2>2, <2>3 DEF SkipInv
<1>12. CASE Accepted
  <2>1. at > Len(fixes) /\ skipped' = skipped /\ accepted' = accepted
        /\ pc = "accept" /\ pc' = "splice"
    BY <1>12 DEF Accepted
  <2>2. GivenUp' = GivenUp
    BY <1>1, <1>3, <2>1 DEF GivenUp
  <2>3. QED
    BY <1>4, <2>1, <2>2 DEF SkipInv
<1>13. ASSUME (\E p \in pending : Splice(p)) \/ Return \/ UNCHANGED vars
       PROVE  SkipInv'
  <2>1. /\ skipped' = skipped /\ accepted' = accepted /\ valid' = valid /\ at' = at
        /\ \/ pc' = pc
           \/ pc = "splice" /\ pc' = "done"
    BY <1>13 DEF Splice, Return, vars
  <2>2. GivenUp' = GivenUp
    BY <1>3, <2>1 DEF GivenUp
  <2>3. QED
    BY <1>4, <2>1, <2>2 DEF SkipInv
<1>14. QED
  BY <1>5, <1>6, <1>7, <1>8, <1>9, <1>10, <1>11, <1>12, <1>13 DEF Next

\* Every fix that Apply has given up has its cause.
THEOREM FixApplySkips == Spec => []SkipInv
<1>1. Init => SkipInv
  <2> SUFFICES ASSUME Init PROVE SkipInv
    OBVIOUS
  <2>1. GivenUp = {}
    <3>1. TypeOK
      BY InitEstablishes DEF IInv
    <3>2. QED
      BY <3>1, FixesTyped DEF Init, GivenUp, TypeOK
  <2>2. QED
    BY <2>1 DEF Init, SkipInv
<1>2. IInv /\ SkipInv /\ [Next]_vars => SkipInv'
  BY SkipPreserved
<1>3. QED
  BY <1>1, <1>2, FixApplyInvariant, PTL DEF Spec

-----------------------------------------------------------------------------
(***************************************************************************)
(* The results on Apply.                                                   *)
(***************************************************************************)
\* The types, for any input.
THEOREM FixApplyTypeOK == Spec => []TypeOK
<1>1. IInv => TypeOK
  BY DEF IInv
<1>2. QED
  BY <1>1, FixApplyInvariant, PTL

\* Edits that Apply accepts are apart, in the order in which it splices them.
THEOREM FixApplyAcceptedApart == Spec => []AcceptedApart
<1>1. IInv => AcceptedApart
  BY ApartLemma DEF IInv
<1>2. QED
  BY <1>1, FixApplyInvariant, PTL

\* Offsets of edits still to be made are those of the original content, so
\* that no slice of the loop is out of range.
THEOREM FixApplyOffsetsValid == Spec => []EarlierOffsetsValid
<1>1. IInv => EarlierOffsetsValid
  BY DEF IInv
<1>2. QED
  BY <1>1, FixApplyInvariant, PTL

\* Edit after edit, Apply makes all of them at once.
THEOREM FixApplyMadeAtOnce == Spec => []MadeAtOnce
<1>1. IInv => MadeAtOnce
  BY DEF IInv
<1>2. QED
  BY <1>1, FixApplyInvariant, PTL

\* Applied and skipped fixes partition the argument, and every skipped one
\* has its cause.
THEOREM FixApplySkippedForCause == Spec => []SkippedForCause
<1>1. SkipInv => SkippedForCause
  <2> SUFFICES ASSUME SkipInv, Walked PROVE SkippedForCause
    BY DEF SkippedForCause
  <2>1. GivenUp = Index \ accepted
    BY DEF GivenUp, Walked
  <2>2. QED
    BY <2>1 DEF SkipInv, SkippedForCause, HasCause
<1>2. QED
  BY <1>1, FixApplySkips, PTL

-----------------------------------------------------------------------------
(***************************************************************************)
(* Lexer: lines and columns of the characters.                             *)
(***************************************************************************)
LEMMA LineOfNext ==
  ASSUME NEW i \in 1..Len(src), Len(src) \in Nat
  PROVE  LineOf(1) = 1 /\ LineOf(i) \in Nat \ {0}
         /\ LineOf(i + 1) = LineOf(i) + IF BreakAt(i) THEN 1 ELSE 0
<1> DEFINE B(off) == {k \in 1..off - 1 : BreakAt(k)}
<1>1. B(1) = {} /\ Cardinality(B(1)) = 0
  BY FS_EmptySet
<1>2. i \in Nat /\ IsFiniteSet(1..i - 1) /\ B(i) \subseteq 1..i - 1
  <2>1. i \in Nat /\ 1 \in Int /\ i - 1 \in Int
    OBVIOUS
  <2>2. IsFiniteSet(1..i - 1)
    BY <2>1, FS_Interval
  <2>3. B(i) \subseteq 1..i - 1
    OBVIOUS
  <2> QED
    BY <2>1, <2>2, <2>3
<1>3. IsFiniteSet(B(i))
  BY <1>2, FS_Subset
<1>4. Cardinality(B(i)) \in Nat
  BY <1>3, FS_CardinalityType
<1>5. CASE BreakAt(i)
  <2>1. B(i + 1) = B(i) \cup {i} /\ i \notin B(i)
    BY <1>2, <1>5
  <2> HIDE DEF B
  <2>2. Cardinality(B(i + 1)) = Cardinality(B(i)) + 1
    BY <1>3, <2>1, FS_AddElement
  <2> QED
    BY <1>1, <1>4, <1>5, <2>2 DEF LineOf, B
<1>6. CASE ~BreakAt(i)
  <2>1. B(i + 1) = B(i)
    BY <1>2, <1>6
  <2> QED
    BY <1>1, <1>4, <1>6, <2>1 DEF LineOf
<1> QED
  BY <1>5, <1>6

LEMMA ColumnOfNext ==
  ASSUME NEW i \in 1..Len(src), Len(src) \in Nat
  PROVE  /\ ColumnOf(1) = 1 /\ ColumnOf(i) \in Nat \ {0}
         /\ ColumnOf(i + 1) = IF BreakAt(i) THEN 1 ELSE ColumnOf(i) + IF RuneAt(i) THEN 1 ELSE 0
<1> DEFINE line(off) == {k \in 1..off - 1 : \A j \in k..off - 1 : ~BreakAt(j)}
           R(off) == {k \in line(off) : RuneAt(k)}
<1>1. R(1) = {} /\ Cardinality(R(1)) = 0
  BY FS_EmptySet
<1>2. i \in Nat /\ IsFiniteSet(1..i - 1) /\ R(i) \subseteq 1..i - 1
  <2>1. i \in Nat /\ 1 \in Int /\ i - 1 \in Int
    OBVIOUS
  <2>2. IsFiniteSet(1..i - 1)
    BY <2>1, FS_Interval
  <2>3. R(i) \subseteq 1..i - 1
    OBVIOUS
  <2> QED
    BY <2>1, <2>2, <2>3
<1>3. IsFiniteSet(R(i))
  BY <1>2, FS_Subset
<1>4. Cardinality(R(i)) \in Nat
  BY <1>3, FS_CardinalityType
<1>5. \A off : ColumnOf(off) = 1 + Cardinality(R(off))
  BY DEF ColumnOf
<1>6. CASE BreakAt(i)
  <2>1. \A k \in 1..i : i \in k..i
    OBVIOUS
  <2>2. R(i + 1) = {}
    BY <1>2, <1>6, <2>1
  <2> QED
    BY <1>1, <1>4, <1>5, <1>6, <2>2
<1>7. CASE ~BreakAt(i)
  <2>1. line(i + 1) = line(i) \cup {i} /\ i \notin line(i)
    <3>1. (i + 1) - 1 = i /\ \A k \in 1..i : k..i = (k..i - 1) \cup {i}
      BY <1>2
    <3>2. \A k \in 1..i : k = i \/ k \in 1..i - 1
      BY <1>2
    <3>3. \A k \in 1..i - 1 : k \in 1..i /\ k # i
      BY <1>2
    <3>4. i \in 1..i /\ i..i - 1 = {}
      BY <1>2
    <3> QED
      BY <1>7, <3>1, <3>2, <3>3, <3>4
  <2>2. CASE RuneAt(i)
    <3>1. R(i + 1) = R(i) \cup {i} /\ i \notin R(i)
      <4> HIDE DEF line
      <4> QED
        BY <2>1, <2>2
    <3> HIDE DEF R
    <3>2. Cardinality(R(i + 1)) = Cardinality(R(i)) + 1
      BY <1>3, <3>1, FS_AddElement
    <3> QED
      BY <1>1, <1>4, <1>5, <1>7, <2>2, <3>2
  <2>3. CASE ~RuneAt(i)
    <3>1. R(i + 1) = R(i)
      <4> HIDE DEF line
      <4> QED
        BY <2>1, <2>3
    <3> HIDE DEF R
    <3> QED
      BY <1>1, <1>4, <1>5, <1>7, <2>3, <3>1
  <2> QED
    BY <2>2, <2>3
<1> QED
  BY <1>6, <1>7

-----------------------------------------------------------------------------
(***************************************************************************)
(* Advancing.  The scanner is sound where it has line and column of its    *)
(* next character, and its errors have theirs.  Between the characters of  *)
(* a CR LF it has a column that none of them has.                          *)
(***************************************************************************)
InBreak(s) == C(s, 0) = "LF" /\ s.off > 1 /\ src[s.off - 1] = "CR"
Sound(s) ==
  /\ s.line = LineOf(s.off)
  /\ InBreak(s) \/ s.col = ColumnOf(s.off)
  /\ s.off <= Len(src) => RuneAt(s.off)
  /\ \A e \in s.errs : e.line = LineOf(e.off) /\ e.col = ColumnOf(e.off)

\* What every part of the lexer does: from s it comes to t.
Follows(s, t) ==
  t \in Scanner /\ s.off <= t.off /\ s.errs \subseteq t.errs /\ (Sound(s) => Sound(t))

LEMMA FollowsTransitive ==
  ASSUME NEW s \in Scanner, NEW t, NEW u, Follows(s, t), Follows(t, u)
  PROVE  Follows(s, u)
<1>1. s.off \in Int /\ t.off \in Int /\ u.off \in Int
  BY DEF Follows, Scanner
<1> QED
  BY <1>1 DEF Follows

LEMMA FollowsItself == ASSUME NEW s \in Scanner PROVE Follows(s, s)
<1>1. s.off \in Int
  BY DEF Scanner
<1> QED
  BY <1>1 DEF Follows

LEMMA ScannerFields ==
  ASSUME NEW s \in Scanner, src \in Seq(STRING)
  PROVE  /\ Len(src) \in Nat
         /\ s.off \in Nat /\ s.off \in 1..Len(src) + 1 /\ s.line \in Nat /\ s.col \in Nat
         /\ s.errs \in SUBSET SrcPos
         /\ Ended(s) <=> s.off = Len(src) + 1
         /\ ~Ended(s) <=> s.off \in 1..Len(src)
         /\ ~Ended(s) => C(s, 0) = src[s.off] /\ C(s, 0) \in STRING
         /\ Ended(s) => C(s, 0) = "none"
<1>1. Len(src) \in Nat
  OBVIOUS
<1>2. /\ s.off \in 1..Len(src) + 1 /\ s.line \in Nat /\ s.col \in Nat
      /\ s.errs \in SUBSET SrcPos
  BY DEF Scanner
<1>3. /\ Ended(s) <=> s.off = Len(src) + 1
      /\ ~Ended(s) <=> s.off \in 1..Len(src)
  BY <1>1, <1>2 DEF Ended
<1>4. ~Ended(s) => C(s, 0) = src[s.off] /\ C(s, 0) \in STRING
  <2>1. s.off \in 1..Len(src) => C(s, 0) = src[s.off]
    BY <1>1, <1>2 DEF C
  <2>2. \A i \in 1..Len(src) : src[i] \in STRING
    OBVIOUS
  <2> QED
    BY <1>3, <2>1, <2>2
<1>5. Ended(s) => C(s, 0) = "none"
  BY <1>1, <1>2, <1>3 DEF C
<1> QED
  BY <1>1, <1>2, <1>3, <1>4, <1>5

LEMMA AdvanceTyped ==
  ASSUME NEW s \in Scanner, src \in Seq(STRING), NEW size \in {1, 2}, s.off + size <= Len(src) + 1
  PROVE  LET t == AdvanceBy(s, size)
         IN  /\ t \in Scanner /\ t.off = s.off + size /\ t.errs = s.errs
             /\ t.line = s.line + IF Breaks(s) THEN 1 ELSE 0
             /\ t.col = IF Breaks(s) THEN 1 ELSE IF C(s, 0) = "CR" THEN s.col ELSE s.col + 1
<1> DEFINE line == IF Breaks(s) THEN s.line + 1 ELSE s.line
           col == IF Breaks(s) THEN 1 ELSE IF C(s, 0) = "CR" THEN s.col ELSE s.col + 1
           off == s.off + size
           t == [s EXCEPT !.off = off, !.line = line, !.col = col]
<1>1. s.off \in 1..Len(src) + 1 /\ s.line \in Nat /\ s.col \in Nat /\ s.errs \in SUBSET SrcPos
      /\ Len(src) \in Nat
  BY ScannerFields
<1>2. off \in 1..Len(src) + 1 /\ line \in Nat /\ col \in Nat
  BY <1>1
<1>3. line = s.line + IF Breaks(s) THEN 1 ELSE 0
  BY <1>1
<1>4. AdvanceBy(s, size) = t
  BY DEF AdvanceBy
<1> HIDE DEF line, col, off
<1>5. t \in Scanner
  BY <1>2 DEF Scanner
<1>6. t.off = off /\ t.line = line /\ t.col = col /\ t.errs = s.errs
  BY DEF Scanner
<1> HIDE DEF t
<1> QED
  BY <1>3, <1>4, <1>5, <1>6 DEF off, col

\* Of the characters of s, k is the one at s.off + k.
LEMMA CharacterAt ==
  ASSUME NEW s \in Scanner, src \in Seq(STRING), NEW k \in Nat
  PROVE  /\ s.off + k <= Len(src) => C(s, k) = src[s.off + k] /\ C(s, k) \in STRING
         /\ s.off + k > Len(src) => C(s, k) = "none"
<1> DEFINE i == s.off + k
<1>1. i \in Nat /\ i >= 1 /\ Len(src) \in Nat
  <2>1. s.off \in Nat /\ s.off \in 1..Len(src) + 1 /\ Len(src) \in Nat
    BY ScannerFields
  <2> QED
    BY <2>1
<1>2. \A j \in 1..Len(src) : src[j] \in STRING
  OBVIOUS
<1>3. C(s, k) = IF i <= Len(src) THEN src[i] ELSE "none"
  BY DEF C
<1> HIDE DEF i
<1>4. i <= Len(src) => src[i] \in STRING
  BY <1>1, <1>2
<1>5. i > Len(src) => ~(i <= Len(src))
  BY <1>1
<1> QED
  BY <1>3, <1>4, <1>5 DEF i

LEMMA BreaksThere ==
  ASSUME NEW s \in Scanner, src \in Seq(STRING), ~Ended(s)
  PROVE  Breaks(s) <=> BreakAt(s.off)
<1>1. s.off \in 1..Len(src) /\ C(s, 0) = src[s.off] /\ Len(src) \in Nat
  BY ScannerFields
<1>2. /\ s.off + 1 <= Len(src) => C(s, 1) = src[s.off + 1]
      /\ s.off + 1 > Len(src) => C(s, 1) = "none"
  BY CharacterAt
<1>3. s.off + 1 > Len(src) <=> s.off = Len(src)
  BY <1>1
<1>4. CASE s.off = Len(src)
  BY <1>1, <1>2, <1>3, <1>4 DEF Breaks, BreakAt
<1>5. CASE s.off # Len(src)
  <2>1. s.off + 1 <= Len(src)
    BY <1>1, <1>5
  <2> QED
    BY <1>1, <1>2, <1>5, <2>1 DEF Breaks, BreakAt
<1> QED
  BY <1>4, <1>5

\* One character that is no part of a rune of two bytes.
LEMMA OneFollows ==
  ASSUME NEW s \in Scanner, src \in Seq(STRING), ~Ended(s),
         ~(C(s, 0) = "lead" /\ C(s, 1) = "trail")
  PROVE  Follows(s, AdvanceBy(s, 1)) /\ AdvanceBy(s, 1).off = s.off + 1
<1> DEFINE t == AdvanceBy(s, 1)
           o == s.off
<1>1. o \in 1..Len(src) /\ C(s, 0) = src[o] /\ Len(src) \in Nat /\ s.line \in Nat /\ s.col \in Nat
  BY ScannerFields
<1>2. /\ t \in Scanner /\ t.off = o + 1 /\ t.errs = s.errs
      /\ t.line = s.line + IF Breaks(s) THEN 1 ELSE 0
      /\ t.col = IF Breaks(s) THEN 1 ELSE IF C(s, 0) = "CR" THEN s.col ELSE s.col + 1
  <2>1. o + 1 <= Len(src) + 1
    BY <1>1
  <2> QED
    BY <2>1, AdvanceTyped
<1>3. Breaks(s) <=> BreakAt(o)
  BY BreaksThere
<1>4. ASSUME Sound(s) PROVE Sound(t)
  <2>1. t.line = LineOf(t.off)
    <3>1. LineOf(o + 1) = LineOf(o) + IF BreakAt(o) THEN 1 ELSE 0
      BY <1>1, LineOfNext
    <3> QED
      BY <1>2, <1>3, <1>4, <3>1 DEF Sound
  <2>2. t.off <= Len(src) => RuneAt(t.off)
    <3>1. o + 1 <= Len(src) => C(s, 1) = src[o + 1]
      BY CharacterAt
    <3>2. (o + 1) - 1 = o
      BY <1>1
    <3> QED
      BY <1>1, <1>2, <3>1, <3>2 DEF RuneAt
  <2>3. InBreak(t) \/ t.col = ColumnOf(t.off)
    <3>1. ColumnOf(o + 1) = IF BreakAt(o) THEN 1 ELSE ColumnOf(o) + IF RuneAt(o) THEN 1 ELSE 0
      BY <1>1, ColumnOfNext
    <3>2. CASE Breaks(s)
      BY <1>2, <1>3, <3>1, <3>2
    <3>3. CASE ~Breaks(s) /\ C(s, 0) = "CR"
      <4>1. C(s, 1) = "LF"
        BY <3>3 DEF Breaks
      <4>2. o + 1 <= Len(src)
        BY <1>1, <4>1, CharacterAt
      <4>3. C(t, 0) = "LF"
        <5>1. C(s, 1) = src[o + 1]
          BY <4>2, CharacterAt
        <5>2. C(t, 0) = src[o + 1]
          BY <1>1, <1>2, <4>2 DEF C
        <5> QED
          BY <4>1, <5>1, <5>2
      <4>4. t.off > 1 /\ t.off - 1 = o
        BY <1>1, <1>2
      <4> QED
        BY <1>1, <3>3, <4>3, <4>4 DEF InBreak
    <3>4. CASE ~Breaks(s) /\ C(s, 0) # "CR"
      <4>1. ~InBreak(s)
        BY <3>4 DEF Breaks, InBreak
      <4>2. s.col = ColumnOf(o) /\ RuneAt(o)
        BY <1>1, <1>4, <4>1 DEF Sound
      <4> QED
        BY <1>2, <1>3, <3>1, <3>4, <4>2
    <3> QED
      BY <3>2, <3>3, <3>4
  <2> QED
    BY <1>2, <1>4, <2>1, <2>2, <2>3 DEF Sound
<1>5. o <= t.off
  BY <1>1, <1>2
<1> QED
  BY <1>2, <1>4, <1>5 DEF Follows

LEMMA RuneFollows ==
  ASSUME NEW s \in Scanner, src \in Seq(STRING), ~Ended(s)
  PROVE  Follows(s, AdvanceRune(s)) /\ s.off < AdvanceRune(s).off /\ AdvanceRune(s).errs = s.errs
<1> DEFINE o == s.off
<1>1. o \in 1..Len(src) /\ C(s, 0) = src[o] /\ Len(src) \in Nat /\ s.line \in Nat /\ s.col \in Nat
  BY ScannerFields
<1>2. CASE ~(C(s, 0) = "lead" /\ C(s, 1) = "trail")
  <2>1. AdvanceRune(s) = AdvanceBy(s, 1)
    BY <1>2 DEF AdvanceRune
  <2>2. o + 1 <= Len(src) + 1
    BY <1>1
  <2>3. AdvanceBy(s, 1).errs = s.errs
    BY <2>2, AdvanceTyped
  <2>4. Follows(s, AdvanceBy(s, 1)) /\ AdvanceBy(s, 1).off = o + 1
    BY <1>2, OneFollows
  <2> QED
    BY <1>1, <2>1, <2>3, <2>4
<1>3. CASE C(s, 0) = "lead" /\ C(s, 1) = "trail"
  <2> DEFINE t == AdvanceBy(s, 2)
  <2>1. AdvanceRune(s) = t
    BY <1>3 DEF AdvanceRune
  <2>2. o + 1 <= Len(src) /\ src[o + 1] = "trail"
    <3>1. o + 1 > Len(src) => C(s, 1) = "none"
      BY CharacterAt
    <3>2. o + 1 <= Len(src)
      BY <1>1, <1>3, <3>1
    <3> QED
      BY <1>3, <3>2, CharacterAt
  <2>3. /\ t \in Scanner /\ t.off = o + 2 /\ t.errs = s.errs
        /\ t.line = s.line + IF Breaks(s) THEN 1 ELSE 0
        /\ t.col = IF Breaks(s) THEN 1 ELSE IF C(s, 0) = "CR" THEN s.col ELSE s.col + 1
    <3>1. o + 2 <= Len(src) + 1
      BY <1>1, <2>2
    <3> QED
      BY <3>1, AdvanceTyped
  <2>4. ~Breaks(s) /\ ~BreakAt(o) /\ ~BreakAt(o + 1) /\ ~InBreak(s)
    BY <1>1, <1>3, <2>2 DEF Breaks, BreakAt, InBreak
  <2>5. ASSUME Sound(s) PROVE Sound(t)
    <3>0. o + 1 \in 1..Len(src) /\ (o + 1) + 1 = o + 2 /\ (o + 1) - 1 = o /\ (o + 2) - 1 = o + 1
          /\ o + 1 > 1
      BY <1>1, <2>2
    <3>1. t.line = LineOf(t.off)
      <4>1. LineOf(o + 1) = LineOf(o) + 0 /\ LineOf((o + 1) + 1) = LineOf(o + 1) + 0
            /\ LineOf(o) \in Nat
        BY <1>1, <2>4, <3>0, LineOfNext
      <4>2. t.line = s.line + 0 /\ s.line = LineOf(o)
        BY <2>3, <2>4, <2>5 DEF Sound
      <4> QED
        BY <2>3, <3>0, <4>1, <4>2
    <3>2. t.off <= Len(src) => RuneAt(t.off)
      BY <2>2, <2>3, <3>0 DEF RuneAt
    <3>3. t.col = ColumnOf(t.off)
      <4>1. RuneAt(o) /\ s.col = ColumnOf(o)
        BY <1>1, <2>4, <2>5 DEF Sound
      <4>2. ~RuneAt(o + 1)
        BY <1>1, <1>3, <2>2, <3>0 DEF RuneAt
      <4>3. ColumnOf(o + 1) = ColumnOf(o) + 1 /\ ColumnOf(o) \in Nat
        BY <1>1, <2>4, <4>1, ColumnOfNext
      <4>4. ColumnOf((o + 1) + 1) = ColumnOf(o + 1) + 0
        BY <1>1, <2>4, <3>0, <4>2, ColumnOfNext
      <4>5. t.col = s.col + 1
        BY <1>3, <2>3, <2>4
      <4> QED
        BY <2>3, <3>0, <4>1, <4>3, <4>4, <4>5
    <3> QED
      BY <2>3, <2>5, <3>1, <3>2, <3>3 DEF Sound
  <2>6. o <= t.off /\ o < t.off
    BY <1>1, <2>3
  <2> QED
    BY <2>1, <2>3, <2>5, <2>6 DEF Follows
<1> QED
  BY <1>2, <1>3

LEMMA ByteFollows ==
  ASSUME NEW s \in Scanner, src \in Seq(STRING), ~Ended(s), C(s, 0) # "lead"
  PROVE  LET t == AdvanceByte(s)
         IN  /\ Follows(s, t) /\ t.off = s.off + 1 /\ t.errs = s.errs /\ t \in Scanner
             /\ t.line = s.line + IF Breaks(s) THEN 1 ELSE 0
             /\ \A k \in Nat : C(t, k) = C(s, k + 1)
<1> DEFINE t == AdvanceByte(s)
<1>1. s.off \in 1..Len(src) /\ Len(src) \in Nat
  BY ScannerFields
<1>2. s.off + 1 <= Len(src) + 1
  BY <1>1
<1>3. t.off = s.off + 1 /\ t.errs = s.errs /\ t.line = s.line + (IF Breaks(s) THEN 1 ELSE 0)
  BY <1>2, AdvanceTyped DEF AdvanceByte
<1>4. Follows(s, t)
  BY OneFollows DEF AdvanceByte
<1> HIDE DEF t
<1>5. ASSUME NEW k \in Nat PROVE C(t, k) = C(s, k + 1)
  <2>1. t.off + k = s.off + (k + 1)
    BY <1>1, <1>3
  <2> QED
    BY <2>1 DEF C
<1> QED
  BY <1>3, <1>4, <1>5 DEF t, Follows

\* An error that is reported where the token or comment begins.
LEMMA ReportFollows ==
  ASSUME NEW s \in Scanner, NEW t, NEW from \in Scanner, src \in Seq(STRING), Follows(s, t),
         Sound(s) => from.line = LineOf(from.off) /\ from.col = ColumnOf(from.off)
  PROVE  LET u == Report(t, from)
         IN  Follows(s, u) /\ u.off = t.off /\ u.errs # {} /\ t.errs \subseteq u.errs
<1> DEFINE e == [off |-> from.off, line |-> from.line, col |-> from.col]
           E == t.errs \cup {e}
           u == [t EXCEPT !.errs = E]
<1>1. t \in Scanner
  BY DEF Follows
<1>2. e \in SrcPos /\ e.off = from.off /\ e.line = from.line /\ e.col = from.col
  BY ScannerFields DEF SrcPos
<1>3. t.errs \in SUBSET SrcPos
  BY <1>1, ScannerFields
<1>4. Report(t, from) = u
  BY DEF Report
<1> HIDE DEF e
<1>5. E \in SUBSET SrcPos /\ E # {} /\ t.errs \subseteq E
  BY <1>2, <1>3
<1> HIDE DEF E
<1>6. u \in Scanner /\ u.off = t.off /\ u.line = t.line /\ u.col = t.col /\ u.errs = E
  BY <1>1, <1>5 DEF Scanner
<1> HIDE DEF u
<1>7. ASSUME Sound(s) PROVE Sound(u)
  <2>1. Sound(t)
    BY <1>7 DEF Follows
  <2>2. \A x \in E : x.line = LineOf(x.off) /\ x.col = ColumnOf(x.off)
    BY <1>2, <1>7, <2>1 DEF E, Sound
  <2>3. InBreak(t) => InBreak(u)
    BY <1>6 DEF InBreak, C
  <2> QED
    BY <1>6, <2>1, <2>2, <2>3 DEF Sound
<1>8. s.off <= u.off /\ s.errs \subseteq u.errs
  BY <1>5, <1>6 DEF Follows
<1> QED
  BY <1>4, <1>5, <1>6, <1>7, <1>8 DEF Follows

\* Advanced is computed character by character.
AnyScanner == [off : Nat, line : Nat, col : Nat, errs : SUBSET SrcPos]
IsAdvance(f, s, n) == f[0] = s /\ \A k \in 1..n : f[k] = AdvanceByte(f[k - 1])

LEMMA AdvancedRecursion ==
  ASSUME NEW s \in Scanner, src \in Seq(STRING), NEW n \in Nat
  PROVE  \E f : IsAdvance(f, s, n) /\ Advanced(s, n) = f[n]
<1> DEFINE L == AnyScanner
           f[k \in 0..n] == IF k = 0 THEN s ELSE AdvanceByte(f[k - 1])
           Step(h) == [k \in 0..n |-> IF k = 0 THEN s ELSE AdvanceByte(h[k - 1])]
           Eq(h) == h = Step(h)
           g == [p \in (1..n) \X L |-> AdvanceByte(p[2])]
<1>1. s \in L
  BY ScannerFields DEF AnyScanner, Scanner
<1>2. ASSUME NEW h \in L PROVE AdvanceByte(h) \in L
  <2> DEFINE line == IF Breaks(h) THEN h.line + 1 ELSE h.line
             col == IF Breaks(h) THEN 1 ELSE IF C(h, 0) = "CR" THEN h.col ELSE h.col + 1
             off == h.off + 1
  <2>1. line \in Nat /\ col \in Nat /\ off \in Nat
    BY DEF AnyScanner
  <2>2. AdvanceByte(h) = [h EXCEPT !.off = off, !.line = line, !.col = col]
    BY DEF AdvanceByte, AdvanceBy
  <2> HIDE DEF line, col, off
  <2>3. [h EXCEPT !.off = off, !.line = line, !.col = col] \in L
    BY <2>1 DEF AnyScanner
  <2> QED
    BY <2>2, <2>3
<1>3. g \in [(1..n) \X L -> L] /\ \A k \in 1..n, h \in L : g[<<k, h>>] = AdvanceByte(h)
  <2> HIDE DEF L
  <2> QED
    BY <1>2
<1>4. PICK F : IsRecursion(F, L, n, s, g)
  <2> HIDE DEF g, L
  <2> QED
    BY <1>1, <1>3, Recursion
<1>5. Eq(F)
  <2> HIDE DEF g, L
  <2>1. /\ F \in [0..n -> L] /\ F[0] = s
        /\ \A k \in 1..n : F[k] = g[<<k, F[k - 1]>>] /\ k - 1 \in 0..n /\ k # 0
    BY <1>4 DEF IsRecursion
  <2>2. \A k \in 1..n : F[k] = AdvanceByte(F[k - 1]) /\ k # 0
    BY <1>3, <2>1
  <2>3. \A k \in 0..n : k = 0 \/ k \in 1..n
    OBVIOUS
  <2> QED
    BY <2>1, <2>2, <2>3
<1>6. Eq(CHOOSE h : Eq(h))
  <2> HIDE DEF Eq
  <2> QED
    BY <1>5
<1>7. Eq(f)
  BY <1>6
<1>8. Advanced(s, n) = f[n]
  BY DEF Advanced
<1> DEFINE e == f
<1>9. Eq(e) /\ Advanced(s, n) = e[n]
  BY <1>7, <1>8
<1> HIDE DEF e
<1>10. e[0] = s /\ \A k \in 1..n : e[k] = AdvanceByte(e[k - 1])
  <2>1. \A k \in 1..n : k \in 0..n /\ k # 0
    OBVIOUS
  <2>2. 0 \in 0..n
    OBVIOUS
  <2> QED
    BY <1>9, <2>1, <2>2
<1> HIDE DEF Step, Eq
<1> QED
  BY <1>9, <1>10 DEF IsAdvance

LEMMA AdvancedFollows ==
  ASSUME NEW s \in Scanner, src \in Seq(STRING), NEW n \in Nat, s.off + n <= Len(src) + 1,
         \A k \in 0..n - 1 : C(s, k) # "lead"
  PROVE  /\ Follows(s, Advanced(s, n)) /\ Advanced(s, n).off = s.off + n
         /\ Advanced(s, n).errs = s.errs
<1>1. PICK f : IsAdvance(f, s, n) /\ Advanced(s, n) = f[n]
  BY AdvancedRecursion
<1> DEFINE There(k) == /\ f[k] \in Scanner /\ Follows(s, f[k])
                       /\ f[k].off = s.off + k /\ f[k].errs = s.errs
                       /\ \A j \in Nat : C(f[k], j) = C(s, k + j)
           T == {k \in 0..n : There(k)}
<1>2. s.off \in Nat /\ s.off >= 1 /\ Len(src) \in Nat
  <2>1. s.off \in 1..Len(src) + 1 /\ Len(src) \in Nat
    BY ScannerFields
  <2> QED
    BY <2>1
<1>3. 0 \in T
  <2>1. f[0] = s
    BY <1>1 DEF IsAdvance
  <2>2. s.off = s.off + 0 /\ \A j \in Nat : 0 + j = j
    BY <1>2
  <2> QED
    BY <2>1, <2>2, FollowsItself
<1>4. ASSUME NEW k \in 1..n, k - 1 \in T PROVE k \in T
  <2> DEFINE u == f[k - 1]
  <2>1. /\ u \in Scanner /\ Follows(s, u) /\ u.off = s.off + (k - 1) /\ u.errs = s.errs
        /\ \A j \in Nat : C(u, j) = C(s, (k - 1) + j)
    BY <1>4
  <2>2. f[k] = AdvanceByte(u)
    BY <1>1 DEF IsAdvance
  <2> HIDE DEF u
  <2>3. ~Ended(u)
    <3>1. ~(s.off + (k - 1) > Len(src))
      BY <1>2
    <3>2. u.off = s.off + (k - 1)
      BY <2>1
    <3> QED
      BY <3>1, <3>2 DEF Ended
  <2>4. C(u, 0) # "lead"
    <3>1. (k - 1) + 0 = k - 1 /\ k - 1 \in 0..n - 1
      OBVIOUS
    <3> QED
      BY <2>1, <3>1
  <2>5. /\ Follows(u, f[k]) /\ f[k].off = u.off + 1 /\ f[k].errs = u.errs /\ f[k] \in Scanner
        /\ \A j \in Nat : C(f[k], j) = C(u, j + 1)
    <3> DEFINE v == AdvanceByte(u)
    <3>1. /\ Follows(u, v) /\ v.off = u.off + 1 /\ v.errs = u.errs /\ v \in Scanner
          /\ \A j \in Nat : C(v, j) = C(u, j + 1)
      BY <2>1, <2>3, <2>4, ByteFollows
    <3> HIDE DEF v
    <3>2. f[k] = v
      BY <2>2 DEF v
    <3> QED
      BY <3>1, <3>2
  <2>6. Follows(s, f[k])
    BY <2>1, <2>5, FollowsTransitive
  <2>7. f[k].off = s.off + k
    <3>1. (s.off + (k - 1)) + 1 = s.off + k
      BY <1>2
    <3> QED
      BY <2>1, <2>5, <3>1
  <2>8. ASSUME NEW j \in Nat PROVE C(f[k], j) = C(s, k + j)
    <3>1. j + 1 \in Nat /\ (k - 1) + (j + 1) = k + j
      OBVIOUS
    <3>2. C(f[k], j) = C(u, j + 1) /\ C(u, j + 1) = C(s, (k - 1) + (j + 1))
      BY <2>1, <2>5, <3>1, Zenon
    <3> QED
      BY <3>1, <3>2
  <2>9. k \in 0..n
    OBVIOUS
  <2> QED
    BY <2>1, <2>5, <2>6, <2>7, <2>8, <2>9
<1>5. 0..n \subseteq T
  <2> HIDE DEF T
  <2> QED
    BY <1>3, <1>4, BoundedInduction
<1>6. n \in T
  BY <1>5
<1> QED
  BY <1>1, <1>6

-----------------------------------------------------------------------------
(***************************************************************************)
(* The loops over the scanner.                                             *)
(***************************************************************************)
Ahead == [s \in Scanner |-> Len(src) + 1 - s.off]
Same == [s \in Scanner |-> s]
GoesAhead(Stop, next) ==
  \A s \in Scanner : s \notin Stop => Follows(s, next[s]) /\ s.off < next[s].off

LEMMA AheadFalls ==
  ASSUME src \in Seq(STRING)
  PROVE  /\ Len(src) \in Nat /\ Ahead \in [Scanner -> 0..Len(src)]
         /\ \A s, t \in Scanner : s.off < t.off => Ahead[t] < Ahead[s]
<1>1. \A s \in Scanner : s.off \in 1..Len(src) + 1 /\ Len(src) \in Nat
  BY ScannerFields
<1>2. \A s \in Scanner : Ahead[s] = Len(src) + 1 - s.off
  BY DEF Ahead
<1>3. ASSUME NEW s \in Scanner PROVE Len(src) + 1 - s.off \in 0..Len(src)
  BY <1>1
<1>4. Ahead \in [Scanner -> 0..Len(src)]
  BY <1>3 DEF Ahead
<1>5. ASSUME NEW s \in Scanner, NEW t \in Scanner, s.off < t.off PROVE Ahead[t] < Ahead[s]
  <2>1. /\ s.off \in 1..Len(src) + 1 /\ t.off \in 1..Len(src) + 1 /\ Len(src) \in Nat
        /\ Ahead[s] = Len(src) + 1 - s.off /\ Ahead[t] = Len(src) + 1 - t.off
    BY <1>1, <1>2
  <2> QED
    BY <1>5, <2>1
<1>6. Len(src) \in Nat
  OBVIOUS
<1> QED
  BY <1>4, <1>5, <1>6

\* A loop over the scanner that goes ahead comes to where it stops.
LEMMA ScannerLoop ==
  ASSUME src \in Seq(STRING), NEW Stop, NEW next, NEW F, Iterates(F, Scanner, Stop, Same, next),
         GoesAhead(Stop, next), NEW s \in Scanner
  PROVE  F[s] \in Stop /\ Follows(s, F[s]) /\ F[s] \in Scanner /\ (s \in Stop => F[s] = s)
<1> DEFINE I == {x \in Scanner : Follows(s, x)}
           Q == {x \in Scanner : x \in Stop /\ Follows(s, x)}
           N == Len(src)
<1>1. N \in Nat /\ Ahead \in [Scanner -> 0..N]
  BY AheadFalls
<1>2. I \in SUBSET Scanner /\ Q \in SUBSET Scanner /\ s \in I
  BY FollowsItself
<1>3. \A x \in I : x \in Stop => Same[x] \in Q
  BY DEF Same
<1>4. ASSUME NEW x \in I, x \notin Stop PROVE next[x] \in I /\ Ahead[next[x]] < Ahead[x]
  <2>1. x \in Scanner /\ Follows(s, x)
    OBVIOUS
  <2>2. Follows(x, next[x]) /\ x.off < next[x].off
    BY <1>4, <2>1 DEF GoesAhead
  <2>3. next[x] \in Scanner
    BY <2>2 DEF Follows
  <2>4. Follows(s, next[x])
    BY <2>1, <2>2, FollowsTransitive
  <2>5. Ahead[next[x]] < Ahead[x]
    BY <2>1, <2>2, <2>3, AheadFalls
  <2> QED
    BY <2>3, <2>4, <2>5
<1>5. Keeps(F, Scanner, Stop, Same, next, N, Ahead, I, Q)
  <2> HIDE DEF I, Q, N
  <2> QED
    BY <1>1, <1>2, <1>3, <1>4 DEF Keeps
<1>6. F[s] \in Q
  <2> HIDE DEF I, Q, N
  <2> QED
    BY <1>2, <1>5, LoopInduction
<1>7. s \in Stop => F[s] = s
  BY DEF Iterates, Same
<1> QED
  BY <1>6, <1>7

LEMMA ScannerLoopAhead ==
  ASSUME src \in Seq(STRING), NEW Stop, NEW next, NEW F, Iterates(F, Scanner, Stop, Same, next),
         GoesAhead(Stop, next), NEW s \in Scanner, s \notin Stop
  PROVE  s.off < F[s].off /\ Follows(next[s], F[s])
<1>1. Follows(s, next[s]) /\ s.off < next[s].off
  BY DEF GoesAhead
<1>2. next[s] \in Scanner
  BY <1>1 DEF Follows
<1>3. F[s] = F[next[s]]
  BY DEF Iterates
<1>4. Follows(next[s], F[next[s]]) /\ F[next[s]] \in Scanner
  BY <1>2, ScannerLoop
<1>5. next[s].off <= F[s].off
  BY <1>3, <1>4 DEF Follows
<1>6. s.off \in Int /\ next[s].off \in Int /\ F[s].off \in Int
  BY <1>2, <1>3, <1>4 DEF Scanner
<1> QED
  BY <1>1, <1>3, <1>4, <1>5, <1>6

\* There is such a loop.
LEMMA ScannerLoopExists ==
  ASSUME src \in Seq(STRING), NEW Stop, NEW next \in [Scanner -> Scanner], GoesAhead(Stop, next)
  PROVE  \E F \in [Scanner -> Scanner] : Iterates(F, Scanner, Stop, Same, next)
<1> DEFINE N == Len(src)
           R == Scanner
<1>1. N \in Nat /\ Ahead \in [Scanner -> 0..N]
  BY AheadFalls
<1>2. ASSUME NEW x \in Scanner, x \notin Stop PROVE Ahead[next[x]] < Ahead[x]
  <2>1. next[x] \in Scanner /\ x.off < next[x].off
    BY <1>2 DEF GoesAhead
  <2> QED
    BY <2>1, AheadFalls
<1>3. Same \in [Scanner -> R]
  BY DEF Same
<1> HIDE DEF N, R
<1>4. \E F \in [Scanner -> R] : Iterates(F, Scanner, Stop, Same, next)
  <2>1. next \in [Scanner -> Scanner]
    OBVIOUS
  <2> QED
    BY <1>1, <1>2, <1>3, <2>1, LoopExists
<1> QED
  BY <1>4 DEF R

\* scanLineComment
LEMMA ToLineEndFollows ==
  ASSUME src \in Seq(STRING), NEW s \in Scanner
  PROVE  LET t == ToLineEnd[s]
         IN  /\ t \in Scanner /\ Follows(s, t) /\ C(t, 0) \in {"LF", "CR", "none"}
             /\ C(s, 0) \notin {"LF", "CR", "none"} => s.off < t.off
<1> DEFINE Stop == {x \in Scanner : C(x, 0) \in {"LF", "CR", "none"}}
           next == [x \in Scanner |-> IF x \in Stop THEN x ELSE AdvanceRune(x)]
           Step(h) == [x \in Scanner |-> IF C(x, 0) \in {"LF", "CR", "none"} THEN x
                                         ELSE h[AdvanceRune(x)]]
           Eq(h) == h = Step(h)
<1>1. ASSUME NEW x \in Scanner, x \notin Stop
      PROVE  Follows(x, AdvanceRune(x)) /\ x.off < AdvanceRune(x).off
  <2>1. ~Ended(x)
    BY <1>1, ScannerFields
  <2> QED
    BY <2>1, RuneFollows
<1>2. next \in [Scanner -> Scanner] /\ GoesAhead(Stop, next)
  <2> HIDE DEF Stop
  <2>1. \A x \in Scanner : x \notin Stop => AdvanceRune(x) \in Scanner
    BY <1>1 DEF Follows
  <2> QED
    BY <1>1, <2>1 DEF GoesAhead
<1>3. ASSUME NEW h PROVE Eq(h) => Iterates(h, Scanner, Stop, Same, next)
  BY DEF Iterates, Same
<1>4. ASSUME NEW h \in [Scanner -> Scanner], Iterates(h, Scanner, Stop, Same, next) PROVE Eq(h)
  <2>1. \A x \in Scanner : h[x] = IF C(x, 0) \in {"LF", "CR", "none"} THEN x ELSE h[AdvanceRune(x)]
    BY <1>4 DEF Iterates, Same
  <2> QED
    BY <2>1
<1>5. Eq(CHOOSE h : Eq(h))
  <2> HIDE DEF Eq, Stop, next
  <2> QED
    BY <1>2, <1>4, ScannerLoopExists
<1>6. Eq(ToLineEnd)
  <2>1. ToLineEnd = CHOOSE h : Eq(h)
    BY DEF ToLineEnd
  <2> HIDE DEF Eq
  <2> QED
    BY <1>5, <2>1
<1>7. Iterates(ToLineEnd, Scanner, Stop, Same, next)
  <2> HIDE DEF Eq, Stop, next
  <2> QED
    BY <1>3, <1>6
<1>8. ToLineEnd[s] \in Stop /\ Follows(s, ToLineEnd[s]) /\ ToLineEnd[s] \in Scanner
  <2> HIDE DEF Eq, Stop, next
  <2> QED
    BY <1>2, <1>7, ScannerLoop
<1>9. s \notin Stop => s.off < ToLineEnd[s].off
  <2> HIDE DEF Eq, Stop, next
  <2> QED
    BY <1>2, <1>7, ScannerLoopAhead
<1> QED
  BY <1>8, <1>9
LEMMA TwoFollow ==
  ASSUME NEW s \in Scanner, src \in Seq(STRING), C(s, 0) # "lead", C(s, 1) \notin {"lead", "none"}
  PROVE  LET t == Advanced(s, 2)
         IN  t \in Scanner /\ Follows(s, t) /\ t.off = s.off + 2 /\ t.errs = s.errs
<1>1. s.off \in Nat /\ Len(src) \in Nat
  BY ScannerFields
<1>2. s.off + 1 <= Len(src)
  BY <1>1, CharacterAt
<1>3. s.off + 2 <= Len(src) + 1
  BY <1>1, <1>2
<1>4. ASSUME NEW k \in 0..2 - 1 PROVE C(s, k) # "lead"
  <2>1. k = 0 \/ k = 1
    OBVIOUS
  <2> QED
    BY <2>1
<1>5. /\ Follows(s, Advanced(s, 2)) /\ Advanced(s, 2).off = s.off + 2
      /\ Advanced(s, 2).errs = s.errs
  BY <1>3, <1>4, AdvancedFollows
<1> QED
  BY <1>5 DEF Follows

\* scanBlockComment
LEMMA ToBlockEndFollows ==
  ASSUME src \in Seq(STRING), NEW s \in Scanner
  PROVE  LET t == ToBlockEnd[s]
         IN  /\ t \in Scanner /\ Follows(s, t)
             /\ Ended(t) \/ (C(t, 0) = "*" /\ C(t, 1) = "/")
<1> DEFINE At(x) == Ended(x) \/ (C(x, 0) = "*" /\ C(x, 1) = "/")
           Stop == {x \in Scanner : At(x)}
           next == [x \in Scanner |-> IF x \in Stop THEN x ELSE AdvanceRune(x)]
           Step(h) == [x \in Scanner |-> IF At(x) THEN x ELSE h[AdvanceRune(x)]]
           Eq(h) == h = Step(h)
<1>1. ASSUME NEW x \in Scanner, x \notin Stop
      PROVE  Follows(x, AdvanceRune(x)) /\ x.off < AdvanceRune(x).off
  BY <1>1, RuneFollows
<1>2. next \in [Scanner -> Scanner] /\ GoesAhead(Stop, next)
  <2> HIDE DEF Stop
  <2>1. \A x \in Scanner : x \notin Stop => AdvanceRune(x) \in Scanner
    BY <1>1 DEF Follows
  <2> QED
    BY <1>1, <2>1 DEF GoesAhead
<1>3. ASSUME NEW h PROVE Eq(h) => Iterates(h, Scanner, Stop, Same, next)
  <2> HIDE DEF At
  <2> QED
    BY DEF Iterates, Same
<1>4. ASSUME NEW h \in [Scanner -> Scanner], Iterates(h, Scanner, Stop, Same, next) PROVE Eq(h)
  <2> HIDE DEF At
  <2>1. \A x \in Scanner : h[x] = IF At(x) THEN x ELSE h[AdvanceRune(x)]
    BY <1>4 DEF Iterates, Same
  <2> QED
    BY <2>1
<1>5. Eq(CHOOSE h : Eq(h))
  <2> HIDE DEF Eq, Stop, next
  <2> QED
    BY <1>2, <1>4, ScannerLoopExists
<1>6. Eq(ToBlockEnd)
  <2>1. ToBlockEnd = CHOOSE h : Eq(h)
    BY DEF ToBlockEnd
  <2> HIDE DEF Eq
  <2> QED
    BY <1>5, <2>1
<1>7. Iterates(ToBlockEnd, Scanner, Stop, Same, next)
  <2> HIDE DEF Eq, Stop, next
  <2> QED
    BY <1>3, <1>6
<1>8. ToBlockEnd[s] \in Stop /\ Follows(s, ToBlockEnd[s]) /\ ToBlockEnd[s] \in Scanner
  <2> HIDE DEF Eq, Stop, next
  <2> QED
    BY <1>2, <1>7, ScannerLoop
<1> QED
  BY <1>8

LEMMA BlockCommentFollows ==
  ASSUME src \in Seq(STRING), NEW s \in Scanner, AtBlockComment(s), ~InBreak(s)
  PROVE  LET t == BlockComment(s)
         IN  t \in Scanner /\ Follows(s, t) /\ s.off < t.off
<1> DEFINE u == Advanced(s, 2)
           v == ToBlockEnd[u]
           t == BlockComment(s)
<1>1. u \in Scanner /\ Follows(s, u) /\ u.off = s.off + 2
  BY TwoFollow DEF AtBlockComment
<1> HIDE DEF u
<1>2. v \in Scanner /\ Follows(u, v) /\ (Ended(v) \/ (C(v, 0) = "*" /\ C(v, 1) = "/"))
  BY <1>1, ToBlockEndFollows
<1> HIDE DEF v
<1>3. Follows(s, v) /\ s.off < v.off
  <2>1. s.off \in Int /\ v.off \in Int /\ u.off <= v.off
    BY <1>2 DEF Scanner, Follows
  <2> QED
    BY <1>1, <1>2, <2>1, FollowsTransitive
<1>4. t = IF Ended(v) THEN Report(v, s) ELSE Advanced(v, 2)
  BY DEF BlockComment, u, v
<1>5. CASE Ended(v)
  <2>1. Sound(s) => s.line = LineOf(s.off) /\ s.col = ColumnOf(s.off)
    BY DEF Sound
  <2>2. Follows(s, Report(v, s)) /\ Report(v, s).off = v.off
    BY <1>3, <2>1, ReportFollows
  <2>3. t = Report(v, s)
    BY <1>4, <1>5
  <2> QED
    BY <1>3, <2>2, <2>3 DEF Follows
<1>6. CASE ~Ended(v)
  <2>1. t = Advanced(v, 2)
    BY <1>4, <1>6
  <2>2. t \in Scanner /\ Follows(v, t) /\ t.off = v.off + 2
    BY <1>2, <1>6, <2>1, TwoFollow
  <2>3. s.off \in Int /\ v.off \in Int
    BY <1>2 DEF Scanner
  <2> QED
    BY <1>3, <2>2, <2>3, FollowsTransitive
<1> QED
  BY <1>5, <1>6

\* Where a comment, a token or an error begins is not within a CR LF.
LEMMA NotInBreak ==
  ASSUME NEW s \in Scanner, C(s, 0) # "LF"
  PROVE  ~InBreak(s) /\ (Sound(s) => s.line = LineOf(s.off) /\ s.col = ColumnOf(s.off))
BY DEF InBreak, Sound

LEMMA SkipCommentFollows ==
  ASSUME src \in Seq(STRING), NEW s \in Scanner, AtLineComment(s) \/ AtBlockComment(s)
  PROVE  LET t == SkipComment(s)
         IN  t \in Scanner /\ Follows(s, t) /\ s.off < t.off
<1>1. CASE AtLineComment(s)
  <2>1. C(s, 0) \notin {"LF", "CR", "none"}
    BY <1>1 DEF AtLineComment
  <2>2. SkipComment(s) = ToLineEnd[s]
    BY <1>1 DEF SkipComment
  <2> QED
    BY <2>1, <2>2, ToLineEndFollows
<1>2. CASE ~AtLineComment(s)
  <2>1. AtBlockComment(s) /\ C(s, 0) # "LF"
    BY <1>2 DEF AtBlockComment
  <2>2. SkipComment(s) = BlockComment(s)
    BY <1>2 DEF SkipComment
  <2> QED
    BY <2>1, <2>2, NotInBreak, BlockCommentFollows
<1> QED
  BY <1>1, <1>2
LEMMA Characters ==
  ASSUME NEW c \in {"lead", "none", "LF", "CR"}
  PROVE  c \notin Letter /\ c \notin Digit /\ c \notin HexDigit /\ c \notin Sign /\ c \notin Symbol
         /\ c \notin Escapable
<1>1. c \notin Keyword
  BY DEF Keyword
<1>2. c \notin Letter
  BY <1>1 DEF Letter
<1> QED
  BY <1>2 DEF Digit, HexDigit, Sign, Symbol, Escapable

\* scanIdentifier
LEMMA IdentifierFollows ==
  ASSUME src \in Seq(STRING), NEW s \in Scanner
  PROVE  LET t == Identifier[s]
         IN  /\ t \in Scanner /\ Follows(s, t)
             /\ C(s, 0) \in Letter => s.off < t.off
<1> DEFINE More(x) == C(x, 0) \in Letter \cup Digit
           Dot(x) == C(x, 0) = "." /\ C(x, 1) \in Letter
           Stop == {x \in Scanner : ~More(x) /\ ~Dot(x)}
           next == [x \in Scanner |-> IF x \in Stop THEN x
                                      ELSE IF More(x) THEN AdvanceByte(x) ELSE Advanced(x, 2)]
           Step(h) == [x \in Scanner |-> IF More(x) THEN h[AdvanceByte(x)]
                                         ELSE IF Dot(x) THEN h[Advanced(x, 2)] ELSE x]
           Eq(h) == h = Step(h)
<1>1. ASSUME NEW x \in Scanner, x \notin Stop PROVE Follows(x, next[x]) /\ x.off < next[x].off
  <2>0. x.off \in Nat
    BY ScannerFields
  <2>1. CASE More(x)
    <3>1. C(x, 0) \notin {"lead", "none"}
      BY <2>1, Characters
    <3>2. ~Ended(x)
      BY <3>1, ScannerFields
    <3>3. Follows(x, AdvanceByte(x)) /\ AdvanceByte(x).off = x.off + 1
      BY <3>1, <3>2, ByteFollows
    <3>4. next[x] = AdvanceByte(x)
      <4> HIDE DEF More, Dot
      <4> QED
        BY <1>1, <2>1
    <3> HIDE DEF next
    <3> QED
      BY <2>0, <3>3, <3>4
  <2>2. CASE ~More(x) /\ Dot(x)
    <3>1. C(x, 0) # "lead" /\ C(x, 1) \notin {"lead", "none"}
      BY <2>2, Characters
    <3>2. Follows(x, Advanced(x, 2)) /\ Advanced(x, 2).off = x.off + 2
      BY <3>1, TwoFollow
    <3>3. next[x] = Advanced(x, 2)
      <4> HIDE DEF More, Dot
      <4> QED
        BY <1>1, <2>2
    <3> HIDE DEF next
    <3> QED
      BY <2>0, <3>2, <3>3
  <2> HIDE DEF More, Dot, next
  <2> QED
    BY <1>1, <2>1, <2>2
<1> HIDE DEF More, Dot
<1>2. next \in [Scanner -> Scanner] /\ GoesAhead(Stop, next)
  <2>1. ASSUME NEW x \in Scanner PROVE next[x] \in Scanner
    <3>1. CASE x \in Stop
      BY <3>1
    <3>2. CASE x \notin Stop
      <4>1. Follows(x, next[x])
        <5> HIDE DEF next, Stop
        <5> QED
          BY <1>1, <3>2
      <4> HIDE DEF next, Stop
      <4> QED
        BY <4>1 DEF Follows
    <3> QED
      BY <3>1, <3>2
  <2>2. next = [x \in Scanner |-> next[x]]
    OBVIOUS
  <2> HIDE DEF next, Stop
  <2> QED
    BY <1>1, <2>1, <2>2 DEF GoesAhead
<1>3. ASSUME NEW h PROVE Eq(h) => Iterates(h, Scanner, Stop, Same, next)
  BY DEF Iterates, Same
<1>4. ASSUME NEW h \in [Scanner -> Scanner], Iterates(h, Scanner, Stop, Same, next) PROVE Eq(h)
  <2>1. ASSUME NEW x \in Scanner
        PROVE  h[x] = IF More(x) THEN h[AdvanceByte(x)] ELSE IF Dot(x) THEN h[Advanced(x, 2)] ELSE x
    BY <1>4 DEF Iterates, Same
  <2> QED
    BY <2>1
<1>5. Eq(CHOOSE h : Eq(h))
  <2> HIDE DEF Eq, Stop, next
  <2> QED
    BY <1>2, <1>4, ScannerLoopExists
<1>6. Eq(Identifier)
  <2>1. Identifier = CHOOSE h : Eq(h)
    BY DEF Identifier, More, Dot
  <2> HIDE DEF Eq
  <2> QED
    BY <1>5, <2>1
<1>7. Iterates(Identifier, Scanner, Stop, Same, next)
  <2> HIDE DEF Eq, Stop, next
  <2> QED
    BY <1>3, <1>6
<1>8. Follows(s, Identifier[s]) /\ Identifier[s] \in Scanner
  <2> HIDE DEF Eq, Stop, next
  <2> QED
    BY <1>2, <1>7, ScannerLoop
<1>9. s \notin Stop => s.off < Identifier[s].off
  <2> HIDE DEF Eq, Stop, next
  <2> QED
    BY <1>2, <1>7, ScannerLoopAhead
<1> QED
  BY <1>8, <1>9 DEF More

\* scanString
LEMMA ToQuoteFollows ==
  ASSUME src \in Seq(STRING), NEW s \in Scanner
  PROVE  LET t == ToQuote[s]
         IN  /\ t \in Scanner /\ Follows(s, t)
             /\ C(t, 0) \in {"none", "quote", "LF", "CR"} \/ (C(t, 0) = "\\" /\ C(t, 1) = "none")
<1> DEFINE At(x) == C(x, 0) \in {"none", "quote", "LF", "CR"}
                    \/ (C(x, 0) = "\\" /\ C(x, 1) = "none")
           Plain(x) == C(x, 0) # "\\"
           Known(x) == C(x, 1) \in Escapable
           wrong(x) == AdvanceRune(AdvanceByte(Report(x, x)))
           Stop == {x \in Scanner : At(x)}
           next == [x \in Scanner |-> IF x \in Stop THEN x
                                      ELSE IF Plain(x) THEN AdvanceRune(x)
                                      ELSE IF Known(x) THEN Advanced(x, 2) ELSE wrong(x)]
           Step(h) == [x \in Scanner |-> IF At(x) THEN x
                                         ELSE IF Plain(x) THEN h[AdvanceRune(x)]
                                         ELSE IF Known(x) THEN h[Advanced(x, 2)] ELSE h[wrong(x)]]
           Eq(h) == h = Step(h)
<1>1. ASSUME NEW x \in Scanner, x \notin Stop PROVE Follows(x, next[x]) /\ x.off < next[x].off
  <2>0. x.off \in Nat /\ C(x, 0) # "none" /\ ~Ended(x) /\ C(x, 0) # "LF"
        /\ (C(x, 0) = "\\" => C(x, 1) # "none")
    BY <1>1, ScannerFields
  <2>1. CASE Plain(x)
    <3>1. next[x] = AdvanceRune(x)
      <4> HIDE DEF Plain, Known, At, wrong
      <4> QED
        BY <1>1, <2>1
    <3> HIDE DEF next
    <3> QED
      BY <2>0, <3>1, RuneFollows
  <2>2. CASE ~Plain(x) /\ Known(x)
    <3>1. C(x, 0) # "lead" /\ C(x, 1) \notin {"lead", "none"}
      BY <2>2, Characters
    <3>2. Follows(x, Advanced(x, 2)) /\ Advanced(x, 2).off = x.off + 2
      BY <3>1, TwoFollow
    <3>3. next[x] = Advanced(x, 2)
      <4> HIDE DEF Plain, Known, At, wrong
      <4> QED
        BY <1>1, <2>2
    <3> HIDE DEF next
    <3> QED
      BY <2>0, <3>2, <3>3
  <2>3. CASE ~Plain(x) /\ ~Known(x)
    <3> DEFINE r == Report(x, x)
               b == AdvanceByte(r)
    <3>1. Follows(x, r) /\ r.off = x.off
      BY <2>0, FollowsItself, NotInBreak, ReportFollows
    <3>2. r \in Scanner /\ \A k : C(r, k) = C(x, k)
      BY <3>1 DEF Follows, C
    <3> HIDE DEF r
    <3>3. ~Ended(r) /\ C(r, 0) # "lead"
      BY <2>0, <2>3, <3>1, <3>2 DEF Ended
    <3>4. Follows(r, b) /\ b.off = r.off + 1 /\ b \in Scanner
          /\ \A k \in Nat : C(b, k) = C(r, k + 1)
      BY <3>2, <3>3, ByteFollows
    <3> HIDE DEF b
    <3>5. C(b, 0) # "none"
      <4>1. C(b, 0) = C(r, 0 + 1)
        BY <3>4
      <4>2. 0 + 1 = 1
        OBVIOUS
      <4> QED
        BY <2>0, <2>3, <3>2, <4>1, <4>2
    <3>6. Follows(b, AdvanceRune(b)) /\ b.off < AdvanceRune(b).off
      BY <3>4, <3>5, ScannerFields, RuneFollows
    <3>7. Follows(x, AdvanceRune(b))
      BY <3>1, <3>2, <3>4, <3>6, FollowsTransitive
    <3>8. x.off < AdvanceRune(b).off
      <4> DEFINE y == AdvanceRune(b)
      <4>1. y \in Scanner /\ b.off < y.off
        BY <3>6 DEF Follows
      <4> HIDE DEF y
      <4>2. b \in Scanner /\ x.off \in Nat /\ r.off = x.off /\ b.off = r.off + 1
        BY <2>0, <3>1, <3>4
      <4>3. b.off \in Nat /\ y.off \in Nat
        BY <4>1, <4>2, ScannerFields
      <4>4. x.off < y.off
        BY <4>1, <4>2, <4>3
      <4> QED
        BY <4>4 DEF y
    <3>9. next[x] = wrong(x)
      <4> HIDE DEF Plain, Known, At, wrong
      <4> QED
        BY <1>1, <2>3
    <3> HIDE DEF next
    <3> QED
      BY <3>7, <3>8, <3>9 DEF r, b
  <2> HIDE DEF Plain, Known, At, next
  <2> QED
    BY <1>1, <2>1, <2>2, <2>3
<1> HIDE DEF Plain, Known, At, wrong
<1>2. next \in [Scanner -> Scanner] /\ GoesAhead(Stop, next)
  <2>1. ASSUME NEW x \in Scanner PROVE next[x] \in Scanner
    <3>1. CASE x \in Stop
      BY <3>1
    <3>2. CASE x \notin Stop
      <4>1. Follows(x, next[x])
        <5> HIDE DEF next, Stop
        <5> QED
          BY <1>1, <3>2
      <4> HIDE DEF next, Stop
      <4> QED
        BY <4>1 DEF Follows
    <3> QED
      BY <3>1, <3>2
  <2>2. next = [x \in Scanner |-> next[x]]
    OBVIOUS
  <2> HIDE DEF next, Stop
  <2> QED
    BY <1>1, <2>1, <2>2 DEF GoesAhead
<1>3. ASSUME NEW h PROVE Eq(h) => Iterates(h, Scanner, Stop, Same, next)
  BY DEF Iterates, Same
<1>4. ASSUME NEW h \in [Scanner -> Scanner], Iterates(h, Scanner, Stop, Same, next) PROVE Eq(h)
  <2>1. ASSUME NEW x \in Scanner
        PROVE  h[x] = IF At(x) THEN x
                      ELSE IF Plain(x) THEN h[AdvanceRune(x)]
                      ELSE IF Known(x) THEN h[Advanced(x, 2)] ELSE h[wrong(x)]
    BY <1>4 DEF Iterates, Same
  <2> QED
    BY <2>1
<1>5. Eq(CHOOSE h : Eq(h))
  <2> HIDE DEF Eq, Stop, next
  <2> QED
    BY <1>2, <1>4, ScannerLoopExists
<1>6. Eq(ToQuote)
  <2>1. ToQuote = CHOOSE h : Eq(h)
    BY DEF ToQuote, At, Plain, Known, wrong
  <2> HIDE DEF Eq
  <2> QED
    BY <1>5, <2>1
<1>7. Iterates(ToQuote, Scanner, Stop, Same, next)
  <2> HIDE DEF Eq, Stop, next
  <2> QED
    BY <1>3, <1>6
<1>8. ToQuote[s] \in Stop /\ Follows(s, ToQuote[s]) /\ ToQuote[s] \in Scanner
  <2> HIDE DEF Eq, Stop, next
  <2> QED
    BY <1>2, <1>7, ScannerLoop
<1> QED
  BY <1>8 DEF At

LEMMA ScanStringFollows ==
  ASSUME src \in Seq(STRING), NEW s \in Scanner, C(s, 0) = "quote"
  PROVE  ScanString(s) \in Scanner /\ Follows(s, ScanString(s))
<1> DEFINE b == AdvanceByte(s)
           q == ToQuote[b]
<1>1. ~Ended(s) /\ b \in Scanner /\ Follows(s, b)
  <2>1. ~Ended(s)
    BY ScannerFields
  <2> QED
    BY <2>1, ByteFollows
<1> HIDE DEF b
<1>2. q \in Scanner /\ Follows(b, q)
      /\ (C(q, 0) \in {"none", "quote", "LF", "CR"} \/ (C(q, 0) = "\\" /\ C(q, 1) = "none"))
  BY <1>1, ToQuoteFollows
<1> HIDE DEF q
<1>3. Follows(s, q)
  BY <1>1, <1>2, FollowsTransitive
<1>4. Sound(s) => s.line = LineOf(s.off) /\ s.col = ColumnOf(s.off)
  BY NotInBreak
<1>5. C(q, 0) \in {"quote", "\\"} => Follows(s, AdvanceByte(q))
  <2>1. ASSUME C(q, 0) \in {"quote", "\\"} PROVE Follows(q, AdvanceByte(q))
    <3>1. ~Ended(q)
      BY <1>2, <2>1, ScannerFields
    <3> QED
      BY <1>2, <2>1, <3>1, ByteFollows
  <2> QED
    BY <1>2, <1>3, <2>1, FollowsTransitive
<1>6. CASE C(q, 0) = "quote"
  <2>1. ScanString(s) = AdvanceByte(q)
    BY <1>6 DEF ScanString, q, b
  <2> QED
    BY <1>5, <1>6, <2>1 DEF Follows
<1>7. CASE C(q, 0) = "\\"
  <2>1. ScanString(s) = Report(AdvanceByte(q), s)
    BY <1>7 DEF ScanString, q, b
  <2>2. Follows(s, AdvanceByte(q))
    BY <1>5, <1>7
  <2>3. Follows(s, Report(AdvanceByte(q), s))
    BY <1>4, <2>2, ReportFollows
  <2> QED
    BY <2>1, <2>3 DEF Follows
<1>8. CASE C(q, 0) \notin {"quote", "\\"}
  <2>1. ScanString(s) = Report(q, s)
    BY <1>8 DEF ScanString, q, b
  <2>2. Follows(s, Report(q, s))
    BY <1>3, <1>4, ReportFollows
  <2> QED
    BY <2>1, <2>2 DEF Follows
<1> QED
  BY <1>6, <1>7, <1>8
-----------------------------------------------------------------------------
(***************************************************************************)
(* Numbers.  The characters that were matched are there, and each of them  *)
(* is a rune.                                                              *)
(***************************************************************************)
Solid(s, n) == n \in Nat /\ \A k \in 0..n - 1 : C(s, k) \notin {"lead", "none"}

LEMMA SolidOne ==
  ASSUME NEW s, NEW n, Solid(s, n), C(s, n) \notin {"lead", "none"}
  PROVE  Solid(s, n + 1)
<1>1. n \in Nat /\ \A k \in 0..n - 1 : C(s, k) \notin {"lead", "none"}
  BY DEF Solid
<1>2. n + 1 \in Nat /\ \A k \in 0..(n + 1) - 1 : k \in 0..n - 1 \/ k = n
  BY <1>1
<1>3. ASSUME NEW k \in 0..(n + 1) - 1 PROVE C(s, k) \notin {"lead", "none"}
  BY <1>1, <1>2
<1> QED
  BY <1>2, <1>3 DEF Solid

LEMMA SolidRun ==
  ASSUME src \in Seq(STRING), NEW s \in Scanner, NEW n, Solid(s, n), NEW S,
         "lead" \notin S, "none" \notin S
  PROVE  Run(s, n, S) \in Nat /\ Solid(s, n + Run(s, n, S))
<1> DEFINE N == Len(src)
           T == {j \in 0..N : C(s, n + j) \notin S}
           P(j) == C(s, n + j) \notin S /\ \A m \in 0..j - 1 : C(s, n + m) \in S
           r == Run(s, n, S)
<1>1. N \in Nat /\ n \in Nat /\ s.off \in Nat /\ s.off > 0
  <2>1. N \in Nat /\ s.off \in Nat /\ s.off \in 1..N + 1
    BY ScannerFields
  <2> QED
    BY <2>1 DEF Solid
<1>2. N \in T
  <2>1. n + N \in Nat /\ s.off + (n + N) > Len(src) /\ N \in 0..N
    BY <1>1
  <2>2. C(s, n + N) = "none"
    BY <2>1, CharacterAt
  <2> QED
    BY <2>1, <2>2
<1>3. Min(T) \in T /\ \A j \in T : Min(T) <= j
  <2>1. T \in SUBSET (0..N) /\ T # {}
    BY <1>2
  <2> HIDE DEF T, N
  <2> QED
    BY <1>1, <2>1, LeastAndGreatest
<1>4. \E j \in 0..N : P(j)
  <2> DEFINE a == Min(T)
  <2>1. a \in 0..N /\ C(s, n + a) \notin S /\ \A j \in T : a <= j
    BY <1>3
  <2> HIDE DEF a
  <2>2. ASSUME NEW m \in 0..a - 1 PROVE C(s, n + m) \in S
    <3>1. m \in 0..N /\ ~(a <= m)
      BY <1>1, <2>1
    <3> QED
      BY <2>1, <3>1
  <2> QED
    BY <2>1, <2>2
<1>5. r \in 0..N /\ P(r)
  <2>1. r = CHOOSE j \in 0..N : P(j)
    BY DEF Run
  <2> HIDE DEF r, P, N
  <2> QED
    BY <1>4, <2>1
<1> HIDE DEF r, N, T
<1>6. r \in Nat /\ n + r \in Nat
  BY <1>1, <1>5
<1>7. ASSUME NEW k \in 0..n + r - 1 PROVE C(s, k) \notin {"lead", "none"}
  <2>1. CASE k \in 0..n - 1
    BY <2>1 DEF Solid
  <2>2. CASE k \notin 0..n - 1
    <3>1. k - n \in 0..r - 1 /\ n + (k - n) = k
      BY <1>1, <1>6, <2>2
    <3>2. C(s, n + (k - n)) \in S
      BY <1>5, <3>1
    <3> QED
      BY <3>1, <3>2
  <2> QED
    BY <2>1, <2>2
<1>8. Solid(s, n + r)
  BY <1>6, <1>7 DEF Solid
<1> QED
  BY <1>6, <1>8 DEF r

LEMMA SolidSign ==
  ASSUME NEW s, NEW n, Solid(s, n)
  PROVE  SignLen(s, n) \in Nat /\ Solid(s, n + SignLen(s, n))
<1>1. CASE C(s, n) \in Sign
  <2>1. C(s, n) \notin {"lead", "none"}
    BY <1>1, Characters
  <2> QED
    BY <1>1, <2>1, SolidOne DEF SignLen
<1>2. CASE C(s, n) \notin Sign
  <2>1. n + 0 = n
    BY DEF Solid
  <2> QED
    BY <1>2, <2>1 DEF SignLen
<1> QED
  BY <1>1, <1>2

LEMMA SolidDigits ==
  ASSUME src \in Seq(STRING), NEW s \in Scanner, NEW n, Solid(s, n)
  PROVE  /\ Run(s, n, Digit) \in Nat /\ Solid(s, n + Run(s, n, Digit))
         /\ Run(s, n, HexDigit) \in Nat /\ Solid(s, n + Run(s, n, HexDigit))
<1>1. "lead" \notin Digit /\ "none" \notin Digit /\ "lead" \notin HexDigit /\ "none" \notin HexDigit
  BY Characters
<1>2. Run(s, n, Digit) \in Nat /\ Solid(s, n + Run(s, n, Digit))
  BY <1>1, SolidRun
<1>3. Run(s, n, HexDigit) \in Nat /\ Solid(s, n + Run(s, n, HexDigit))
  BY <1>1, SolidRun
<1> QED
  BY <1>2, <1>3

LEMMA MatchesSolid ==
  ASSUME src \in Seq(STRING), NEW s \in Scanner
  PROVE  Solid(s, MatchInt(s)) /\ Solid(s, MatchHex(s)) /\ Solid(s, MatchDouble(s))
<1>1. Solid(s, 0)
  BY DEF Solid
<1> DEFINE g == SignLen(s, 0)
<1>2. g \in Nat /\ Solid(s, g)
  <2>1. g \in Nat /\ Solid(s, 0 + g)
    BY <1>1, SolidSign
  <2>2. 0 + g = g
    BY <2>1
  <2> QED
    BY <2>1, <2>2
<1>3. Solid(s, MatchInt(s))
  <2>1. Solid(s, g + Run(s, g, Digit))
    BY <1>2, SolidDigits
  <2> QED
    BY <1>1, <2>1 DEF MatchInt
<1>4. Solid(s, MatchHex(s))
  <2>1. CASE C(s, g) = "0" /\ C(s, g + 1) = "x"
    <3>1. Solid(s, g + 1)
      BY <1>2, <2>1, SolidOne
    <3>2. Solid(s, (g + 1) + 1)
      BY <2>1, <3>1, SolidOne
    <3>3. (g + 1) + 1 = g + 2
      BY <1>2
    <3>4. Solid(s, (g + 2) + Run(s, g + 2, HexDigit))
      BY <3>2, <3>3, SolidDigits
    <3> QED
      BY <1>1, <3>4 DEF MatchHex
  <2>2. CASE ~(C(s, g) = "0" /\ C(s, g + 1) = "x")
    BY <1>1, <2>2 DEF MatchHex
  <2> QED
    BY <2>1, <2>2
<1>5. Solid(s, MatchDouble(s))
  <2> DEFINE whole == g + Run(s, g, Digit)
             point == C(s, whole) = "."
             fraction == IF point THEN 1 + Run(s, whole + 1, Digit) ELSE 0
             power == whole + fraction
             sign == SignLen(s, power + 1)
             exponent == Run(s, power + 1 + sign, Digit)
  <2>1. MatchDouble(s) \in {0, power}
        \/ (C(s, power) = "e" /\ MatchDouble(s) = power + 1 + sign + exponent)
    <3>1. MatchDouble(s) =
            IF fraction = 1 THEN 0
            ELSE IF C(s, power) = "e"
                 THEN IF exponent = 0 \/ (~point /\ MatchInt(s) = 0) THEN 0
                      ELSE power + 1 + sign + exponent
            ELSE IF ~point /\ MatchInt(s) = 0 THEN 0 ELSE power
      BY DEF MatchDouble
    <3> HIDE DEF g, whole, point, fraction, power, sign, exponent
    <3> QED
      BY <3>1
  <2>2. Solid(s, whole)
    BY <1>2, SolidDigits
  <2>3. Solid(s, power)
    <3> HIDE DEF whole
    <3>1. whole \in Nat
      BY <2>2 DEF Solid
    <3>2. CASE point
      <4>1. Solid(s, whole + 1)
        BY <2>2, <3>2, SolidOne
      <4> DEFINE d == Run(s, whole + 1, Digit)
      <4>2. d \in Nat /\ Solid(s, (whole + 1) + d)
        BY <4>1, SolidDigits
      <4>3. power = whole + (1 + d)
        BY <3>2
      <4> HIDE DEF d
      <4>4. (whole + 1) + d = whole + (1 + d)
        BY <3>1, <4>2
      <4> QED
        BY <4>2, <4>3, <4>4
    <3>3. CASE ~point
      <4>1. power = whole + 0
        BY <3>3
      <4>2. power = whole
        BY <3>1, <4>1
      <4> QED
        BY <2>2, <4>2
    <3> QED
      BY <3>2, <3>3
  <2> HIDE DEF power
  <2>4. ASSUME C(s, power) = "e" PROVE Solid(s, power + 1 + sign + exponent)
    <3>1. Solid(s, power + 1)
      BY <2>3, <2>4, SolidOne
    <3>2. Solid(s, (power + 1) + sign)
      BY <3>1, SolidSign
    <3> HIDE DEF sign
    <3> QED
      BY <3>2, SolidDigits
  <2> HIDE DEF sign, exponent
  <2> QED
    BY <1>1, <2>1, <2>3, <2>4
<1> QED
  BY <1>3, <1>4, <1>5

LEMMA NumberFollows ==
  ASSUME src \in Seq(STRING), NEW s \in Scanner
  PROVE  LET t == Advanced(s, Number(s).len)
         IN  Number(s).kind \in {"int", "double"} /\ t \in Scanner /\ Follows(s, t)
<1> DEFINE n == Number(s).len
<1>1. n \in {MatchInt(s), MatchHex(s), MatchDouble(s)} /\ Number(s).kind \in {"int", "double"}
  <2> DEFINE hex == MatchHex(s)
             int == MatchInt(s)
             double == MatchDouble(s)
  <2>1. Number(s) = IF hex > 0 /\ hex >= int /\ hex >= double THEN [kind |-> "int", len |-> hex]
                    ELSE IF int > 0 /\ int >= double THEN [kind |-> "int", len |-> int]
                    ELSE [kind |-> "double", len |-> double]
    BY DEF Number
  <2> HIDE DEF hex, int, double
  <2>2. \/ Number(s) = [kind |-> "int", len |-> hex]
        \/ Number(s) = [kind |-> "int", len |-> int]
        \/ Number(s) = [kind |-> "double", len |-> double]
    BY <2>1, Zenon
  <2>3. Number(s).len \in {int, hex, double} /\ Number(s).kind \in {"int", "double"}
    BY <2>2
  <2> QED
    BY <2>3, Zenon DEF hex, int, double
<1>2. Solid(s, n)
  BY <1>1, MatchesSolid
<1> HIDE DEF n
<1>3. n \in Nat /\ \A k \in 0..n - 1 : C(s, k) \notin {"lead", "none"}
  BY <1>2 DEF Solid
<1>4. s.off \in 1..Len(src) + 1 /\ Len(src) \in Nat
  BY ScannerFields
<1>5. s.off + n <= Len(src) + 1
  <2>1. CASE n = 0
    BY <1>4, <2>1
  <2>2. CASE n # 0
    <3>1. n - 1 \in Nat /\ n - 1 \in 0..n - 1
      BY <1>3, <2>2
    <3>2. ~(s.off + (n - 1) > Len(src))
      BY <1>3, <3>1, CharacterAt
    <3> QED
      BY <1>3, <1>4, <3>2
  <2> QED
    BY <2>1, <2>2
<1>6. Follows(s, Advanced(s, n))
  BY <1>3, <1>5, AdvancedFollows
<1> QED
  BY <1>1, <1>6 DEF n, Follows
-----------------------------------------------------------------------------
(***************************************************************************)
(* scanToken: behind what no token begins with there is a token or the     *)
(* end, and without an error nothing was passed over.                      *)
(***************************************************************************)
AtComment(s) == AtLineComment(s) \/ AtBlockComment(s)
PassedOver == [s \in Scanner |->
  IF AtToken(s) THEN s
  ELSE IF C(s, 0) \in Blank THEN AdvanceByte(s)
  ELSE IF AtComment(s) THEN SkipComment(s)
  ELSE AdvanceRune(Report(s, s))]

\* The character that no token begins with is reported.
LEMMA WrongCharacter ==
  ASSUME src \in Seq(STRING), NEW s \in Scanner, ~Ended(s), C(s, 0) # "LF"
  PROVE  LET t == AdvanceRune(Report(s, s))
         IN  Follows(s, t) /\ s.off < t.off /\ t.errs # {}
<1> DEFINE r == Report(s, s)
           t == AdvanceRune(r)
<1>1. Follows(s, r) /\ r.off = s.off /\ r.errs # {}
  BY FollowsItself, NotInBreak, ReportFollows
<1>2. r \in Scanner /\ ~Ended(r)
  BY <1>1 DEF Follows, Ended
<1> HIDE DEF r
<1>3. Follows(r, t) /\ r.off < t.off /\ t.errs = r.errs
  BY <1>2, RuneFollows
<1> HIDE DEF t
<1>4. Follows(s, t) /\ s.off < t.off /\ t.errs # {}
  BY <1>1, <1>2, <1>3, FollowsTransitive
<1> QED
  BY <1>4 DEF t, r

LEMMA PassedOverAhead ==
  ASSUME src \in Seq(STRING), NEW s \in Scanner, ~AtToken(s)
  PROVE  /\ Follows(s, PassedOver[s]) /\ s.off < PassedOver[s].off
         /\ C(s, 0) \notin Blank /\ ~AtComment(s) => PassedOver[s].errs # {}
<1>0. ~Ended(s) /\ s.off \in Nat
  BY ScannerFields DEF AtToken
<1>1. CASE C(s, 0) \in Blank
  <2>1. PassedOver[s] = AdvanceByte(s)
    BY <1>1 DEF PassedOver
  <2>2. C(s, 0) # "lead"
    BY <1>1 DEF Blank
  <2>3. Follows(s, AdvanceByte(s)) /\ AdvanceByte(s).off = s.off + 1
    BY <1>0, <2>2, ByteFollows
  <2>4. s.off < AdvanceByte(s).off
    BY <1>0, <2>3
  <2> QED
    BY <1>1, <2>1, <2>3, <2>4
<1>2. CASE C(s, 0) \notin Blank /\ AtComment(s)
  <2>1. PassedOver[s] = SkipComment(s)
    BY <1>2 DEF PassedOver
  <2> QED
    BY <1>2, <2>1, SkipCommentFollows DEF AtComment
<1>3. CASE C(s, 0) \notin Blank /\ ~AtComment(s)
  <2>1. PassedOver[s] = AdvanceRune(Report(s, s))
    BY <1>3 DEF PassedOver
  <2>2. C(s, 0) # "LF"
    BY <1>3 DEF Blank
  <2> QED
    BY <1>0, <2>1, <2>2, WrongCharacter
<1> QED
  BY <1>1, <1>2, <1>3

LEMMA ToTokenFollows ==
  ASSUME src \in Seq(STRING), NEW s \in Scanner
  PROVE  LET t == ToToken[s]
         IN  /\ t \in Scanner /\ Follows(s, t) /\ AtToken(t)
             /\ C(s, 0) \notin Blank /\ ~AtComment(s) /\ t.errs = {} => t = s
<1> DEFINE Stop == {x \in Scanner : AtToken(x)}
           next == PassedOver
           Step(h) == [x \in Scanner |-> IF AtToken(x) THEN x
                                         ELSE IF C(x, 0) \in Blank THEN h[AdvanceByte(x)]
                                         ELSE IF AtComment(x) THEN h[SkipComment(x)]
                                         ELSE h[AdvanceRune(Report(x, x))]]
           Eq(h) == h = Step(h)
<1>1. GoesAhead(Stop, next)
  BY PassedOverAhead DEF GoesAhead
<1>2. next \in [Scanner -> Scanner]
  <2>1. ASSUME NEW x \in Scanner PROVE next[x] \in Scanner
    <3>1. CASE AtToken(x)
      BY <3>1 DEF PassedOver
    <3>2. CASE ~AtToken(x)
      BY <3>2, PassedOverAhead DEF Follows
    <3> QED
      BY <3>1, <3>2
  <2>2. next = [x \in Scanner |-> next[x]]
    BY DEF PassedOver
  <2> HIDE DEF next
  <2> QED
    BY <2>1, <2>2
<1>3. ASSUME NEW h PROVE Eq(h) => Iterates(h, Scanner, Stop, Same, next)
  BY DEF Iterates, Same, PassedOver
<1>4. ASSUME NEW h \in [Scanner -> Scanner], Iterates(h, Scanner, Stop, Same, next) PROVE Eq(h)
  <2>1. ASSUME NEW x \in Scanner
        PROVE  h[x] = IF AtToken(x) THEN x
                      ELSE IF C(x, 0) \in Blank THEN h[AdvanceByte(x)]
                      ELSE IF AtComment(x) THEN h[SkipComment(x)]
                      ELSE h[AdvanceRune(Report(x, x))]
    BY <1>4 DEF Iterates, Same, PassedOver
  <2> QED
    BY <2>1
<1>5. Eq(CHOOSE h : Eq(h))
  <2> HIDE DEF Eq, Stop, next
  <2> QED
    BY <1>1, <1>2, <1>4, ScannerLoopExists
<1>6. Eq(ToToken)
  <2>1. ToToken = CHOOSE h : Eq(h)
    BY DEF ToToken, AtComment
  <2> HIDE DEF Eq
  <2> QED
    BY <1>5, <2>1
<1>7. Iterates(ToToken, Scanner, Stop, Same, next)
  <2> HIDE DEF Eq, Stop, next
  <2> QED
    BY <1>3, <1>6
<1> DEFINE t == ToToken[s]
<1>8. t \in Stop /\ Follows(s, t) /\ t \in Scanner /\ (s \in Stop => t = s)
  <2> HIDE DEF Eq, Stop, next
  <2> QED
    BY <1>1, <1>7, ScannerLoop
<1>9. s \notin Stop => Follows(next[s], t)
  <2> HIDE DEF Eq, Stop, next
  <2> QED
    BY <1>1, <1>7, ScannerLoopAhead
<1>10. ASSUME C(s, 0) \notin Blank, ~AtComment(s), s \notin Stop PROVE t.errs # {}
  <2>1. PassedOver[s].errs # {}
    BY <1>10, PassedOverAhead
  <2>2. PassedOver[s].errs \subseteq t.errs
    BY <1>9, <1>10 DEF Follows
  <2> QED
    BY <2>1, <2>2
<1> HIDE DEF t
<1>11. t \in Scanner /\ Follows(s, t) /\ AtToken(t)
       /\ (C(s, 0) \notin Blank /\ ~AtComment(s) /\ t.errs = {} => t = s)
  BY <1>8, <1>10
<1> QED
  BY <1>11 DEF t

LEMMA TokenFollows ==
  ASSUME src \in Seq(STRING), NEW s \in Scanner, AtToken(s)
  PROVE  /\ TokenEnd(s) \in Scanner /\ Follows(s, TokenEnd(s)) /\ TokenKind(s) \in TokenKinds
         /\ C(s, 0) # "LF" /\ (TokenKind(s) = "eof" => Ended(TokenEnd(s)))
<1>1. CASE Ended(s)
  <2>1. C(s, 0) = "none"
    BY <1>1, ScannerFields
  <2>2. TokenEnd(s) = s /\ TokenKind(s) = "eof"
    BY <1>1, <2>1, Characters DEF TokenEnd, TokenKind
  <2>3. "eof" \in TokenKinds
    BY DEF TokenKinds
  <2> QED
    BY <1>1, <2>1, <2>2, <2>3, FollowsItself
<1>2. CASE ~Ended(s) /\ C(s, 0) \in Letter
  <2>1. C(s, 0) \notin Symbol /\ C(s, 0) # "quote"
    BY <1>2 DEF Letter, Keyword, Symbol
  <2>2. TokenEnd(s) = Identifier[s] /\ TokenKind(s) = IdentifierKind(s, Identifier[s])
    BY <1>2, <2>1 DEF TokenEnd, TokenKind
  <2>3. TokenKind(s) \in TokenKinds /\ TokenKind(s) # "eof"
    BY <2>2 DEF IdentifierKind, TokenKinds, Keyword
  <2>4. C(s, 0) # "LF"
    BY <1>2, Characters
  <2> QED
    BY <2>2, <2>3, <2>4, IdentifierFollows
<1>3. CASE ~Ended(s) /\ C(s, 0) = "quote"
  <2>1. C(s, 0) \notin Symbol /\ C(s, 0) \notin Letter
    BY <1>3 DEF Letter, Keyword, Symbol
  <2>2. TokenEnd(s) = ScanString(s) /\ TokenKind(s) = "string"
    BY <1>3, <2>1 DEF TokenEnd, TokenKind
  <2>3. TokenKind(s) \in TokenKinds /\ TokenKind(s) # "eof"
    BY <2>2 DEF TokenKinds
  <2> QED
    BY <1>3, <2>2, <2>3, ScanStringFollows
<1>4. CASE ~Ended(s) /\ C(s, 0) \in Symbol
  <2>1. C(s, 0) \notin Letter /\ C(s, 0) # "quote" /\ C(s, 0) \notin {"lead", "LF"}
    BY <1>4 DEF Letter, Keyword, Symbol
  <2>2. TokenEnd(s) = AdvanceByte(s) /\ TokenKind(s) = C(s, 0)
    BY <1>4, <2>1 DEF TokenEnd, TokenKind
  <2>3. TokenKind(s) \in TokenKinds /\ TokenKind(s) # "eof"
    BY <1>4, <2>2 DEF TokenKinds, Symbol
  <2> QED
    BY <1>4, <2>1, <2>2, <2>3, ByteFollows
<1>5. CASE ~Ended(s) /\ C(s, 0) \notin Letter \cup Symbol \cup {"quote"}
  <2>1. TokenEnd(s) = Advanced(s, Number(s).len) /\ TokenKind(s) = Number(s).kind
    BY <1>5 DEF TokenEnd, TokenKind
  <2>2. TokenKind(s) \in TokenKinds /\ TokenKind(s) # "eof"
    BY <2>1, NumberFollows DEF TokenKinds
  <2>3. C(s, 0) # "LF"
    <3>1. AtNumber(s)
      BY <1>5 DEF AtToken
    <3> QED
      BY <3>1, Characters DEF AtNumber
  <2> QED
    BY <2>1, <2>2, <2>3, NumberFollows
<1> QED
  BY <1>1, <1>2, <1>3, <1>4, <1>5
-----------------------------------------------------------------------------
(***************************************************************************)
(* skipWhitespace.  The breaks are the lines it goes down.                 *)
(***************************************************************************)
NotBlank == {t \in Spacing : C(t.scan, 0) \notin Blank}
Counted == [t \in Spacing |-> [scan |-> t.scan, blank |-> BlankLines(t.breaks)]]
PastBlank == [t \in Spacing |->
  IF C(t.scan, 0) \notin Blank THEN t
  ELSE IF C(t.scan, 0) = "space" THEN [t EXCEPT !.scan = AdvanceByte(@)]
  ELSE IF C(t.scan, 0) = "CR" /\ C(t.scan, 1) = "LF"
       THEN [scan |-> AdvanceByte(AdvanceByte(t.scan)), breaks |-> t.breaks + 1]
  ELSE [scan |-> AdvanceByte(t.scan), breaks |-> t.breaks + 1]]

\* The characters from a on and before b are whitespace.
AllBlank(a, b) == \A j \in a..b - 1 : src[j] \in Blank

LEMMA AllBlankTogether ==
  ASSUME NEW a \in Int, NEW b \in Int, NEW c \in Int
  PROVE  AllBlank(a, a) /\ (AllBlank(a, b) /\ AllBlank(b, c) => AllBlank(a, c))
<1>1. AllBlank(a, a)
  BY DEF AllBlank
<1>2. ASSUME AllBlank(a, b), AllBlank(b, c), NEW j \in a..c - 1 PROVE src[j] \in Blank
  <2>1. j \in a..b - 1 \/ j \in b..c - 1
    OBVIOUS
  <2> QED
    BY <1>2, <2>1 DEF AllBlank
<1> QED
  BY <1>1, <1>2 DEF AllBlank

LEMMA BlankOne ==
  ASSUME src \in Seq(STRING), NEW s \in Scanner, C(s, 0) \in Blank
  PROVE  AllBlank(s.off, s.off + 1)
<1>1. C(s, 0) # "none"
  BY DEF Blank
<1>2. s.off \in Nat /\ src[s.off] \in Blank
  BY <1>1, ScannerFields
<1>3. \A j \in s.off..(s.off + 1) - 1 : j = s.off
  BY <1>2
<1> QED
  BY <1>2, <1>3 DEF AllBlank

\* From t to u by whitespace.
Spaces(t, u) ==
  /\ u \in Spacing
  /\ Follows(t.scan, u.scan) /\ u.scan.errs = t.scan.errs
  /\ AllBlank(t.scan.off, u.scan.off)
  /\ u.breaks - t.breaks = u.scan.line - t.scan.line

LEMMA PastBlankSpaces ==
  ASSUME src \in Seq(STRING), NEW t \in Spacing, C(t.scan, 0) \in Blank
  PROVE  Spaces(t, PastBlank[t]) /\ t.scan.off < PastBlank[t].scan.off
<1> DEFINE s == t.scan
           b == AdvanceByte(s)
           u == PastBlank[t]
<1>1. s \in Scanner /\ t.breaks \in Nat
  BY DEF Spacing
<1>2. s.off \in Nat /\ s.line \in Nat /\ ~Ended(s) /\ C(s, 0) # "lead"
  BY <1>1, ScannerFields DEF Blank
<1>3. /\ Follows(s, b) /\ b.off = s.off + 1 /\ b.errs = s.errs /\ b \in Scanner
      /\ b.line = s.line + (IF Breaks(s) THEN 1 ELSE 0)
  BY <1>1, <1>2, ByteFollows
<1>4. \A k \in Nat : C(b, k) = C(s, k + 1)
  BY <1>1, <1>2, ByteFollows
<1> HIDE DEF b
<1>5. CASE C(s, 0) = "space"
  <2>1. ~Breaks(s)
    BY <1>5 DEF Breaks
  <2>2. u = [t EXCEPT !.scan = b]
    BY <1>5 DEF PastBlank, b
  <2>3. u \in Spacing /\ u.scan = b /\ u.breaks = t.breaks
    BY <1>3, <2>2 DEF Spacing
  <2> HIDE DEF u
  <2>4. u.breaks - t.breaks = u.scan.line - s.line /\ s.off < u.scan.off
    <3>1. b.line = s.line + 0 /\ b.off = s.off + 1
      BY <1>3, <2>1
    <3>2. /\ u.scan.line = b.line /\ u.scan.off = b.off /\ u.breaks = t.breaks
          /\ t.breaks \in Nat /\ s.line \in Nat /\ s.off \in Nat
      BY <1>1, <1>2, <2>3
    <3> QED
      BY <3>1, <3>2
  <2>5. AllBlank(s.off, u.scan.off)
    BY <1>1, <1>3, <2>3, BlankOne
  <2> QED
    BY <1>3, <2>3, <2>4, <2>5 DEF Spaces, u
<1>6. CASE C(s, 0) = "CR" /\ C(s, 1) = "LF"
  <2> DEFINE a == AdvanceByte(b)
  <2>1. ~Breaks(s)
    BY <1>6 DEF Breaks
  <2>2. C(b, 0) = "LF"
    <3>1. C(b, 0) = C(s, 0 + 1)
      BY <1>4
    <3>2. 0 + 1 = 1
      OBVIOUS
    <3> QED
      BY <1>6, <3>1, <3>2
  <2>3. Breaks(b) /\ ~Ended(b)
    BY <1>3, <2>2, ScannerFields DEF Breaks
  <2>4. /\ Follows(b, a) /\ a.off = b.off + 1 /\ a.errs = b.errs /\ a \in Scanner
        /\ a.line = b.line + (IF Breaks(b) THEN 1 ELSE 0)
    BY <1>3, <2>2, <2>3, ByteFollows
  <2> HIDE DEF a
  <2>5. u = [scan |-> a, breaks |-> t.breaks + 1]
    BY <1>6 DEF PastBlank, a, b, Blank
  <2>6. u \in Spacing /\ u.scan = a /\ u.breaks = t.breaks + 1
    BY <1>1, <2>4, <2>5 DEF Spacing
  <2> HIDE DEF u
  <2>7. u.breaks - t.breaks = u.scan.line - s.line /\ s.off < u.scan.off
    <3>1. b.line = s.line + 0 /\ b.off = s.off + 1 /\ a.line = b.line + 1 /\ a.off = b.off + 1
      BY <1>3, <2>1, <2>3, <2>4
    <3>2. /\ u.scan.line = a.line /\ u.scan.off = a.off /\ u.breaks = t.breaks + 1
          /\ t.breaks \in Nat /\ s.line \in Nat /\ s.off \in Nat
      BY <1>1, <1>2, <2>6
    <3> QED
      BY <3>1, <3>2
  <2>8. Follows(s, a) /\ a.errs = s.errs
    BY <1>1, <1>3, <2>4, FollowsTransitive
  <2>9. AllBlank(s.off, u.scan.off)
    <3>1. AllBlank(s.off, b.off) /\ AllBlank(b.off, a.off)
      <4>1. C(b, 0) \in Blank
        BY <2>2 DEF Blank
      <4> QED
        BY <1>1, <1>3, <2>4, <4>1, BlankOne
    <3>2. s.off \in Int /\ b.off \in Int /\ a.off \in Int
      BY <1>2, <1>3, <2>4
    <3> QED
      BY <2>6, <3>1, <3>2, AllBlankTogether
  <2> QED
    BY <2>6, <2>7, <2>8, <2>9 DEF Spaces, u
<1>7. CASE C(s, 0) # "space" /\ ~(C(s, 0) = "CR" /\ C(s, 1) = "LF")
  <2>1. Breaks(s)
    BY <1>7 DEF Breaks, Blank
  <2>2. u = [scan |-> b, breaks |-> t.breaks + 1]
    BY <1>7 DEF PastBlank, b
  <2>3. u \in Spacing /\ u.scan = b /\ u.breaks = t.breaks + 1
    BY <1>1, <1>3, <2>2 DEF Spacing
  <2> HIDE DEF u
  <2>4. u.breaks - t.breaks = u.scan.line - s.line /\ s.off < u.scan.off
    <3>1. b.line = s.line + 1 /\ b.off = s.off + 1
      BY <1>3, <2>1
    <3>2. /\ u.scan.line = b.line /\ u.scan.off = b.off /\ u.breaks = t.breaks + 1
          /\ t.breaks \in Nat /\ s.line \in Nat /\ s.off \in Nat
      BY <1>1, <1>2, <2>3
    <3> QED
      BY <3>1, <3>2
  <2>5. AllBlank(s.off, u.scan.off)
    BY <1>1, <1>3, <2>3, BlankOne
  <2> QED
    BY <1>3, <2>3, <2>4, <2>5 DEF Spaces, u
<1> QED
  BY <1>5, <1>6, <1>7

LEMMA SpacesTransitive ==
  ASSUME src \in Seq(STRING), NEW t \in Spacing, NEW u, NEW v, Spaces(t, u), Spaces(u, v)
  PROVE  Spaces(t, v)
<1>1. t.scan \in Scanner /\ u \in Spacing /\ v \in Spacing
  BY DEF Spaces, Spacing
<1>2. Follows(t.scan, v.scan) /\ v.scan.errs = t.scan.errs
  <2>1. /\ Follows(t.scan, u.scan) /\ Follows(u.scan, v.scan)
        /\ u.scan.errs = t.scan.errs /\ v.scan.errs = u.scan.errs
    BY DEF Spaces
  <2> QED
    BY <1>1, <2>1, FollowsTransitive
<1>3. v.breaks - t.breaks = v.scan.line - t.scan.line
  <2>1. /\ u.breaks - t.breaks = u.scan.line - t.scan.line
        /\ v.breaks - u.breaks = v.scan.line - u.scan.line
    BY DEF Spaces
  <2>2. /\ t.scan.line \in Nat /\ u.scan.line \in Nat /\ v.scan.line \in Nat
        /\ t.breaks \in Nat /\ u.breaks \in Nat /\ v.breaks \in Nat
    BY <1>1 DEF Spacing, Scanner
  <2> QED
    BY <2>1, <2>2
<1>4. AllBlank(t.scan.off, v.scan.off)
  <2>1. AllBlank(t.scan.off, u.scan.off) /\ AllBlank(u.scan.off, v.scan.off)
    BY DEF Spaces
  <2>2. t.scan.off \in Nat /\ u.scan.off \in Nat /\ v.scan.off \in Nat
    BY <1>1, ScannerFields DEF Spacing
  <2>3. t.scan.off \in Int /\ u.scan.off \in Int /\ v.scan.off \in Int
    BY <2>2
  <2> QED
    BY <2>1, <2>3, AllBlankTogether
<1> QED
  BY <1>1, <1>2, <1>3, <1>4 DEF Spaces

LEMMA WhitespaceLoop ==
  ASSUME src \in Seq(STRING)
  PROVE  /\ Iterates(Whitespace, Spacing, NotBlank, Counted, PastBlank)
         /\ [t \in Spacing |-> Ahead[t.scan]] \in [Spacing -> 0..Len(src)]
         /\ \A t \in Spacing : t \notin NotBlank => Ahead[PastBlank[t].scan] < Ahead[t.scan]
<1> DEFINE measure == [t \in Spacing |-> Ahead[t.scan]]
           N == Len(src)
           R == {Counted[t] : t \in Spacing}
           Step(h) == [t \in Spacing |->
             IF C(t.scan, 0) \notin Blank THEN [scan |-> t.scan, blank |-> BlankLines(t.breaks)]
             ELSE IF C(t.scan, 0) = "space" THEN h[[t EXCEPT !.scan = AdvanceByte(@)]]
             ELSE IF C(t.scan, 0) = "CR" /\ C(t.scan, 1) = "LF"
                  THEN h[[scan |-> AdvanceByte(AdvanceByte(t.scan)), breaks |-> t.breaks + 1]]
             ELSE h[[scan |-> AdvanceByte(t.scan), breaks |-> t.breaks + 1]]]
           Eq(h) == h = Step(h)
<1>1. N \in Nat /\ Ahead \in [Scanner -> 0..N]
  BY AheadFalls
<1>2. measure \in [Spacing -> 0..N]
  <2>1. \A t \in Spacing : Ahead[t.scan] \in 0..N
    BY <1>1 DEF Spacing
  <2> QED
    BY <2>1
<1>3. ASSUME NEW t \in Spacing, t \notin NotBlank
      PROVE  PastBlank[t] \in Spacing /\ Ahead[PastBlank[t].scan] < Ahead[t.scan]
  <2> DEFINE u == PastBlank[t]
  <2>1. Spaces(t, u) /\ t.scan.off < u.scan.off
    BY <1>3, PastBlankSpaces DEF NotBlank
  <2> HIDE DEF u
  <2>2. u \in Spacing
    BY <2>1 DEF Spaces
  <2>3. t.scan \in Scanner /\ u.scan \in Scanner
    BY <2>2 DEF Spacing
  <2>4. Ahead[u.scan] < Ahead[t.scan]
    BY <2>1, <2>3, AheadFalls
  <2> QED
    BY <2>2, <2>4 DEF u
<1>4. PastBlank \in [Spacing -> Spacing]
  <2>1. ASSUME NEW t \in Spacing PROVE PastBlank[t] \in Spacing
    <3>1. CASE t \in NotBlank
      BY <3>1 DEF PastBlank, NotBlank
    <3> QED
      BY <1>3, <3>1
  <2>2. PastBlank = [t \in Spacing |-> PastBlank[t]]
    BY DEF PastBlank
  <2> QED
    BY <2>1, <2>2
<1>5. Counted \in [Spacing -> R]
  <2>1. Counted = [t \in Spacing |-> Counted[t]]
    BY DEF Counted
  <2> QED
    BY <2>1
<1>6. ASSUME NEW h PROVE Eq(h) => Iterates(h, Spacing, NotBlank, Counted, PastBlank)
  <2>1. ASSUME NEW t \in Spacing, Eq(h)
        PROVE  h[t] = IF t \in NotBlank THEN Counted[t] ELSE h[PastBlank[t]]
    <3>1. h[t] =
            IF C(t.scan, 0) \notin Blank THEN [scan |-> t.scan, blank |-> BlankLines(t.breaks)]
            ELSE IF C(t.scan, 0) = "space" THEN h[[t EXCEPT !.scan = AdvanceByte(@)]]
            ELSE IF C(t.scan, 0) = "CR" /\ C(t.scan, 1) = "LF"
                 THEN h[[scan |-> AdvanceByte(AdvanceByte(t.scan)), breaks |-> t.breaks + 1]]
            ELSE h[[scan |-> AdvanceByte(t.scan), breaks |-> t.breaks + 1]]
      BY <2>1
    <3> HIDE DEF Eq, Step
    <3> QED
      BY <3>1 DEF NotBlank, Counted, PastBlank
  <2> HIDE DEF Eq
  <2> QED
    BY <2>1 DEF Iterates
<1>7. ASSUME NEW h \in [Spacing -> R], Iterates(h, Spacing, NotBlank, Counted, PastBlank) PROVE Eq(h)
  <2>1. ASSUME NEW t \in Spacing
        PROVE  h[t] =
            IF C(t.scan, 0) \notin Blank THEN [scan |-> t.scan, blank |-> BlankLines(t.breaks)]
            ELSE IF C(t.scan, 0) = "space" THEN h[[t EXCEPT !.scan = AdvanceByte(@)]]
            ELSE IF C(t.scan, 0) = "CR" /\ C(t.scan, 1) = "LF"
                 THEN h[[scan |-> AdvanceByte(AdvanceByte(t.scan)), breaks |-> t.breaks + 1]]
            ELSE h[[scan |-> AdvanceByte(t.scan), breaks |-> t.breaks + 1]]
    <3>1. h[t] = IF t \in NotBlank THEN Counted[t] ELSE h[PastBlank[t]]
      BY <1>7 DEF Iterates
    <3> HIDE DEF Eq, Step
    <3> QED
      BY <3>1 DEF NotBlank, Counted, PastBlank
  <2> HIDE DEF R
  <2> QED
    BY <2>1
<1> HIDE DEF measure, N, R
<1>8. \E F \in [Spacing -> R] : Iterates(F, Spacing, NotBlank, Counted, PastBlank)
  <2>1. \A t \in Spacing : t \notin NotBlank => measure[PastBlank[t]] < measure[t]
    BY <1>3 DEF measure
  <2> QED
    BY <1>1, <1>2, <1>4, <1>5, <2>1, LoopExists
<1>9. Eq(CHOOSE h : Eq(h))
  <2> HIDE DEF Eq
  <2> QED
    BY <1>7, <1>8
<1>10. Eq(Whitespace)
  <2>1. Whitespace = CHOOSE h : Eq(h)
    BY DEF Whitespace, Spacing
  <2> HIDE DEF Eq
  <2> QED
    BY <1>9, <2>1
<1>11. Iterates(Whitespace, Spacing, NotBlank, Counted, PastBlank)
  <2> HIDE DEF Eq
  <2> QED
    BY <1>6, <1>10
<1> QED
  BY <1>2, <1>3, <1>11 DEF measure, N

LEMMA WhitespaceCounts ==
  ASSUME src \in Seq(STRING), NEW s \in Scanner, C(s, 0) \in Blank
  PROVE  LET r == Whitespace[[scan |-> s, breaks |-> 0]]
         IN  /\ r.scan \in Scanner /\ Follows(s, r.scan) /\ s.off < r.scan.off
             /\ r.scan.errs = s.errs /\ C(r.scan, 0) \notin Blank
             /\ r.blank \in Nat /\ r.blank = BlankLines(r.scan.line - s.line)
             /\ AllBlank(s.off, r.scan.off)
<1> DEFINE t == [scan |-> s, breaks |-> 0]
           u == PastBlank[t]
           I == {v \in Spacing : Spaces(t, v) /\ s.off < v.scan.off}
           Q == {Counted[v] : v \in {w \in I : C(w.scan, 0) \notin Blank}}
           measure == [v \in Spacing |-> Ahead[v.scan]]
           N == Len(src)
<1>1. t \in Spacing /\ t.scan = s /\ t.breaks = 0
  BY DEF Spacing
<1> HIDE DEF t
<1>2. u \in I
  BY <1>1, PastBlankSpaces DEF Spaces
<1>3. /\ Iterates(Whitespace, Spacing, NotBlank, Counted, PastBlank)
      /\ measure \in [Spacing -> 0..N]
      /\ \A v \in Spacing : v \notin NotBlank => Ahead[PastBlank[v].scan] < Ahead[v.scan]
  BY WhitespaceLoop
<1>4. ASSUME NEW v \in I, v \notin NotBlank
      PROVE  PastBlank[v] \in I /\ measure[PastBlank[v]] < measure[v]
  <2> DEFINE w == PastBlank[v]
  <2>1. v \in Spacing /\ C(v.scan, 0) \in Blank /\ Spaces(t, v) /\ s.off < v.scan.off
    BY <1>4 DEF NotBlank
  <2>2. Spaces(v, w) /\ v.scan.off < w.scan.off
    BY <2>1, PastBlankSpaces
  <2> HIDE DEF w
  <2>3. w \in Spacing /\ Spaces(t, w)
    BY <1>1, <2>1, <2>2, SpacesTransitive DEF Spaces
  <2>4. s.off < w.scan.off
    <3>1. s.off \in Int /\ v.scan.off \in Int /\ w.scan.off \in Int
      BY <2>1, <2>3 DEF Spacing, Scanner
    <3> QED
      BY <2>1, <2>2, <3>1
  <2>5. Ahead[w.scan] < Ahead[v.scan]
    BY <1>3, <1>4, <2>1 DEF w
  <2> QED
    BY <2>1, <2>3, <2>4, <2>5 DEF w
<1>5. Keeps(Whitespace, Spacing, NotBlank, Counted, PastBlank, N, measure, I, Q)
  <2>1. \A v \in I : v \in NotBlank => Counted[v] \in Q
    BY DEF NotBlank
  <2>2. N \in Nat /\ I \in SUBSET Spacing
    BY AheadFalls
  <2> HIDE DEF I, Q, N, measure
  <2> QED
    BY <1>3, <1>4, <2>1, <2>2 DEF Keeps
<1> DEFINE r == Whitespace[t]
<1>6. Whitespace[u] \in Q
  <2> HIDE DEF I, Q, N, measure, u
  <2> QED
    BY <1>2, <1>5, LoopInduction
<1>7. r = Whitespace[u]
  <2>1. t \notin NotBlank
    BY <1>1 DEF NotBlank
  <2> QED
    BY <1>1, <1>3, <2>1 DEF Iterates
<1> HIDE DEF r, u
<1>8. PICK v \in I : C(v.scan, 0) \notin Blank /\ r = Counted[v]
  BY <1>6, <1>7
<1>9. v \in Spacing /\ r.scan = v.scan /\ r.blank = BlankLines(v.breaks)
  BY <1>8 DEF Counted
<1>10. /\ Follows(s, v.scan) /\ v.scan.errs = s.errs /\ s.off < v.scan.off
       /\ AllBlank(s.off, v.scan.off)
       /\ v.breaks - 0 = v.scan.line - s.line
  BY <1>1, <1>8 DEF Spaces
<1>11. v.breaks \in Nat /\ v.scan \in Scanner
  BY <1>9 DEF Spacing
<1>12. v.breaks = v.scan.line - s.line
  BY <1>10, <1>11
<1>13. BlankLines(v.breaks) \in Nat
  BY <1>11 DEF BlankLines
<1>14. /\ r.scan \in Scanner /\ Follows(s, r.scan) /\ s.off < r.scan.off
       /\ r.scan.errs = s.errs /\ C(r.scan, 0) \notin Blank
       /\ r.blank \in Nat /\ r.blank = BlankLines(r.scan.line - s.line)
       /\ AllBlank(s.off, r.scan.off)
  BY <1>8, <1>9, <1>10, <1>11, <1>12, <1>13
<1> QED
  BY <1>14 DEF r, t
-----------------------------------------------------------------------------
(***************************************************************************)
(* The tokens.  One that stands at its place, and one that whitespace      *)
(* alone, of as many blank lines as it says, keeps from the place e, where *)
(* the one before it ends; 0 is no place, before the first of the tokens.  *)
(***************************************************************************)
Placed(k) == k.line = LineOf(k.first) /\ k.col = ColumnOf(k.first) /\ k.first <= k.last + 1
AllPlaced(ts) == \A i \in 1..Len(ts) : Placed(ts[i])
From(e) == IF e = 0 THEN 1 ELSE e
Gap(k, e) ==
  /\ From(e) <= k.first /\ AllBlank(From(e), k.first)
  /\ e # 0 => k.blank = BlankLines(k.line - LineOf(e))
EndOf(ts, e) == IF Len(ts) = 0 THEN e ELSE ts[Len(ts)].last + 1
Chained(ts, e) == \A i \in 1..Len(ts) : Gap(ts[i], IF i = 1 THEN e ELSE ts[i - 1].last + 1)

LEMMA AppendChained ==
  ASSUME NEW ts \in Seq(Tokens), NEW e, NEW k \in Tokens, AllPlaced(ts), Placed(k)
  PROVE  LET us == Append(ts, k)
         IN  /\ us \in Seq(Tokens) /\ AllPlaced(us) /\ EndOf(us, e) = k.last + 1
             /\ Chained(ts, e) /\ Gap(k, EndOf(ts, e)) => Chained(us, e)
<1> DEFINE us == Append(ts, k)
           n == Len(ts)
<1>1. /\ n \in Nat /\ us \in Seq(Tokens) /\ Len(us) = n + 1 /\ us[n + 1] = k
      /\ \A i \in 1..n : us[i] = ts[i]
  OBVIOUS
<1> HIDE DEF us
<1>2. \A i \in 1..Len(us) : i \in 1..n \/ i = n + 1
  BY <1>1
<1>3. AllPlaced(us)
  BY <1>1, <1>2 DEF AllPlaced
<1>4. EndOf(us, e) = k.last + 1
  <2>1. Len(us) # 0
    BY <1>1
  <2> QED
    BY <1>1, <2>1 DEF EndOf
<1>5. ASSUME Chained(ts, e), Gap(k, EndOf(ts, e)) PROVE Chained(us, e)
  <2>1. ASSUME NEW i \in 1..Len(us) PROVE Gap(us[i], IF i = 1 THEN e ELSE us[i - 1].last + 1)
    <3>1. CASE i \in 1..n
      <4>1. Gap(ts[i], IF i = 1 THEN e ELSE ts[i - 1].last + 1) /\ us[i] = ts[i]
        BY <1>1, <1>5, <3>1 DEF Chained
      <4>2. i # 1 => us[i - 1] = ts[i - 1]
        <5>1. i # 1 => i - 1 \in 1..n
          BY <1>1, <3>1
        <5> QED
          BY <1>1, <5>1
      <4> QED
        BY <4>1, <4>2
    <3>2. CASE i = n + 1
      <4>1. us[i] = k
        BY <1>1, <3>2
      <4>2. EndOf(ts, e) = IF i = 1 THEN e ELSE us[i - 1].last + 1
        <5>1. CASE n = 0
          <6>1. i = 1
            BY <3>2, <5>1
          <6> QED
            BY <5>1, <6>1 DEF EndOf
        <5>2. CASE n # 0
          <6>1. i # 1 /\ i - 1 = n /\ n \in 1..n
            BY <1>1, <3>2, <5>2
          <6>2. us[n] = ts[n]
            BY <1>1, <6>1
          <6> QED
            BY <5>2, <6>1, <6>2 DEF EndOf
        <5> QED
          BY <5>1, <5>2
      <4> QED
        BY <1>5, <4>1, <4>2
    <3> QED
      BY <1>2, <3>1, <3>2
  <2> QED
    BY <2>1 DEF Chained
<1>6. /\ us \in Seq(Tokens) /\ AllPlaced(us) /\ EndOf(us, e) = k.last + 1
      /\ Chained(ts, e) /\ Gap(k, EndOf(ts, e)) => Chained(us, e)
  BY <1>1, <1>3, <1>4, <1>5
<1> QED
  BY <1>6 DEF us

LEMMA ConcatChained ==
  ASSUME NEW ts \in Seq(Tokens), NEW us \in Seq(Tokens), NEW e, AllPlaced(ts), AllPlaced(us)
  PROVE  LET vs == ts \o us
         IN  /\ vs \in Seq(Tokens) /\ AllPlaced(vs) /\ EndOf(vs, e) = EndOf(us, EndOf(ts, e))
             /\ Chained(ts, e) /\ Chained(us, EndOf(ts, e)) => Chained(vs, e)
<1> DEFINE vs == ts \o us
           n == Len(ts)
           m == Len(us)
<1>1. /\ n \in Nat /\ m \in Nat /\ vs \in Seq(Tokens) /\ Len(vs) = n + m
      /\ \A i \in 1..n : vs[i] = ts[i]
      /\ \A i \in 1..m : vs[n + i] = us[i]
  OBVIOUS
<1> HIDE DEF vs
<1>2. \A i \in 1..Len(vs) : i \in 1..n \/ (i - n \in 1..m /\ n + (i - n) = i)
  BY <1>1
<1>3. AllPlaced(vs)
  <2>1. ASSUME NEW i \in 1..Len(vs) PROVE Placed(vs[i])
    <3>1. CASE i \in 1..n
      BY <1>1, <3>1 DEF AllPlaced
    <3>2. CASE i - n \in 1..m /\ n + (i - n) = i
      <4>1. vs[n + (i - n)] = us[i - n] /\ Placed(us[i - n])
        BY <1>1, <3>2 DEF AllPlaced
      <4> QED
        BY <3>2, <4>1
    <3> QED
      BY <1>2, <3>1, <3>2
  <2> QED
    BY <2>1 DEF AllPlaced
<1>4. \A j \in 1..m : (IF j = 1 THEN EndOf(ts, e) ELSE us[j - 1].last + 1)
                      = IF n + j = 1 THEN e ELSE vs[(n + j) - 1].last + 1
  <2>1. ASSUME NEW j \in 1..m, j = 1, n = 0
        PROVE  EndOf(ts, e) = IF n + j = 1 THEN e ELSE vs[(n + j) - 1].last + 1
    BY <2>1 DEF EndOf
  <2>2. ASSUME NEW j \in 1..m, j = 1, n # 0
        PROVE  EndOf(ts, e) = IF n + j = 1 THEN e ELSE vs[(n + j) - 1].last + 1
    <3>1. n + j # 1 /\ (n + j) - 1 = n /\ n \in 1..n
      BY <1>1, <2>2
    <3>2. vs[n] = ts[n]
      BY <1>1, <3>1
    <3> QED
      BY <2>2, <3>1, <3>2 DEF EndOf
  <2>3. ASSUME NEW j \in 1..m, j # 1
        PROVE  us[j - 1].last + 1 = IF n + j = 1 THEN e ELSE vs[(n + j) - 1].last + 1
    <3>1. n + j # 1 /\ (n + j) - 1 = n + (j - 1) /\ j - 1 \in 1..m
      BY <1>1, <2>3
    <3>2. vs[n + (j - 1)] = us[j - 1]
      BY <1>1, <3>1
    <3> QED
      BY <3>1, <3>2
  <2> HIDE DEF n, m
  <2> QED
    BY <2>1, <2>2, <2>3
<1>5. EndOf(vs, e) = EndOf(us, EndOf(ts, e))
  <2>1. CASE m = 0
    <3>1. EndOf(us, EndOf(ts, e)) = EndOf(ts, e)
      BY <2>1 DEF EndOf
    <3>2. Len(vs) = n
      BY <1>1, <2>1
    <3>3. n # 0 => vs[n] = ts[n]
      <4>1. n # 0 => n \in 1..n
        BY <1>1
      <4> QED
        BY <1>1, <4>1
    <3>4. EndOf(vs, e) = EndOf(ts, e)
      BY <3>2, <3>3 DEF EndOf
    <3> QED
      BY <3>1, <3>4
  <2>2. CASE m # 0
    <3>1. m \in 1..m /\ Len(vs) # 0
      BY <1>1, <2>2
    <3>2. vs[Len(vs)] = us[m]
      BY <1>1, <3>1
    <3> QED
      BY <2>2, <3>1, <3>2 DEF EndOf
  <2> QED
    BY <2>1, <2>2
<1>6. ASSUME Chained(ts, e), Chained(us, EndOf(ts, e)) PROVE Chained(vs, e)
  <2>1. ASSUME NEW i \in 1..Len(vs) PROVE Gap(vs[i], IF i = 1 THEN e ELSE vs[i - 1].last + 1)
    <3>1. CASE i \in 1..n
      <4>1. Gap(ts[i], IF i = 1 THEN e ELSE ts[i - 1].last + 1) /\ vs[i] = ts[i]
        BY <1>1, <1>6, <3>1 DEF Chained
      <4>2. i # 1 => vs[i - 1] = ts[i - 1]
        <5>1. i # 1 => i - 1 \in 1..n
          BY <1>1, <3>1
        <5> QED
          BY <1>1, <5>1
      <4> QED
        BY <4>1, <4>2
    <3>2. CASE i - n \in 1..m /\ n + (i - n) = i
      <4> DEFINE j == i - n
      <4>1. j \in 1..m /\ n + j = i
        BY <3>2
      <4> HIDE DEF j, n, m
      <4>2. Gap(us[j], IF j = 1 THEN EndOf(ts, e) ELSE us[j - 1].last + 1)
        BY <1>6, <4>1 DEF Chained, m
      <4>3. Gap(us[j], IF n + j = 1 THEN e ELSE vs[(n + j) - 1].last + 1)
        BY <1>4, <4>1, <4>2
      <4>4. vs[n + j] = us[j]
        BY <1>1, <4>1
      <4> QED
        BY <4>1, <4>3, <4>4
    <3> QED
      BY <1>2, <3>1, <3>2
  <2> QED
    BY <2>1 DEF Chained
<1>7. /\ vs \in Seq(Tokens) /\ AllPlaced(vs) /\ EndOf(vs, e) = EndOf(us, EndOf(ts, e))
      /\ Chained(ts, e) /\ Chained(us, EndOf(ts, e)) => Chained(vs, e)
  BY <1>1, <1>3, <1>5, <1>6
<1> QED
  BY <1>7 DEF vs

\* A token from s to t.
LEMMA TokenPlaced ==
  ASSUME src \in Seq(STRING), NEW s \in Scanner, NEW t, Follows(s, t), C(s, 0) # "LF",
         NEW kind \in TokenKinds, NEW blank \in Nat
  PROVE  LET k == Token(kind, s, t, blank)
         IN  /\ k \in Tokens /\ (Sound(s) => Placed(k)) /\ k.last + 1 = t.off
             /\ k.first = s.off /\ k.line = s.line /\ k.blank = blank
<1> DEFINE last == t.off - 1
           k == Token(kind, s, t, blank)
<1>1. t \in Scanner
  BY DEF Follows
<1>2. last \in Nat /\ last + 1 = t.off
  <2>1. t.off \in 1..Len(src) + 1 /\ Len(src) \in Nat
    BY <1>1, ScannerFields
  <2> QED
    BY <2>1
<1>3. s.off \in Nat /\ s.line \in Nat /\ s.col \in Nat
  BY ScannerFields
<1>4. k = [kind |-> kind, first |-> s.off, last |-> last,
           line |-> s.line, col |-> s.col, blank |-> blank]
  BY DEF Token
<1> HIDE DEF last
<1>5. k \in Tokens
  BY <1>2, <1>3, <1>4 DEF Tokens
<1>6. k.first = s.off /\ k.last = last /\ k.line = s.line /\ k.col = s.col /\ k.blank = blank
  BY <1>4
<1> HIDE DEF k
<1>7. Sound(s) => Placed(k)
  <2>1. Sound(s) => s.line = LineOf(s.off) /\ s.col = ColumnOf(s.off)
    BY NotInBreak
  <2>2. s.off <= last + 1
    BY <1>2 DEF Follows
  <2> QED
    BY <1>6, <2>1, <2>2 DEF Placed
<1>8. k \in Tokens /\ (Sound(s) => Placed(k)) /\ k.last + 1 = t.off
      /\ k.first = s.off /\ k.line = s.line /\ k.blank = blank
  BY <1>2, <1>5, <1>6, <1>7
<1> QED
  BY <1>8 DEF k
-----------------------------------------------------------------------------
(***************************************************************************)
(* collectTrivia.                                                          *)
(***************************************************************************)
AtItsEnd == {t \in TriviaState : C(t.scan, 0) \notin Blank /\ ~AtComment(t.scan)}
Found == [t \in TriviaState |-> t]
Comment(t) == Token(CommentKind(t.scan), t.scan, SkipComment(t.scan), t.blank)
Space(t) == Whitespace[[scan |-> t.scan, breaks |-> 0]]
PastTrivia == [t \in TriviaState |->
  IF C(t.scan, 0) \in Blank THEN [t EXCEPT !.scan = Space(t).scan, !.blank = @ + Space(t).blank]
  ELSE IF AtComment(t.scan)
       THEN [scan |-> SkipComment(t.scan), blank |-> 0, comments |-> Append(t.comments, Comment(t))]
  ELSE t]

LEMMA PastSpace ==
  ASSUME src \in Seq(STRING), NEW t \in TriviaState, C(t.scan, 0) \in Blank
  PROVE  LET u == PastTrivia[t]
         IN  /\ u \in TriviaState /\ Follows(t.scan, u.scan) /\ t.scan.off < u.scan.off
             /\ C(u.scan, 0) \notin Blank /\ u.comments = t.comments
             /\ AllBlank(t.scan.off, u.scan.off)
             /\ u.blank = t.blank + BlankLines(u.scan.line - t.scan.line)
<1> DEFINE r == Space(t)
           blank == t.blank + r.blank
           u == PastTrivia[t]
<1>1. t.scan \in Scanner /\ t.blank \in Nat /\ t.comments \in Seq(Tokens)
  BY DEF TriviaState
<1>2. /\ r.scan \in Scanner /\ Follows(t.scan, r.scan) /\ t.scan.off < r.scan.off
      /\ C(r.scan, 0) \notin Blank /\ r.blank \in Nat /\ AllBlank(t.scan.off, r.scan.off)
      /\ r.blank = BlankLines(r.scan.line - t.scan.line)
  BY <1>1, WhitespaceCounts DEF Space
<1> HIDE DEF r
<1>3. blank \in Nat
  BY <1>1, <1>2
<1>4. u = [t EXCEPT !.scan = r.scan, !.blank = blank]
  BY DEF PastTrivia, r
<1> HIDE DEF blank
<1>5. u \in TriviaState /\ u.scan = r.scan /\ u.blank = blank /\ u.comments = t.comments
  <2> DEFINE x == r.scan
  <2>1. x \in Scanner /\ u = [t EXCEPT !.scan = x, !.blank = blank]
    BY <1>2, <1>4
  <2> HIDE DEF x, u
  <2>2. u \in TriviaState
    BY <1>3, <2>1 DEF TriviaState
  <2>3. u.scan = x /\ u.blank = blank /\ u.comments = t.comments
    BY <2>1 DEF TriviaState
  <2> QED
    BY <2>2, <2>3 DEF x
<1> HIDE DEF u
<1>6. /\ u \in TriviaState /\ Follows(t.scan, u.scan) /\ t.scan.off < u.scan.off
      /\ C(u.scan, 0) \notin Blank /\ u.comments = t.comments
      /\ AllBlank(t.scan.off, u.scan.off)
      /\ u.blank = t.blank + BlankLines(u.scan.line - t.scan.line)
  BY <1>2, <1>5 DEF blank
<1> QED
  BY <1>6 DEF u

LEMMA PastComment ==
  ASSUME src \in Seq(STRING), NEW t \in TriviaState, C(t.scan, 0) \notin Blank, AtComment(t.scan)
  PROVE  LET u == PastTrivia[t]
             k == Comment(t)
         IN  /\ u \in TriviaState /\ Follows(t.scan, u.scan) /\ t.scan.off < u.scan.off
             /\ u.comments = Append(t.comments, k) /\ u.blank = 0
             /\ k \in Tokens /\ (Sound(t.scan) => Placed(k)) /\ k.last + 1 = u.scan.off
             /\ k.first = t.scan.off /\ k.line = t.scan.line /\ k.blank = t.blank
<1> DEFINE k == Comment(t)
           s == t.scan
           v == SkipComment(s)
           u == PastTrivia[t]
<1>1. s \in Scanner /\ t.blank \in Nat /\ t.comments \in Seq(Tokens)
  BY DEF TriviaState
<1>2. v \in Scanner /\ Follows(s, v) /\ s.off < v.off
  BY <1>1, SkipCommentFollows DEF AtComment
<1>3. C(s, 0) # "LF" /\ CommentKind(s) \in TokenKinds
  BY DEF Blank, CommentKind, TokenKinds
<1>4. /\ k \in Tokens /\ (Sound(s) => Placed(k)) /\ k.last + 1 = v.off
      /\ k.first = s.off /\ k.line = s.line /\ k.blank = t.blank
  <2> DEFINE kind == CommentKind(s)
             blank == t.blank
             w == v
  <2>1. /\ kind \in TokenKinds /\ blank \in Nat /\ Follows(s, w) /\ s \in Scanner /\ C(s, 0) # "LF"
        /\ k = Token(kind, s, w, blank)
    BY <1>1, <1>2, <1>3 DEF Comment
  <2> HIDE DEF kind, blank, w, k
  <2>2. /\ k \in Tokens /\ (Sound(s) => Placed(k)) /\ k.last + 1 = w.off
        /\ k.first = s.off /\ k.line = s.line /\ k.blank = blank
    BY <2>1, TokenPlaced
  <2> QED
    BY <2>2 DEF w, blank
<1>5. u = [scan |-> v, blank |-> 0, comments |-> Append(t.comments, k)]
  BY DEF PastTrivia
<1> HIDE DEF k, v
<1>6. Append(t.comments, k) \in Seq(Tokens)
  BY <1>1, <1>4
<1>7. u \in TriviaState /\ u.scan = v /\ u.blank = 0 /\ u.comments = Append(t.comments, k)
  <2> DEFINE x == Append(t.comments, k)
  <2>1. x \in Seq(Tokens) /\ u = [scan |-> v, blank |-> 0, comments |-> x]
    BY <1>5, <1>6
  <2> HIDE DEF x, u
  <2>2. u \in TriviaState /\ u.scan = v /\ u.blank = 0 /\ u.comments = x
    BY <1>2, <2>1 DEF TriviaState
  <2> QED
    BY <2>2 DEF x
<1> HIDE DEF u
<1>8. /\ u \in TriviaState /\ Follows(t.scan, u.scan) /\ t.scan.off < u.scan.off
      /\ u.comments = Append(t.comments, k) /\ u.blank = 0
      /\ k \in Tokens /\ (Sound(t.scan) => Placed(k)) /\ k.last + 1 = u.scan.off
      /\ k.first = t.scan.off /\ k.line = t.scan.line /\ k.blank = t.blank
  BY <1>2, <1>4, <1>7
<1> QED
  BY <1>8 DEF u, k

LEMMA TriviaLoop ==
  ASSUME src \in Seq(STRING)
  PROVE  /\ Iterates(Trivia, TriviaState, AtItsEnd, Found, PastTrivia)
         /\ [t \in TriviaState |-> Ahead[t.scan]] \in [TriviaState -> 0..Len(src)]
         /\ \A t \in TriviaState : t \notin AtItsEnd =>
              PastTrivia[t] \in TriviaState /\ Ahead[PastTrivia[t].scan] < Ahead[t.scan]
<1> DEFINE measure == [t \in TriviaState |-> Ahead[t.scan]]
           N == Len(src)
           Step(h) == [t \in TriviaState |->
             IF C(t.scan, 0) \in Blank
             THEN h[[t EXCEPT !.scan = Space(t).scan, !.blank = @ + Space(t).blank]]
             ELSE IF AtComment(t.scan)
                  THEN h[[scan |-> SkipComment(t.scan), blank |-> 0,
                          comments |-> Append(t.comments, Comment(t))]]
             ELSE t]
           Eq(h) == h = Step(h)
<1>1. N \in Nat /\ Ahead \in [Scanner -> 0..N]
  BY AheadFalls
<1>2. measure \in [TriviaState -> 0..N]
  <2>1. \A t \in TriviaState : Ahead[t.scan] \in 0..N
    BY <1>1 DEF TriviaState
  <2> QED
    BY <2>1
<1>3. ASSUME NEW t \in TriviaState, t \notin AtItsEnd
      PROVE  PastTrivia[t] \in TriviaState /\ Ahead[PastTrivia[t].scan] < Ahead[t.scan]
  <2> DEFINE u == PastTrivia[t]
  <2>1. u \in TriviaState /\ t.scan.off < u.scan.off
    <3>1. CASE C(t.scan, 0) \in Blank
      BY <3>1, PastSpace
    <3>2. CASE C(t.scan, 0) \notin Blank
      BY <1>3, <3>2, PastComment DEF AtItsEnd
    <3> QED
      BY <3>1, <3>2
  <2> HIDE DEF u
  <2>2. t.scan \in Scanner /\ u.scan \in Scanner
    BY <2>1 DEF TriviaState
  <2>3. Ahead[u.scan] < Ahead[t.scan]
    BY <2>1, <2>2, AheadFalls
  <2> QED
    BY <2>1, <2>3 DEF u
<1>4. PastTrivia \in [TriviaState -> TriviaState]
  <2>1. ASSUME NEW t \in TriviaState PROVE PastTrivia[t] \in TriviaState
    <3>1. CASE t \in AtItsEnd
      BY <3>1 DEF PastTrivia, AtItsEnd
    <3> QED
      BY <1>3, <3>1
  <2>2. PastTrivia = [t \in TriviaState |-> PastTrivia[t]]
    BY DEF PastTrivia
  <2> QED
    BY <2>1, <2>2
<1>5. Found \in [TriviaState -> TriviaState]
  BY DEF Found
<1>6. ASSUME NEW h PROVE Eq(h) => Iterates(h, TriviaState, AtItsEnd, Found, PastTrivia)
  <2>1. ASSUME NEW t \in TriviaState, Eq(h)
        PROVE  h[t] = IF t \in AtItsEnd THEN Found[t] ELSE h[PastTrivia[t]]
    <3>1. h[t] =
             IF C(t.scan, 0) \in Blank
             THEN h[[t EXCEPT !.scan = Space(t).scan, !.blank = @ + Space(t).blank]]
             ELSE IF AtComment(t.scan)
                  THEN h[[scan |-> SkipComment(t.scan), blank |-> 0,
                          comments |-> Append(t.comments, Comment(t))]]
             ELSE t
      BY <2>1
    <3> HIDE DEF Eq, Step
    <3> QED
      BY <3>1 DEF AtItsEnd, Found, PastTrivia
  <2> HIDE DEF Eq
  <2> QED
    BY <2>1 DEF Iterates
<1>7. ASSUME NEW h \in [TriviaState -> TriviaState],
             Iterates(h, TriviaState, AtItsEnd, Found, PastTrivia)
      PROVE  Eq(h)
  <2>1. ASSUME NEW t \in TriviaState
        PROVE  h[t] =
             IF C(t.scan, 0) \in Blank
             THEN h[[t EXCEPT !.scan = Space(t).scan, !.blank = @ + Space(t).blank]]
             ELSE IF AtComment(t.scan)
                  THEN h[[scan |-> SkipComment(t.scan), blank |-> 0,
                          comments |-> Append(t.comments, Comment(t))]]
             ELSE t
    <3>1. h[t] = IF t \in AtItsEnd THEN Found[t] ELSE h[PastTrivia[t]]
      BY <1>7 DEF Iterates
    <3> HIDE DEF Eq, Step
    <3> QED
      BY <3>1 DEF AtItsEnd, Found, PastTrivia
  <2> QED
    BY <2>1
<1> HIDE DEF measure, N
<1>8. \E F \in [TriviaState -> TriviaState] : Iterates(F, TriviaState, AtItsEnd, Found, PastTrivia)
  <2>1. \A t \in TriviaState : t \notin AtItsEnd => measure[PastTrivia[t]] < measure[t]
    BY <1>3 DEF measure
  <2> QED
    BY <1>1, <1>2, <1>4, <1>5, <2>1, LoopExists
<1>9. Eq(CHOOSE h : Eq(h))
  <2> HIDE DEF Eq
  <2> QED
    BY <1>7, <1>8
<1>10. Eq(Trivia)
  <2>1. Trivia = CHOOSE h : Eq(h)
    BY DEF Trivia, TriviaState, AtComment, Space, Comment
  <2> HIDE DEF Eq
  <2> QED
    BY <1>9, <2>1
<1>11. Iterates(Trivia, TriviaState, AtItsEnd, Found, PastTrivia)
  <2> HIDE DEF Eq
  <2> QED
    BY <1>6, <1>10
<1> QED
  BY <1>2, <1>3, <1>11 DEF measure, N

\* What is so of the comments before a token, from s on, where e ends the
\* token before them.
Right(t, s, e) ==
  /\ Follows(s, t.scan) /\ AllPlaced(t.comments) /\ Chained(t.comments, e)
  /\ EndOf(t.comments, e) \in Nat
  /\ From(EndOf(t.comments, e)) <= t.scan.off /\ AllBlank(From(EndOf(t.comments, e)), t.scan.off)
  /\ EndOf(t.comments, e) # 0 =>
       /\ t.blank = BlankLines(t.scan.line - LineOf(EndOf(t.comments, e)))
       /\ t.scan.off = EndOf(t.comments, e) \/ C(t.scan, 0) \notin Blank

LEMMA SoundLine ==
  ASSUME src \in Seq(STRING), NEW s \in Scanner, NEW t, Sound(s), Follows(s, t)
  PROVE  Sound(t) /\ t \in Scanner /\ t.line = LineOf(t.off)
         /\ t.line \in Nat /\ LineOf(t.off) \in Nat
<1>1. Sound(t) /\ t \in Scanner
  BY DEF Follows
<1> QED
  BY <1>1, ScannerFields DEF Sound

LEMMA RightKept ==
  ASSUME src \in Seq(STRING), NEW s \in Scanner, Sound(s), NEW e, NEW t \in TriviaState, Right(t, s, e),
         t \notin AtItsEnd
  PROVE  Right(PastTrivia[t], s, e)
<1> DEFINE u == PastTrivia[t]
           f == EndOf(t.comments, e)
<1>1. /\ Follows(s, t.scan) /\ AllPlaced(t.comments) /\ Chained(t.comments, e) /\ f \in Nat
      /\ From(f) <= t.scan.off /\ AllBlank(From(f), t.scan.off)
      /\ f # 0 => /\ t.blank = BlankLines(t.scan.line - LineOf(f))
                  /\ t.scan.off = f \/ C(t.scan, 0) \notin Blank
  BY DEF Right
<1>2. Sound(t.scan) /\ t.scan \in Scanner /\ t.scan.line = LineOf(t.scan.off) /\ t.scan.line \in Nat
      /\ t.scan.off \in Nat /\ From(f) \in Nat
  <2> HIDE DEF f
  <2> QED
    BY <1>1, SoundLine, ScannerFields DEF From
<1>3. CASE C(t.scan, 0) \in Blank
  <2>1. /\ u \in TriviaState /\ Follows(t.scan, u.scan) /\ C(u.scan, 0) \notin Blank
        /\ AllBlank(t.scan.off, u.scan.off)
        /\ u.comments = t.comments /\ u.blank = t.blank + BlankLines(u.scan.line - t.scan.line)
    BY <1>3, PastSpace
  <2> HIDE DEF u
  <2>2. Follows(s, u.scan)
    BY <1>1, <1>2, <2>1, FollowsTransitive
  <2>3. f # 0 => u.blank = BlankLines(u.scan.line - LineOf(f))
    <3>1. ASSUME f # 0 PROVE u.blank = BlankLines(u.scan.line - LineOf(f))
      <4> HIDE DEF f
      <4>1. t.scan.off = f
        BY <1>1, <1>3, <3>1
      <4>2. t.scan.line = LineOf(f)
        BY <1>2, <4>1
      <4>3. t.blank = 0
        <5>1. t.scan.line - LineOf(f) = 0
          BY <1>2, <4>2
        <5>2. BlankLines(0) = 0
          BY DEF BlankLines
        <5> QED
          BY <1>1, <3>1, <5>1, <5>2
      <4>4. u.scan.line - t.scan.line \in Int
        <5>1. u.scan.line \in Nat
          BY <2>1 DEF TriviaState, Scanner
        <5> QED
          BY <1>2, <5>1
      <4>5. BlankLines(u.scan.line - t.scan.line) \in Nat
        BY <4>4 DEF BlankLines
      <4>6. u.blank = BlankLines(u.scan.line - t.scan.line)
        BY <2>1, <4>3, <4>5
      <4> QED
        BY <4>2, <4>6
    <3> QED
      BY <3>1
  <2>4. EndOf(u.comments, e) = f
    BY <2>1
  <2> HIDE DEF f
  <2>5. From(f) <= u.scan.off /\ AllBlank(From(f), u.scan.off)
    <3> DEFINE a == From(f)
    <3>1. u.scan.off \in Nat /\ t.scan.off <= u.scan.off
      BY <2>1, ScannerFields DEF Follows
    <3>2. a \in Int /\ t.scan.off \in Int /\ u.scan.off \in Int /\ a <= t.scan.off
      BY <1>1, <1>2, <3>1
    <3>3. AllBlank(a, t.scan.off) /\ AllBlank(t.scan.off, u.scan.off)
      BY <1>1, <2>1
    <3> HIDE DEF a
    <3>4. a <= u.scan.off /\ AllBlank(a, u.scan.off)
      BY <3>1, <3>2, <3>3, AllBlankTogether
    <3> QED
      BY <3>4 DEF a
  <2> QED
    BY <1>1, <2>1, <2>2, <2>3, <2>4, <2>5 DEF Right, u
<1>4. CASE C(t.scan, 0) \notin Blank
  <2> DEFINE k == Comment(t)
             ts == t.comments
  <2>1. AtComment(t.scan)
    BY <1>4 DEF AtItsEnd
  <2>2. /\ u \in TriviaState /\ Follows(t.scan, u.scan) /\ u.comments = Append(ts, k) /\ u.blank = 0
        /\ k \in Tokens /\ Placed(k) /\ k.last + 1 = u.scan.off
        /\ k.first = t.scan.off /\ k.line = t.scan.line /\ k.blank = t.blank
    BY <1>2, <1>4, <2>1, PastComment
  <2> HIDE DEF u, k
  <2>3. Follows(s, u.scan)
    BY <1>1, <1>2, <2>2, FollowsTransitive
  <2>4. Gap(k, f)
    <3> HIDE DEF f
    <3> QED
      BY <1>1, <2>2 DEF Gap
  <2>5. ts \in Seq(Tokens)
    BY DEF TriviaState
  <2>6. /\ AllPlaced(u.comments) /\ EndOf(u.comments, e) = k.last + 1
        /\ Chained(u.comments, e)
    <3> HIDE DEF ts
    <3>1. f = EndOf(ts, e) /\ AllPlaced(ts) /\ Chained(ts, e)
      BY <1>1 DEF ts
    <3> HIDE DEF f
    <3> QED
      BY <2>2, <2>4, <2>5, <3>1, AppendChained
  <2>7. EndOf(u.comments, e) = u.scan.off
    BY <2>2, <2>6
  <2>8. u.scan.line = LineOf(u.scan.off) /\ u.scan.line \in Nat /\ u.scan.off \in Nat
    BY <2>2, <2>3, SoundLine, ScannerFields
  <2>9. BlankLines(u.scan.line - LineOf(u.scan.off)) = 0
    <3>1. u.scan.line - LineOf(u.scan.off) = 0
      BY <2>8
    <3> QED
      BY <3>1 DEF BlankLines
  <2>10. From(u.scan.off) = u.scan.off /\ AllBlank(u.scan.off, u.scan.off)
    <3>1. u.scan.off \in Int /\ u.scan.off # 0
      BY <2>2, ScannerFields DEF TriviaState
    <3> QED
      BY <3>1, AllBlankTogether DEF From
  <2>11. u.scan.off <= u.scan.off
    BY <2>8
  <2> QED
    BY <2>2, <2>3, <2>6, <2>7, <2>8, <2>9, <2>10, <2>11 DEF Right, u
<1> QED
  BY <1>3, <1>4

LEMMA TriviaRight ==
  ASSUME src \in Seq(STRING), NEW s \in Scanner, Sound(s), NEW e \in Nat, s.off = From(e)
  PROVE  LET t == Trivia[[scan |-> s, blank |-> 0, comments |-> <<>>]]
         IN  t \in TriviaState /\ Right(t, s, e) /\ C(t.scan, 0) \notin Blank /\ ~AtComment(t.scan)
<1> DEFINE none == <<>>
           b == [scan |-> s, blank |-> 0, comments |-> none]
           I == {t \in TriviaState : Right(t, s, e)}
           Q == {t \in TriviaState : Right(t, s, e) /\ t \in AtItsEnd}
           measure == [t \in TriviaState |-> Ahead[t.scan]]
           N == Len(src)
<1>1. b \in TriviaState /\ b.scan = s /\ b.blank = 0 /\ b.comments = <<>>
  <2>1. none \in Seq(Tokens)
    OBVIOUS
  <2> HIDE DEF none
  <2>2. b \in TriviaState /\ b.scan = s /\ b.blank = 0 /\ b.comments = none
    BY <2>1 DEF TriviaState
  <2> QED
    BY <2>2 DEF none
<1> HIDE DEF b
<1>2. b \in I
  <2>1. Follows(s, b.scan)
    BY <1>1, FollowsItself
  <2>2. Len(b.comments) = 0
    BY <1>1
  <2>3. AllPlaced(b.comments) /\ Chained(b.comments, e) /\ EndOf(b.comments, e) = e
    BY <2>2 DEF AllPlaced, Chained, EndOf
  <2>4. e # 0 => b.blank = BlankLines(b.scan.line - LineOf(e)) /\ b.scan.off = e
    <3>1. ASSUME e # 0 PROVE b.blank = BlankLines(b.scan.line - LineOf(e))
      <4>1. s.line = LineOf(e) /\ s.line \in Nat
        BY <3>1, ScannerFields DEF Sound, From
      <4>2. s.line - LineOf(e) = 0
        BY <4>1
      <4> QED
        BY <1>1, <4>2 DEF BlankLines
    <3> QED
      BY <1>1, <3>1 DEF From
  <2>5. From(e) <= b.scan.off /\ AllBlank(From(e), b.scan.off)
    <3>1. s.off \in Int /\ s.off <= s.off
      BY ScannerFields
    <3> QED
      BY <1>1, <3>1, AllBlankTogether
  <2>6. Right(b, s, e)
    BY <2>1, <2>3, <2>4, <2>5 DEF Right
  <2> QED
    BY <1>1, <2>6
<1>3. /\ Iterates(Trivia, TriviaState, AtItsEnd, Found, PastTrivia)
      /\ measure \in [TriviaState -> 0..N]
      /\ \A t \in TriviaState : t \notin AtItsEnd =>
           PastTrivia[t] \in TriviaState /\ Ahead[PastTrivia[t].scan] < Ahead[t.scan]
  BY TriviaLoop
<1>4. ASSUME NEW t \in I, t \notin AtItsEnd
      PROVE  PastTrivia[t] \in I /\ measure[PastTrivia[t]] < measure[t]
  <2> DEFINE u == PastTrivia[t]
  <2>1. t \in TriviaState /\ Right(t, s, e)
    OBVIOUS
  <2>2. u \in TriviaState /\ Ahead[u.scan] < Ahead[t.scan]
    BY <1>3, <1>4, <2>1
  <2>3. Right(u, s, e)
    BY <1>4, <2>1, RightKept
  <2> HIDE DEF u
  <2> QED
    BY <2>1, <2>2, <2>3 DEF u
<1>5. Keeps(Trivia, TriviaState, AtItsEnd, Found, PastTrivia, N, measure, I, Q)
  <2>1. \A t \in I : t \in AtItsEnd => Found[t] \in Q
    BY DEF Found
  <2>2. N \in Nat /\ I \in SUBSET TriviaState
    BY AheadFalls
  <2> HIDE DEF I, Q, N, measure
  <2> QED
    BY <1>3, <1>4, <2>1, <2>2 DEF Keeps
<1> DEFINE t == Trivia[b]
<1>6. t \in Q
  <2> HIDE DEF I, Q, N, measure
  <2> QED
    BY <1>2, <1>5, LoopInduction
<1> HIDE DEF t
<1>7. t \in TriviaState /\ Right(t, s, e) /\ C(t.scan, 0) \notin Blank /\ ~AtComment(t.scan)
  BY <1>6 DEF AtItsEnd
<1> QED
  BY <1>7 DEF t, b, none
-----------------------------------------------------------------------------
(***************************************************************************)
(* A step of the lexer, and the invariant.                                 *)
(***************************************************************************)
LexInv ==
  /\ src \in Seq(STRING)
  /\ l \in Scanner /\ Sound(l)
  /\ tokens \in Seq(Tokens) /\ AllPlaced(tokens)
  /\ EndOf(tokens, 0) \in Nat
  /\ l.off = From(EndOf(tokens, 0)) /\ (Lexed => Ended(l))
  /\ l.errs = {} => Chained(tokens, 0)

LEMMA ScanTokenRight ==
  ASSUME src \in Seq(STRING), NEW s \in Scanner, Sound(s), C(s, 0) \notin Blank, ~AtComment(s),
         NEW blank \in Nat
  PROVE  LET r == ScanToken(s, blank)
         IN  /\ r.scan \in Scanner /\ Follows(s, r.scan)
             /\ r.token \in Tokens /\ Placed(r.token) /\ r.token.last + 1 = r.scan.off
             /\ r.token.blank = blank /\ (r.token.kind = "eof" => Ended(r.scan))
             /\ r.scan.errs = {} => r.token.first = s.off /\ r.token.line = s.line
<1> DEFINE start == ToToken[s]
           end == TokenEnd(start)
           kind == TokenKind(start)
           k == Token(kind, start, end, blank)
           r == ScanToken(s, blank)
<1>1. start \in Scanner /\ Follows(s, start) /\ AtToken(start) /\ (start.errs = {} => start = s)
  BY ToTokenFollows
<1>2. r = [scan |-> end, token |-> k]
  BY DEF ScanToken
<1> HIDE DEF start
<1>3. end \in Scanner /\ Follows(start, end) /\ kind \in TokenKinds /\ C(start, 0) # "LF"
      /\ (kind = "eof" => Ended(end))
  BY <1>1, TokenFollows
<1> HIDE DEF end, kind
<1>4. Sound(start)
  BY <1>1 DEF Follows
<1>5. k \in Tokens /\ Placed(k) /\ k.last + 1 = end.off /\ k.first = start.off
      /\ k.line = start.line /\ k.blank = blank /\ k.kind = kind
  BY <1>1, <1>3, <1>4, TokenPlaced DEF Token
<1> HIDE DEF k
<1>6. r.scan = end /\ r.token = k
  BY <1>2
<1> HIDE DEF r
<1>7. Follows(s, end)
  BY <1>1, <1>3, FollowsTransitive
<1>8. end.errs = {} => start = s
  <2>1. start.errs \subseteq end.errs
    BY <1>3 DEF Follows
  <2> QED
    BY <1>1, <2>1
<1>9. /\ r.scan \in Scanner /\ Follows(s, r.scan)
      /\ r.token \in Tokens /\ Placed(r.token) /\ r.token.last + 1 = r.scan.off
      /\ r.token.blank = blank /\ (r.token.kind = "eof" => Ended(r.scan))
      /\ r.scan.errs = {} => r.token.first = s.off /\ r.token.line = s.line
  BY <1>3, <1>5, <1>6, <1>7, <1>8
<1> QED
  BY <1>9 DEF r

LEMMA ScanRight ==
  ASSUME LexInv
  PROVE  LET trivia == Trivia[[scan |-> l, blank |-> 0, comments |-> <<>>]]
             scanned == ScanToken(trivia.scan, trivia.blank)
             ts == Append(tokens \o trivia.comments, scanned.token)
             m == scanned.scan
         IN  /\ m \in Scanner /\ Sound(m)
             /\ ts \in Seq(Tokens) /\ AllPlaced(ts) /\ EndOf(ts, 0) = m.off /\ m.off \in Nat
             /\ m.errs = {} => Chained(ts, 0)
             /\ ts[Len(ts)].kind = "eof" => Ended(m)
<1> DEFINE e == EndOf(tokens, 0)
           trivia == Trivia[[scan |-> l, blank |-> 0, comments |-> <<>>]]
           scanned == ScanToken(trivia.scan, trivia.blank)
           before == tokens \o trivia.comments
           ts == Append(before, scanned.token)
           m == scanned.scan
           k == scanned.token
           f == EndOf(trivia.comments, e)
<1>1. /\ src \in Seq(STRING) /\ l \in Scanner /\ Sound(l) /\ tokens \in Seq(Tokens)
      /\ AllPlaced(tokens) /\ e \in Nat /\ l.off = From(e) /\ (l.errs = {} => Chained(tokens, 0))
  BY DEF LexInv
<1> HIDE DEF e
<1>2. /\ trivia \in TriviaState /\ Right(trivia, l, e)
      /\ C(trivia.scan, 0) \notin Blank /\ ~AtComment(trivia.scan)
  BY <1>1, TriviaRight
<1> HIDE DEF trivia
<1>3. /\ Follows(l, trivia.scan) /\ AllPlaced(trivia.comments) /\ Chained(trivia.comments, e)
      /\ From(f) <= trivia.scan.off /\ AllBlank(From(f), trivia.scan.off)
      /\ f \in Nat /\ (f # 0 => trivia.blank = BlankLines(trivia.scan.line - LineOf(f)))
  BY <1>2 DEF Right
<1>4. trivia.scan \in Scanner /\ trivia.blank \in Nat /\ trivia.comments \in Seq(Tokens)
  BY <1>2 DEF TriviaState
<1>5. Sound(trivia.scan)
  BY <1>1, <1>3 DEF Follows
<1>6. /\ m \in Scanner /\ Follows(trivia.scan, m) /\ k \in Tokens /\ Placed(k) /\ k.last + 1 = m.off
      /\ k.blank = trivia.blank /\ (k.kind = "eof" => Ended(m))
      /\ (m.errs = {} => k.first = trivia.scan.off /\ k.line = trivia.scan.line)
  BY <1>1, <1>2, <1>4, <1>5, ScanTokenRight
<1>7. /\ before \in Seq(Tokens) /\ AllPlaced(before) /\ EndOf(before, 0) = f
      /\ Chained(tokens, 0) => Chained(before, 0)
  BY <1>1, <1>3, <1>4, ConcatChained DEF e
<1> HIDE DEF m, k, f, scanned, before
<1>8. /\ ts \in Seq(Tokens) /\ AllPlaced(ts) /\ EndOf(ts, 0) = k.last + 1
      /\ Chained(before, 0) /\ Gap(k, f) => Chained(ts, 0)
  BY <1>6, <1>7, AppendChained DEF k
<1>12. ts[Len(ts)] = k
  <2>1. before \in Seq(Tokens) /\ ts = Append(before, k)
    BY <1>7 DEF k
  <2> HIDE DEF ts
  <2> QED
    BY <2>1
<1> HIDE DEF ts
<1>9. m.errs = {} => l.errs = {} /\ Gap(k, f)
  <2>1. l.errs \subseteq m.errs
    BY <1>3, <1>6 DEF Follows
  <2>2. m.errs = {} => Gap(k, f)
    BY <1>3, <1>6 DEF Gap
  <2> QED
    BY <2>1, <2>2
<1>10. Sound(m) /\ m.off \in Nat
  BY <1>1, <1>5, <1>6, ScannerFields DEF Follows
<1>11. /\ m \in Scanner /\ Sound(m)
       /\ ts \in Seq(Tokens) /\ AllPlaced(ts) /\ EndOf(ts, 0) = m.off /\ m.off \in Nat
       /\ m.errs = {} => Chained(ts, 0)
       /\ ts[Len(ts)].kind = "eof" => Ended(m)
  BY <1>1, <1>6, <1>7, <1>8, <1>9, <1>10, <1>12
<1> QED
  BY <1>11 DEF m, ts, before, scanned, trivia

\* The source does not change, and nothing that is said of it does.
LEMMA SourceKept ==
  ASSUME UNCHANGED src
  PROVE  /\ (Scanner = Scanner')
         /\ \A s : Sound(s) <=> (Sound(s))'
         /\ \A s : Ended(s) <=> (Ended(s))'
         /\ \A ts : AllPlaced(ts) <=> (AllPlaced(ts))'
         /\ \A ts, e : Chained(ts, e) <=> (Chained(ts, e))'
<1>1. \A o : LineOf(o) = (LineOf(o))' /\ ColumnOf(o) = (ColumnOf(o))'
  BY DEF LineOf, ColumnOf, BreakAt, RuneAt
<1>2. Scanner = Scanner'
  BY DEF Scanner
<1>3. \A s : Sound(s) <=> (Sound(s))'
  BY <1>1 DEF Sound, InBreak, C, RuneAt
<1>4. \A k : Placed(k) <=> (Placed(k))'
  BY <1>1 DEF Placed
<1>5. \A ts : AllPlaced(ts) <=> (AllPlaced(ts))'
  BY <1>4 DEF AllPlaced
<1>6. \A k, e : Gap(k, e) <=> (Gap(k, e))'
  <2>1. \A a, b : AllBlank(a, b) <=> (AllBlank(a, b))'
    BY DEF AllBlank
  <2> QED
    BY <1>1, <2>1 DEF Gap
<1>7. \A ts, e : Chained(ts, e) <=> (Chained(ts, e))'
  BY <1>6 DEF Chained
<1>8. \A s : Ended(s) <=> (Ended(s))'
  BY DEF Ended
<1> QED
  BY <1>2, <1>3, <1>5, <1>7, <1>8

LEMMA LexInitInv == LexInit => LexInv
<1> SUFFICES ASSUME LexInit PROVE LexInv
  OBVIOUS
<1>1. src \in Seq(STRING)
  BY SourceAssumption DEF LexInit
<1>2. l = [off |-> 1, line |-> 1, col |-> 1, errs |-> {}] /\ tokens = <<>>
  BY DEF LexInit
<1>3. l.off = 1 /\ l.line = 1 /\ l.col = 1 /\ l.errs = {}
  BY <1>2
<1>4. l \in Scanner
  <2>1. Len(src) \in Nat
    BY <1>1
  <2>2. 1 \in 1..Len(src) + 1 /\ 1 \in Nat
    BY <2>1
  <2> QED
    BY <1>2, <2>2 DEF Scanner
<1>5. LineOf(1) = 1 /\ ColumnOf(1) = 1
  <2>1. 1..1 - 1 = {}
    OBVIOUS
  <2>2. /\ {i \in 1..1 - 1 : BreakAt(i)} = {}
        /\ {i \in {k \in 1..1 - 1 : \A j \in k..1 - 1 : ~BreakAt(j)} : RuneAt(i)} = {}
    BY <2>1
  <2>3. Cardinality({}) = 0
    BY FS_EmptySet
  <2> QED
    BY <2>2, <2>3 DEF LineOf, ColumnOf
<1>6. Sound(l)
  <2>1. RuneAt(1)
    BY DEF RuneAt
  <2> QED
    BY <1>3, <1>5, <2>1 DEF Sound
<1>7. tokens \in Seq(Tokens) /\ Len(tokens) = 0
  BY <1>2
<1>8. AllPlaced(tokens) /\ EndOf(tokens, 0) = 0 /\ Chained(tokens, 0)
  BY <1>7 DEF AllPlaced, EndOf, Chained
<1>9. ~Lexed
  BY <1>2 DEF Lexed
<1> QED
  BY <1>1, <1>3, <1>4, <1>6, <1>7, <1>8, <1>9 DEF LexInv, From

LEMMA ScanKeepsInv == LexInv /\ [Scan]_lexVars => LexInv'
<1> SUFFICES ASSUME LexInv, [Scan]_lexVars PROVE LexInv'
  OBVIOUS
<1>1. UNCHANGED src
  BY DEF Scan, lexVars
<1>2. CASE Scan
  <2> DEFINE trivia == Trivia[[scan |-> l, blank |-> 0, comments |-> <<>>]]
             scanned == ScanToken(trivia.scan, trivia.blank)
             ts == Append(tokens \o trivia.comments, scanned.token)
             m == scanned.scan
  <2>1. tokens' = ts /\ l' = m
    BY <1>2 DEF Scan
  <2>2. /\ m \in Scanner /\ Sound(m)
        /\ ts \in Seq(Tokens) /\ AllPlaced(ts) /\ EndOf(ts, 0) = m.off /\ m.off \in Nat
        /\ m.errs = {} => Chained(ts, 0)
        /\ ts[Len(ts)].kind = "eof" => Ended(m)
    BY ScanRight
  <2> HIDE DEF ts, m
  <2>3. /\ l' \in Scanner' /\ (Sound(l))' /\ (AllPlaced(tokens))'
        /\ l'.errs = {} => (Chained(tokens, 0))'
    <3>1. l' \in Scanner'
      BY <1>1, <2>1, <2>2, SourceKept
    <3>2. (Sound(l))'
      BY <1>1, <2>1, <2>2, SourceKept
    <3>3. (AllPlaced(tokens))'
      BY <1>1, <2>1, <2>2, SourceKept
    <3>4. l'.errs = {} => (Chained(tokens, 0))'
      BY <1>1, <2>1, <2>2, SourceKept
    <3> QED
      BY <3>1, <3>2, <3>3, <3>4
  <2>4. (src \in Seq(STRING))'
    BY <1>1 DEF LexInv
  <2>5. (EndOf(tokens, 0))' = l'.off /\ l'.off \in Nat /\ l'.off # 0
    <3>1. m.off # 0
      BY <2>2, ScannerFields DEF LexInv
    <3> QED
      BY <2>1, <2>2, <3>1 DEF EndOf
  <2>6. (tokens \in Seq(Tokens))'
    BY <2>1, <2>2 DEF Tokens, TokenKinds
  <2>7. Lexed' => (Ended(l))'
    <3>1. Lexed' => Ended(m)
      BY <2>1, <2>2 DEF Lexed
    <3> QED
      BY <1>1, <2>1, <3>1, SourceKept
  <2> QED
    BY <2>3, <2>4, <2>5, <2>6, <2>7 DEF LexInv, From
<1>3. CASE UNCHANGED lexVars
  <2>1. UNCHANGED <<src, l, tokens>>
    BY <1>3 DEF lexVars
  <2>2. /\ src \in Seq(STRING) /\ l \in Scanner /\ Sound(l)
        /\ tokens \in Seq(Tokens) /\ AllPlaced(tokens)
        /\ EndOf(tokens, 0) \in Nat
        /\ l.off = From(EndOf(tokens, 0)) /\ (Lexed => Ended(l))
        /\ l.errs = {} => Chained(tokens, 0)
    BY DEF LexInv
  <2>3. l' \in Scanner' /\ (Sound(l))' /\ (AllPlaced(tokens))'
        /\ (l'.errs = {} => (Chained(tokens, 0))')
    <3>1. l' \in Scanner' /\ (Sound(l))'
      BY <1>1, <2>1, <2>2, SourceKept
    <3>2. (AllPlaced(tokens))'
      BY <1>1, <2>1, <2>2, SourceKept
    <3>3. l'.errs = {} => (Chained(tokens, 0))'
      BY <1>1, <2>1, <2>2, SourceKept
    <3> QED
      BY <3>1, <3>2, <3>3
  <2>4. (EndOf(tokens, 0))' = EndOf(tokens, 0)
    BY <2>1 DEF EndOf
  <2>5. Lexed' => (Ended(l))'
    <3>1. Lexed' => Ended(l')
      BY <2>1, <2>2 DEF Lexed
    <3> QED
      BY <1>1, <2>1, <3>1, SourceKept
  <2> QED
    BY <2>1, <2>2, <2>3, <2>4, <2>5 DEF LexInv, Tokens, TokenKinds, From
<1> QED
  BY <1>2, <1>3

LEMMA LexInvPositions == LexInv => PositionsRight
<1> SUFFICES ASSUME LexInv PROVE PositionsRight
  OBVIOUS
<1>1. /\ l \in Scanner /\ Sound(l) /\ tokens \in Seq(Tokens) /\ AllPlaced(tokens)
      /\ l.errs = {} => Chained(tokens, 0)
  BY DEF LexInv
<1>2. DOMAIN tokens = 1..Len(tokens) /\ Len(tokens) \in Nat
  BY <1>1
<1>3. \A i \in DOMAIN tokens :
        tokens[i].line = LineOf(tokens[i].first) /\ tokens[i].col = ColumnOf(tokens[i].first)
  BY <1>1, <1>2 DEF AllPlaced, Placed
<1>4. \A e \in l.errs : e.line = LineOf(e.off) /\ e.col = ColumnOf(e.off)
  BY <1>1 DEF Sound
<1>5. ASSUME l.errs = {}, NEW i \in 2..Len(tokens)
      PROVE  LET between == tokens[i].line - LineOf(tokens[i - 1].last + 1) - 1
             IN  tokens[i].blank = IF between > 0 THEN between ELSE 0
  <2> DEFINE e == tokens[i - 1].last + 1
             b == tokens[i].line - LineOf(e)
  <2>1. i \in 1..Len(tokens) /\ i # 1 /\ i - 1 \in 1..Len(tokens)
    BY <1>2
  <2>2. Gap(tokens[i], e)
    BY <1>1, <1>5, <2>1 DEF Chained
  <2>3. tokens[i] \in Tokens /\ tokens[i - 1] \in Tokens
    BY <1>1, <2>1
  <2>4. tokens[i].line \in Nat /\ tokens[i - 1].last \in Nat
    BY <2>3 DEF Tokens
  <2>5. e \in Nat /\ e # 0
    BY <2>4
  <2> HIDE DEF e
  <2>6. LineOf(e) \in Nat
    <3> DEFINE B == {k \in 1..e - 1 : BreakAt(k)}
    <3>1. 1 \in Int /\ e - 1 \in Int /\ B \subseteq 1..e - 1
      BY <2>5
    <3> HIDE DEF B
    <3>2. IsFiniteSet(1..e - 1)
      BY <3>1, FS_Interval
    <3>3. Cardinality(B) \in Nat
      BY <3>1, <3>2, FS_Subset, FS_CardinalityType
    <3>4. LineOf(e) = 1 + Cardinality(B)
      BY DEF LineOf, B
    <3> QED
      BY <3>3, <3>4
  <2>7. b \in Int
    BY <2>4, <2>6
  <2>8. tokens[i].blank = BlankLines(b)
    BY <2>2, <2>5 DEF Gap
  <2> HIDE DEF b
  <2>9. BlankLines(b) = IF b - 1 > 0 THEN b - 1 ELSE 0
    BY <2>7 DEF BlankLines
  <2> QED
    BY <2>8, <2>9 DEF b, e
<1> QED
  BY <1>3, <1>4, <1>5 DEF PositionsRight

LEMMA LexInvSkipped == LexInv => NothingSkipped
<1> SUFFICES ASSUME LexInv, Lexed, l.errs = {} PROVE NothingSkipped
  BY Zenon DEF NothingSkipped
<1> DEFINE n == Len(tokens)
           e(i) == IF i = 1 THEN 0 ELSE tokens[i - 1].last + 1
<1>1. /\ src \in Seq(STRING) /\ l \in Scanner /\ tokens \in Seq(Tokens) /\ Chained(tokens, 0)
      /\ l.off = From(EndOf(tokens, 0)) /\ Ended(l)
  BY DEF LexInv
<1>2. n \in Nat /\ n # 0 /\ DOMAIN tokens = 1..n /\ DOMAIN src = 1..Len(src) /\ Len(src) \in Nat
  <2>1. n \in Nat /\ DOMAIN tokens = 1..n /\ DOMAIN src = 1..Len(src) /\ Len(src) \in Nat
    BY <1>1
  <2>2. n # 0
    BY <1>1, EmptySeq DEF Lexed
  <2> QED
    BY <2>1, <2>2
<1>3. \A i \in 1..n : tokens[i].first \in Nat /\ tokens[i].last \in Nat
  <2>1. ASSUME NEW i \in 1..n PROVE tokens[i] \in Tokens
    BY <1>1
  <2>2. \A k \in Tokens : k.first \in Nat /\ k.last \in Nat
    BY DEF Tokens
  <2> HIDE DEF n
  <2> QED
    BY <2>1, <2>2
<1>4. \A i \in 1..n : From(e(i)) <= tokens[i].first /\ AllBlank(From(e(i)), tokens[i].first)
  BY <1>1 DEF Chained, Gap
<1>5. \A i \in 1..n : e(i) \in Nat /\ (i = 1 => From(e(i)) = 1)
        /\ (i # 1 => i - 1 \in 1..n /\ From(e(i)) = tokens[i - 1].last + 1)
  <2>1. ASSUME NEW i \in 1..n, i # 1
        PROVE  i - 1 \in 1..n /\ e(i) \in Nat /\ From(e(i)) = tokens[i - 1].last + 1
    <3>1. i - 1 \in 1..n
      BY <1>2, <2>1
    <3>2. tokens[i - 1].last \in Nat
      BY <1>3, <3>1
    <3> QED
      BY <2>1, <3>1, <3>2 DEF From
  <2>2. ASSUME NEW i \in 1..n, i = 1 PROVE e(i) \in Nat /\ From(e(i)) = 1
    BY <2>2 DEF From
  <2> HIDE DEF e, n
  <2> QED
    BY <2>1, <2>2
<1>6. tokens[n].last = Len(src) /\ n \in 1..n
  <2>1. n \in 1..n /\ tokens[n].last \in Nat
    BY <1>2, <1>3
  <2>2. l.off = Len(src) + 1
    BY <1>1, ScannerFields
  <2>3. EndOf(tokens, 0) = tokens[n].last + 1
    BY <1>2 DEF EndOf
  <2>4. l.off = tokens[n].last + 1
    BY <1>1, <2>1, <2>3 DEF From
  <2> QED
    BY <1>2, <2>1, <2>2, <2>4
<1> HIDE DEF e
<1>7. ASSUME NEW i \in 2..n PROVE tokens[i - 1].last < tokens[i].first
  <2>1. i \in 1..n /\ i # 1 /\ i - 1 \in 1..n
    BY <1>2
  <2>2. tokens[i - 1].last + 1 <= tokens[i].first
    BY <1>4, <1>5, <2>1
  <2>3. tokens[i - 1].last \in Nat /\ tokens[i].first \in Nat
    BY <1>3, <2>1
  <2> QED
    BY <2>2, <2>3
<1>8. ASSUME NEW k \in 1..Len(src), src[k] \notin Blank
      PROVE  \E i \in 1..n : tokens[i].first <= k /\ k <= tokens[i].last
  <2> DEFINE S == {i \in 0..n : i # 0 /\ k <= tokens[i].last}
             a == Min(S)
  <2>1. a \in S /\ \A i \in S : a <= i
    <3>1. n \in S
      BY <1>2, <1>6
    <3>2. S \in SUBSET (0..n) /\ S # {}
      BY <3>1
    <3> HIDE DEF S, n
    <3> QED
      BY <1>2, <3>2, LeastAndGreatest
  <2> HIDE DEF a
  <2>2. a \in 1..n /\ k <= tokens[a].last
    BY <1>2, <2>1
  <2>3. From(e(a)) <= k /\ From(e(a)) \in Nat
    <3>1. CASE a = 1
      BY <1>5, <2>2, <3>1
    <3>2. CASE a # 1
      <4>1. a - 1 \in 1..n /\ From(e(a)) = tokens[a - 1].last + 1 /\ tokens[a - 1].last \in Nat
        BY <1>3, <1>5, <2>2, <3>2
      <4>2. a - 1 \notin S
        BY <2>1, <2>2
      <4>3. ~(k <= tokens[a - 1].last)
        BY <1>2, <4>1, <4>2
      <4> QED
        BY <4>1, <4>3
    <3> QED
      BY <3>1, <3>2
  <2>4. tokens[a].first <= k
    <3>1. SUFFICES ASSUME ~(tokens[a].first <= k) PROVE FALSE
      OBVIOUS
    <3>2. tokens[a].first \in Nat
      BY <1>3, <2>2
    <3>3. k \in From(e(a))..tokens[a].first - 1
      BY <2>3, <3>1, <3>2
    <3>4. AllBlank(From(e(a)), tokens[a].first)
      BY <1>4, <2>2
    <3> QED
      BY <1>8, <3>3, <3>4 DEF AllBlank
  <2> QED
    BY <2>2, <2>4
<1> QED
  BY <1>2, <1>7, <1>8 DEF NothingSkipped

-----------------------------------------------------------------------------
(***************************************************************************)
(* The results on the lexer.                                               *)
(***************************************************************************)
\* Line and column of every token and every error, kept up character by
\* character, are those of its offset, and without errors the blank lines
\* that a token notes are those before it: of every source.
THEOREM LexerPositionsRight == LexSpec => []PositionsRight
<1>1. LexInit => LexInv
  BY LexInitInv
<1>2. LexInv /\ [Scan]_lexVars => LexInv'
  BY ScanKeepsInv
<1>3. LexInv => PositionsRight
  BY LexInvPositions
<1> QED
  BY <1>1, <1>2, <1>3, PTL DEF LexSpec

\* A source that is lexed without an error is in its tokens, in its order,
\* but for whitespace.
THEOREM LexerNothingSkipped == LexSpec => []NothingSkipped
<1>1. LexInit => LexInv
  BY LexInitInv
<1>2. LexInv /\ [Scan]_lexVars => LexInv'
  BY ScanKeepsInv
<1>3. LexInv => NothingSkipped
  BY LexInvSkipped
<1> QED
  BY <1>1, <1>2, <1>3, PTL DEF LexSpec

=============================================================================
