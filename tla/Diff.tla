-------------------------------- MODULE Diff --------------------------------
(***************************************************************************)
(* The unified diff of formatter.diff, which `format -d` prints.  A text   *)
(* is a sequence of lines, of which only the last may lack its newline and *)
(* is then another line than the same one with it.  Pairs of line counts,  *)
(* x of the old text and y of the new one, are offsets from 0.             *)
(***************************************************************************)
EXTENDS Integers, FiniteSets, Sequences, SequencesExt

CONSTANT Context     \* C, the lines of context of a chunk

ASSUME DiffAssumption == Context \in Nat \ {0}

Pair(x, y) == [x |-> x, y |-> y]
\* A line of a chunk, with its mark: it is of the old text, of the new or of both.
Line(mark, text) == [mark |-> mark, text |-> text]
Marked(mark, s, from, to) == [i \in 1 .. to - from |-> Line(mark, s[from + i])]

-----------------------------------------------------------------------------
\* Where a line stands that both texts have exactly once.
Once(s) == {i \in DOMAIN s : \A j \in DOMAIN s : s[j] = s[i] => j = i}
Anchors(x, y) == {i \in Once(x) : \E j \in Once(y) : x[i] = y[j]}
Partner(x, y, i) == CHOOSE j \in Once(y) : y[j] = x[i]

\* L of Szymanski's algorithm: the length of the longest run of anchors, in
\* order in both texts, that ends with this one.
LongestTo(x, y) ==
  LET L[i \in Anchors(x, y)] ==
        LET before == {j \in Anchors(x, y) : j < i /\ Partner(x, y, j) < Partner(x, y, i)}
        IN  1 + Max({0} \cup {L[j] : j \in before})
  IN  L

\* tgs: a longest run, picked from the last line backwards, between the
\* beginnings and the ends of the texts.  The code compares the partners with
\* lastj, which it never sets: that they come in order too has to follow.
Tgs(x, y) ==
  LET L == LongestTo(x, y)
      longest == Max({0} \cup {L[i] : i \in Anchors(x, y)})
      run[n \in 0 .. Len(x)] ==       \* of the last n lines
        LET i == Len(x) - n + 1
        IN  IF n = 0 THEN <<>>
            ELSE IF i \in Anchors(x, y) /\ L[i] = longest - Len(run[n - 1])
            THEN <<i>> \o run[n - 1]
            ELSE run[n - 1]
      picked == run[Len(x)]
  IN  <<Pair(0, 0)>> \o [k \in DOMAIN picked |-> Pair(picked[k] - 1, Partner(x, y, picked[k]) - 1)]
      \o <<Pair(Len(x), Len(y))>>

-----------------------------------------------------------------------------
(***************************************************************************)
(* The loop over the matches.  Its state is the variables of the code:     *)
(* done, the chunk begun, the lines in it and their number on either side, *)
(* and the chunks written.                                                 *)
(***************************************************************************)
Begun == [done |-> Pair(0, 0), chunk |-> Pair(0, 0), count |-> Pair(0, 0), ctext |-> <<>>,
          out |-> <<>>, over |-> FALSE]

Start(x, y, done, m) ==
  LET back == {k \in 0 .. Min({m.x - done.x, m.y - done.y}) :
                 \A i \in 1 .. k : x[m.x - i + 1] = y[m.y - i + 1]}
  IN  Pair(m.x - Max(back), m.y - Max(back))
End(x, y, m) ==
  LET on == {k \in 0 .. Min({Len(x) - m.x, Len(y) - m.y}) :
               \A i \in 1 .. k : x[m.x + i] = y[m.y + i]}
  IN  Pair(m.x + Max(on), m.y + Max(on))

\* The lines up to start differ.
Differing(x, y, at, start) ==
  [at EXCEPT !.ctext = @ \o Marked("old", x, at.done.x, start.x) \o Marked("new", y, at.done.y, start.y),
             !.count = Pair(@.x + (start.x - at.done.x), @.y + (start.y - at.done.y)),
             !.done = start]

\* The next n lines are the same.
Common(x, at, n) ==
  [at EXCEPT !.ctext = @ \o Marked("both", x, at.done.x, at.done.x + n),
             !.count = Pair(@.x + n, @.y + n),
             !.done = Pair(@.x + n, @.y + n)]

\* A chunk as it is written: where it begins, counted from 1 unless empty.
Chunk(at) ==
  [x |-> at.chunk.x + IF at.count.x > 0 THEN 1 ELSE 0,
   y |-> at.chunk.y + IF at.count.y > 0 THEN 1 ELSE 0,
   xs |-> at.count.x, ys |-> at.count.y, lines |-> at.ctext]

\* The chunk ends, if there is any, with n of the lines that are the same.
Ended(x, at, n) ==
  IF at.ctext = <<>> THEN at
  ELSE [Common(x, at, n) EXCEPT !.out = Append(@, Chunk(Common(x, at, n)))]

\* Another one begins with the last of them.
NewChunk(x, at, end) ==
  [at EXCEPT !.chunk = Pair(end.x - Context, end.y - Context),
             !.ctext = Marked("both", x, end.x - Context, end.x),
             !.count = Pair(Context, Context),
             !.done = end]

\* A variant that ends a chunk where the context of two could overlap.
TooFew(common, ctext) == common < Context

\* Too few common lines to end the chunk.
GoesOn(common, ctext) == common < Context \/ (ctext # <<>> /\ common < 2 * Context)

Turn(x, y, at, m) ==
  LET start == Start(x, y, at.done, m)
      end == End(x, y, m)
      common == end.x - start.x
      eof == end.x = Len(x) /\ end.y = Len(y)
      differing == Differing(x, y, at, start)
      ended == Ended(x, differing, Min({common, Context}))
  IN  IF at.over \/ m.x < at.done.x THEN at
      ELSE IF eof THEN [ended EXCEPT !.over = TRUE]
      ELSE IF GoesOn(common, differing.ctext) THEN Common(x, differing, common)
      ELSE NewChunk(x, ended, end)

UnifiedDiff(x, y) ==
  LET matches == Tgs(x, y)
      turn[k \in 0 .. Len(matches)] ==
        IF k = 0 THEN Begun ELSE Turn(x, y, turn[k - 1], matches[k])
  IN  IF x = y THEN <<>> ELSE turn[Len(matches)].out

-----------------------------------------------------------------------------
(***************************************************************************)
(* What patch makes of it: every chunk must stand where its header says,   *)
(* in both texts, and hold as many lines.                                  *)
(***************************************************************************)
\* The texts of the lines with these marks.
Side(lines, marks) ==
  LET side[k \in 0 .. Len(lines)] ==
        IF k = 0 THEN <<>>
        ELSE IF lines[k].mark \in marks THEN Append(side[k - 1], lines[k].text)
        ELSE side[k - 1]
  IN  side[Len(lines)]
From(start, count) == IF count > 0 THEN start - 1 ELSE start

Part(s, from, to) == SubSeq(s, from + 1, to)
Fitting(x, p, c) ==
  LET from == From(c.x, c.xs)
  IN  /\ p.fits
      /\ p.at <= from /\ from + c.xs <= Len(x)
      /\ Side(c.lines, {"both", "old"}) = Part(x, from, from + c.xs)
      /\ From(c.y, c.ys) = Len(p.text) + from - p.at
      /\ Len(Side(c.lines, {"both", "new"})) = c.ys
Patched(x, p, c) ==
  LET from == From(c.x, c.xs)
  IN  IF Fitting(x, p, c)
      THEN [text |-> p.text \o Part(x, p.at, from) \o Side(c.lines, {"both", "new"}),
            at |-> from + c.xs, fits |-> TRUE]
      ELSE [p EXCEPT !.fits = FALSE]
Patch(x, chunks) ==
  LET patched[k \in 0 .. Len(chunks)] ==
        IF k = 0 THEN [text |-> <<>>, at |-> 0, fits |-> TRUE]
        ELSE Patched(x, patched[k - 1], chunks[k])
  IN  patched[Len(chunks)]
=============================================================================
