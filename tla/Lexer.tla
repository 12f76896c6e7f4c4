------------------------------- MODULE Lexer --------------------------------
(***************************************************************************)
(* syntax.Lex: the lexer.  The source is a sequence of characters, each    *)
(* standing for its class, except that a keyword is one character, which   *)
(* is a keyword where it stands alone and letters where it does not.  The  *)
(* state l of the scanner is a record: the next character (off), the line  *)
(* and the column it is on, and the errors.  A step scans one token, with  *)
(* the whitespace and the comments before it.                              *)
(***************************************************************************)
EXTENDS Integers, Sequences, FiniteSets

CONSTANT Source   \* the sources

ASSUME SourceAssumption == Source \subseteq Seq(STRING)

VARIABLES
  src,      \* the source
  l,        \* the state of the scanner
  tokens    \* the tokens, comments included

lexVars == <<src, l, tokens>>

Keyword == {"include", "cpp_include", "cpp_type", "namespace", "struct", "union",
  "exception", "service", "enum", "const", "typedef", "oneway", "async", "throws",
  "extends", "required", "optional", "void", "i32", "byte", "slist", "map", "list",
  "set", "true"}
Letter == Keyword \cup {"a", "e", "x"}
Digit == {"0", "1"}
HexDigit == Digit \cup {"a", "e"}
Sign == {"+"}
Symbol == {"{", "}", "(", ")", "[", "]", "<", ">", ",", ";", ":", "=", "@", "&", "*"}
Blank == {"space", "CR", "LF"}
Escapable == {"quote", "\\"}

\* Other characters: ".", "/", "#", "quote", "\\", and what is in no token
\* but a string or a comment: "lead", which with "trail" behind it is a rune
\* of two bytes, and either of them alone, a byte that is no rune.
C(s, k) == IF s.off + k <= Len(src) THEN src[s.off + k] ELSE "none"
Ended(s) == s.off > Len(src)

SrcPos == [off : Nat, line : Nat, col : Nat]
Scanner == [off : 1..Len(src) + 1, line : Nat, col : Nat, errs : SUBSET SrcPos]

-----------------------------------------------------------------------------
(***************************************************************************)
(* advanceByte and advanceRune.  The two characters of a CR LF are one     *)
(* line break, counted at the LF.                                          *)
(***************************************************************************)
Breaks(s) == C(s, 0) = "LF" \/ (C(s, 0) = "CR" /\ C(s, 1) # "LF")

AdvanceBy(s, size) ==
  [s EXCEPT !.off = @ + size,
            !.line = IF Breaks(s) THEN @ + 1 ELSE @,
            !.col = IF Breaks(s) THEN 1 ELSE IF C(s, 0) = "CR" THEN @ ELSE @ + 1]
AdvanceByte(s) == AdvanceBy(s, 1)

\* Variant: a rune is a byte.
RuneIsByte(s) == AdvanceBy(s, 1)
AdvanceRune(s) ==
  AdvanceBy(s, IF C(s, 0) = "lead" /\ C(s, 1) = "trail" THEN 2 ELSE 1)

Advanced(s, n) ==
  LET after[k \in 0..n] == IF k = 0 THEN s ELSE AdvanceByte(after[k - 1])
  IN  after[n]

Report(s, from) ==
  [s EXCEPT !.errs = @ \cup {[off |-> from.off, line |-> from.line, col |-> from.col]}]

Token(kind, from, s, blank) ==
  [kind |-> kind, first |-> from.off, last |-> s.off - 1,
   line |-> from.line, col |-> from.col, blank |-> blank]

-----------------------------------------------------------------------------
(***************************************************************************)
(* Whitespace and comments.  A loop is a function of its state.            *)
(***************************************************************************)
BlankLines(breaks) == IF breaks > 0 THEN breaks - 1 ELSE 0

Spacing == [scan : Scanner, breaks : Nat]
Whitespace[t \in Spacing] ==
  IF C(t.scan, 0) \notin Blank THEN [scan |-> t.scan, blank |-> BlankLines(t.breaks)]
  ELSE IF C(t.scan, 0) = "space" THEN Whitespace[[t EXCEPT !.scan = AdvanceByte(@)]]
  ELSE IF C(t.scan, 0) = "CR" /\ C(t.scan, 1) = "LF"
       THEN Whitespace[[scan |-> AdvanceByte(AdvanceByte(t.scan)), breaks |-> t.breaks + 1]]
  ELSE Whitespace[[scan |-> AdvanceByte(t.scan), breaks |-> t.breaks + 1]]

AtLineComment(s) == C(s, 0) = "#" \/ (C(s, 0) = "/" /\ C(s, 1) = "/")
AtBlockComment(s) == C(s, 0) = "/" /\ C(s, 1) = "*"

ToLineEnd[s \in Scanner] ==
  IF C(s, 0) \in {"LF", "CR", "none"} THEN s ELSE ToLineEnd[AdvanceRune(s)]

ToBlockEnd[s \in Scanner] ==
  IF Ended(s) \/ (C(s, 0) = "*" /\ C(s, 1) = "/") THEN s ELSE ToBlockEnd[AdvanceRune(s)]

\* An unterminated comment takes the rest, and is reported where it began.
BlockComment(s) ==
  LET end == ToBlockEnd[Advanced(s, 2)]
  IN  IF Ended(end) THEN Report(end, s) ELSE Advanced(end, 2)

SkipComment(s) == IF AtLineComment(s) THEN ToLineEnd[s] ELSE BlockComment(s)
CommentKind(s) ==
  IF AtLineComment(s) THEN "line comment"
  ELSE IF C(s, 2) = "*" /\ SkipComment(s).errs = s.errs THEN "doc comment"
  ELSE "block comment"

TokenKinds == Keyword \cup Symbol \cup {"identifier", "int", "double", "string", "eof",
  "line comment", "doc comment", "block comment"}
Tokens == [kind : TokenKinds, first : Nat, last : Nat, line : Nat, col : Nat, blank : Nat]

\* blank counts the empty lines behind the last of the comments.
TriviaState == [scan : Scanner, blank : Nat, comments : Seq(Tokens)]
Trivia[t \in TriviaState] ==
  LET s == t.scan
      run == Whitespace[[scan |-> s, breaks |-> 0]]
      end == SkipComment(s)
      comment == Token(CommentKind(s), s, end, t.blank)
  IN  IF C(s, 0) \in Blank
      THEN Trivia[[t EXCEPT !.scan = run.scan, !.blank = @ + run.blank]]
      ELSE IF AtLineComment(s) \/ AtBlockComment(s)
           THEN Trivia[[scan |-> end, blank |-> 0, comments |-> Append(t.comments, comment)]]
      ELSE t

-----------------------------------------------------------------------------
(***************************************************************************)
(* Identifiers, numbers and strings.                                       *)
(***************************************************************************)
Identifier[s \in Scanner] ==
  IF C(s, 0) \in Letter \cup Digit THEN Identifier[AdvanceByte(s)]
  ELSE IF C(s, 0) = "." /\ C(s, 1) \in Letter THEN Identifier[Advanced(s, 2)]
  ELSE s

IdentifierKind(s, end) ==
  IF end.off = s.off + 1 /\ C(s, 0) \in Keyword THEN C(s, 0) ELSE "identifier"

\* How many characters from the k-th on are in S.
Run(s, k, S) ==
  CHOOSE n \in 0..Len(src) :
    C(s, k + n) \notin S /\ \A m \in 0..n - 1 : C(s, k + m) \in S
SignLen(s, k) == IF C(s, k) \in Sign THEN 1 ELSE 0

MatchInt(s) ==
  LET digits == Run(s, SignLen(s, 0), Digit)
  IN  IF digits = 0 THEN 0 ELSE SignLen(s, 0) + digits

MatchHex(s) ==
  LET sign == SignLen(s, 0)
      digits == Run(s, sign + 2, HexDigit)
  IN  IF C(s, sign) # "0" \/ C(s, sign + 1) # "x" \/ digits = 0 THEN 0
      ELSE sign + 2 + digits

MatchDouble(s) ==
  LET whole == SignLen(s, 0) + Run(s, SignLen(s, 0), Digit)
      point == C(s, whole) = "."
      fraction == IF point THEN 1 + Run(s, whole + 1, Digit) ELSE 0
      power == whole + fraction
      sign == SignLen(s, power + 1)
      exponent == Run(s, power + 1 + sign, Digit)
  IN  IF fraction = 1 THEN 0
      ELSE IF C(s, power) = "e"
           THEN IF exponent = 0 \/ (~point /\ MatchInt(s) = 0) THEN 0
                ELSE power + 1 + sign + exponent
      ELSE IF ~point /\ MatchInt(s) = 0 THEN 0 ELSE power

Number(s) ==
  LET hex == MatchHex(s)
      int == MatchInt(s)
      double == MatchDouble(s)
  IN  IF hex > 0 /\ hex >= int /\ hex >= double THEN [kind |-> "int", len |-> hex]
      ELSE IF int > 0 /\ int >= double THEN [kind |-> "int", len |-> int]
      ELSE [kind |-> "double", len |-> double]

\* A string ends at its quote, or, with an error, where the line or the
\* source does; an escape that is not known is an error and is passed over
\* with its rune.
ToQuote[s \in Scanner] ==
  IF C(s, 0) \in {"none", "quote", "LF", "CR"} \/ (C(s, 0) = "\\" /\ C(s, 1) = "none") THEN s
  ELSE IF C(s, 0) # "\\" THEN ToQuote[AdvanceRune(s)]
  ELSE IF C(s, 1) \in Escapable THEN ToQuote[Advanced(s, 2)]
  ELSE ToQuote[AdvanceRune(AdvanceByte(Report(s, s)))]

ScanString(s) ==
  LET end == ToQuote[AdvanceByte(s)]
  IN  CASE C(end, 0) = "quote" -> AdvanceByte(end)
        [] C(end, 0) = "\\" -> Report(AdvanceByte(end), s)
        [] OTHER -> Report(end, s)

-----------------------------------------------------------------------------
(***************************************************************************)
(* scanToken.  Behind a character that no token begins with, whitespace    *)
(* and comments are passed over and are not tokens.                        *)
(***************************************************************************)
AtNumber(s) ==
  C(s, 0) \in Digit \cup Sign \/ (C(s, 0) = "." /\ C(s, 1) \in Digit)

AtToken(s) ==
  Ended(s) \/ C(s, 0) \in Letter \cup Symbol \cup {"quote"} \/ (AtNumber(s) /\ Number(s).len > 0)

ToToken[s \in Scanner] ==
  IF AtToken(s) THEN s
  ELSE IF C(s, 0) \in Blank THEN ToToken[AdvanceByte(s)]
  ELSE IF AtLineComment(s) \/ AtBlockComment(s) THEN ToToken[SkipComment(s)]
  ELSE ToToken[AdvanceRune(Report(s, s))]

TokenKind(s) ==
  CASE Ended(s) -> "eof"
    [] C(s, 0) \in Letter -> IdentifierKind(s, Identifier[s])
    [] C(s, 0) = "quote" -> "string"
    [] C(s, 0) \in Symbol -> C(s, 0)
    [] OTHER -> Number(s).kind

TokenEnd(s) ==
  CASE Ended(s) -> s
    [] C(s, 0) \in Letter -> Identifier[s]
    [] C(s, 0) = "quote" -> ScanString(s)
    [] C(s, 0) \in Symbol -> AdvanceByte(s)
    [] OTHER -> Advanced(s, Number(s).len)

ScanToken(s, blank) ==
  LET start == ToToken[s]
      end == TokenEnd(start)
  IN  [scan |-> end, token |-> Token(TokenKind(start), start, end, blank)]

Lexed == tokens # <<>> /\ tokens[Len(tokens)].kind = "eof"

Scan ==
  /\ ~Lexed
  /\ LET trivia == Trivia[[scan |-> l, blank |-> 0, comments |-> <<>>]]
         scanned == ScanToken(trivia.scan, trivia.blank)
     IN  /\ tokens' = Append(tokens \o trivia.comments, scanned.token)
         /\ l' = scanned.scan
  /\ UNCHANGED src

LexInit ==
  /\ src \in Source
  /\ l = [off |-> 1, line |-> 1, col |-> 1, errs |-> {}]
  /\ tokens = <<>>

LexSpec == LexInit /\ [][Scan]_lexVars

-----------------------------------------------------------------------------
\* Line and column by definition: the line breaks before a character, and
\* the runes between the last of them and the character.
BreakAt(i) == src[i] = "LF" \/ (src[i] = "CR" /\ (i = Len(src) \/ src[i + 1] # "LF"))
RuneAt(i) == ~(src[i] = "trail" /\ i > 1 /\ src[i - 1] = "lead")
LineOf(off) == 1 + Cardinality({i \in 1..off - 1 : BreakAt(i)})
ColumnOf(off) ==
  LET line == {i \in 1..off - 1 : \A j \in i..off - 1 : ~BreakAt(j)}
  IN  1 + Cardinality({i \in line : RuneAt(i)})

\* Line and column of every token and every error, kept up character by
\* character, are those of its offset, in runes, whatever the line breaks
\* and the invalid bytes before it; and without errors the blank lines
\* before a token are the lines between the end of the one before and it.
PositionsRight ==
  /\ \A i \in DOMAIN tokens :
       tokens[i].line = LineOf(tokens[i].first) /\ tokens[i].col = ColumnOf(tokens[i].first)
  /\ \A e \in l.errs : e.line = LineOf(e.off) /\ e.col = ColumnOf(e.off)
  /\ l.errs = {} =>
       \A i \in 2..Len(tokens) :
         LET between == tokens[i].line - LineOf(tokens[i - 1].last + 1) - 1
         IN  tokens[i].blank = IF between > 0 THEN between ELSE 0

\* Without errors the tokens are the source: every character that is not
\* whitespace is in one of them, and they keep its order.
NothingSkipped ==
  Lexed /\ l.errs = {} =>
    /\ \A k \in DOMAIN src : src[k] \notin Blank =>
         \E i \in DOMAIN tokens : tokens[i].first <= k /\ k <= tokens[i].last
    /\ \A i \in 2..Len(tokens) : tokens[i - 1].last < tokens[i].first

=============================================================================
