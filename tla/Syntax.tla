------------------------------- MODULE Syntax -------------------------------
(***************************************************************************)
(* syntax.Parse: the lexer, and the parser on the tokens the lexer made.   *)
(***************************************************************************)
EXTENDS Lexer, Parser

KindsOf(ts) == [i \in DOMAIN ts |-> ts[i].kind]
Parsing == Lexed /\ toks = KindsOf(tokens)

ParseTokens ==
  /\ Lexed /\ ~Parsing
  /\ toks' = KindsOf(tokens)
  /\ UNCHANGED <<src, l, tokens, p, doc>>

SyntaxInit == LexInit /\ Init

SyntaxNext ==
  \/ Scan /\ UNCHANGED vars
  \/ ParseTokens
  \/ Next /\ UNCHANGED lexVars

SyntaxSpec == SyntaxInit /\ [][SyntaxNext]_<<src, l, tokens, toks, p, doc>>

-----------------------------------------------------------------------------
\* Without errors the document is the whole source.  Every character that is
\* not whitespace is in one token, and the token is a comment or belongs to
\* one definition; tokens and definitions keep the order of the source.  So
\* a printer of the definitions and the comments loses nothing.
Lossless ==
  Parsing /\ AtEnd /\ l.errs = {} /\ Errors = {} =>
    /\ NothingSkipped
    /\ \A i \in Real : tokens[i].first <= tokens[i].last =>
         \E d \in DOMAIN doc : i \in Covers(doc[d])
    /\ \A d \in 2..Len(doc) : doc[d - 1].last < doc[d].first
=============================================================================
