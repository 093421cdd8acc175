------------------------------- MODULE Tokenizer -------------------------------
(***************************************************************************)
(* The loop of tokenize (holyc_frontend/src/lexer.rs) over any text, with  *)
(* the loops inside it whose rounds differ: over the parts of the gap in   *)
(* front of a token, and over the characters and escapes of a string.      *)
(***************************************************************************)
EXTENDS Lexer

CONSTANT Texts  \* texts to read

ASSUME TextsAssumption == \A s \in Texts : s \in Seq(STRING \ {None})

VARIABLES
  text, pos,  \* src, and the position of the lexer in it
  quote,      \* where the string that it is in the middle of began, or 0
  tokens,     \* what it has read
  error       \* why it gave up, if it did

lexVars == <<text, pos, quote, tokens, error>>

Begin   == pos = 1 /\ quote = 0 /\ tokens = <<>> /\ error = "none"
LexInit == text \in Texts /\ Begin

Here    == Peek(text, pos)
Fetched == IF tokens = <<>> THEN FALSE ELSE tokens[Len(tokens)].kind = "eof"
Running == error = "none" /\ ~ Fetched

GiveUp(what) == error' = what /\ UNCHANGED <<text, pos, quote, tokens>>
GoTo(p)      == pos' = p /\ UNCHANGED <<text, quote, tokens, error>>

\* One round of skip_whitespace_and_comments.
InGap     == Running /\ quote = 0
Slash(c)  == Here = "/" /\ Peek(text, pos + 1) = c
SkipBlank == InGap /\ Here \in Blank /\ GoTo(pos + 1)
SkipLine  == InGap /\ Slash("/") /\ GoTo(LineEnd(text, pos))
SkipBlock ==
  /\ InGap /\ Slash("*")
  /\ LET ends == CommentEnds(text, pos)
     IN  IF ends = {} THEN GiveUp("UnterminatedBlockComment") ELSE GoTo(First(ends) + 2)

\* The gap is over.
AtToken == InGap /\ Here \notin Blank /\ ~ Slash("/") /\ ~ Slash("*")

TakeToken ==
  /\ AtToken /\ Here # DoubleQuote
  /\ LET t == TokenAt(text, pos)
     IN  IF t.kind \in Errors THEN GiveUp(t.kind)
         ELSE tokens' = Append(tokens, t) /\ pos' = t.to /\ UNCHANGED <<text, quote, error>>

\* lex_string, a round of its loop at a time.
OpenString == AtToken /\ Here = DoubleQuote /\ quote' = pos /\ pos' = pos + 1 /\ UNCHANGED <<text, tokens, error>>
InString   == Running /\ quote # 0
ReadPlain  == InString /\ Here \notin {None, "\n", DoubleQuote, Backslash} /\ GoTo(pos + 1)
ReadEscape ==
  /\ InString /\ Here = Backslash
  /\ IF Peek(text, pos + 1) \in Escapes THEN GoTo(pos + 2) ELSE GiveUp(BadEscape(text, pos + 1))
LoseString == InString /\ Here \in {None, "\n"} /\ GiveUp("UnterminatedString")
CloseString ==
  /\ InString /\ Here = DoubleQuote
  /\ tokens' = Append(tokens, Token("string", quote, pos + 1)) /\ pos' = pos + 1 /\ quote' = 0
  /\ UNCHANGED <<text, error>>

Tokenize ==
  \/ SkipBlank \/ SkipLine \/ SkipBlock \/ TakeToken
  \/ OpenString \/ ReadPlain \/ ReadEscape \/ LoseString \/ CloseString

LexSpec == LexInit /\ [][Tokenize]_lexVars
-----------------------------------------------------------------------------
(* What a lexeme is, said of a piece of the text, from p on and up to q,   *)
(* without going through it.                                               *)

AllIn(s, p, q, C) == \A i \in p .. q - 1 : s[i] \in C
Digits(s, p, q)   == p < q /\ AllIn(s, p, q, Digit)

IsFraction(s, p, q) == \E i \in p .. q - 1 : s[i] = "." /\ Digits(s, p, i) /\ Digits(s, i + 1, q)
IsRadix(s, p, q, marks, C) ==
  p + 2 < q /\ s[p] = "0" /\ s[p + 1] \in marks /\ AllIn(s, p + 2, q, C)
IsPower(s, p, q) ==
  \E i \in p .. q - 1 :
    /\ s[i] = "e" /\ IsFraction(s, p, i)
    /\ Digits(s, i + 1, q) \/ (Peek(s, i + 1) \in {"+", "-"} /\ Digits(s, i + 2, q))
IsNumber(s, p, q) ==
  \/ Digits(s, p, q) \/ IsFraction(s, p, q) \/ IsPower(s, p, q)
  \/ IsRadix(s, p, q, {"x", "X"}, Digit \cup HexLetter) \/ IsRadix(s, p, q, {"b"}, BinDigit)

IsWord(s, p, q) == p < q /\ s[p] \in Letter /\ AllIn(s, p, q, WordChar)

IsPair(c, d) ==
  \/ d = "=" /\ c \in {"^", "%", "!", "=", "*", "/", "+", "-", "&", "|", "<", ">"}
  \/ d = c /\ c \in {"+", "-", "&", "|", "<", ">"}
  \/ c = "-" /\ d = ">"
IsOperator(s, p, q) ==
  \/ q = p + 1 /\ s[p] \in Operator
  \/ q = p + 2 /\ IsPair(s[p], s[p + 1])
  \/ q = p + 3 /\ s[p] \in {"<", ">"} /\ s[p + 1] = s[p] /\ s[p + 2] = "="

\* A character counts unless an odd number of backslashes is in front of it.
Active(s, p, i) ==
  \E j \in p .. i - 1 : s[j] # Backslash /\ (i - j) % 2 = 1 /\ \A k \in j + 1 .. i - 1 : s[k] = Backslash
IsQuoted(s, p, q, c) ==
  /\ p + 1 < q /\ s[p] = c /\ s[q - 1] = c /\ Active(s, p, q - 1)
  /\ \A i \in p + 1 .. q - 2 :
       /\ s[i] # "\n" /\ (s[i] = c => ~ Active(s, p, i))
       /\ s[i] = Backslash /\ Active(s, p, i) => s[i + 1] \in Escapes
IsString(s, p, q) == IsQuoted(s, p, q, DoubleQuote)
IsChar(s, p, q)   == IsQuoted(s, p, q, "'") /\ q - p = (IF s[p + 1] = Backslash THEN 4 ELSE 3)

Lexeme(kind, s, p, q) ==
  CASE kind \in {"int", "float"}     -> IsNumber(s, p, q)
    [] kind \in {"ident", "keyword"} -> IsWord(s, p, q)
    [] kind = "punct"                -> IsOperator(s, p, q)
    [] kind = "string"               -> IsString(s, p, q)
    [] kind = "char"                 -> IsChar(s, p, q)

\* A gap can be cut into blanks, comments up to the end of their line, and comments
\* up to the first mark of their end.
IsLineComment(s, p, q) ==
  p + 1 < q /\ s[p] = "/" /\ s[p + 1] = "/" /\ Peek(s, q) \in {None, "\n"} /\ \A i \in p .. q - 1 : s[i] # "\n"
IsBlockComment(s, p, q) ==
  /\ p + 3 < q /\ s[p] = "/" /\ s[p + 1] = "*" /\ s[q - 2] = "*" /\ s[q - 1] = "/"
  /\ \A i \in p + 2 .. q - 3 : ~ (s[i] = "*" /\ s[i + 1] = "/")
IsGapPart(s, p, q) ==
  (q = p + 1 /\ s[p] \in Blank) \/ IsLineComment(s, p, q) \/ IsBlockComment(s, p, q)
IsGap(s, p, q) ==
  \E cuts \in SUBSET (p .. q) :
    {p, q} \subseteq cuts /\ \A i \in cuts \ {q} : \E j \in cuts : i < j /\ IsGapPart(s, i, j)
-----------------------------------------------------------------------------
(* What the lexer must keep.                                               *)

\* The last token: every one is the last once.
Last   == tokens[Len(tokens)]
Before == IF Len(tokens) = 1 THEN 1 ELSE tokens[Len(tokens) - 1].to

\* A token is a lexeme of its kind, and no longer piece of the text from there on is
\* one: <<= is never << and =, 10 never 1 and 0.  A string and a character end at
\* the first quote that ends them.
LongestLexeme ==
  tokens # <<>> /\ Last.kind \notin {"eof", "directive", "hash"} =>
    /\ Lexeme(Last.kind, text, Last.from, Last.to)
    /\ Last.kind \notin {"string", "char"} =>
         \A q \in Last.to + 1 .. Len(text) + 1 : ~ Lexeme(Last.kind, text, Last.from, q)

\* Tokens stand in the order of the text and do not share a character, and what is
\* between two of them is blanks and whole comments: no character is lost.
NothingSkipped ==
  tokens # <<>> =>
    /\ Before <= Last.from
    /\ IsGap(text, Before, Last.from)
    /\ IF Last.kind = "eof" THEN Last.to = Len(text) + 1 ELSE Last.from < Last.to
=============================================================================
