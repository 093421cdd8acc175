--------------------------------- MODULE Lexer ---------------------------------
(***************************************************************************)
(* The lexer (holyc_frontend/src/lexer.rs) as operators on a text, a       *)
(* sequence of characters.  Positions count from 1; a token is the span    *)
(* [from, to).  TokenAt is next_token, and After... are its loops.         *)
(*                                                                         *)
(* Of each class of characters a few members stand for all, those that the *)
(* lexer tells apart among them.  Line and column are left out, and so is  *)
(* the value of a literal: a text within any bound here fits in 64 bits.   *)
(***************************************************************************)
EXTENDS Integers, Sequences

DoubleQuote == "\""
Backslash   == "\\"

Blank     == {" ", "\n"}
BinDigit  == {"0", "1"}
Digit     == {"0", "1", "8"}
HexLetter == {"a", "b", "e", "f"}
Letter    == HexLetter \cup {"I", "X", "i", "l", "n", "o", "s", "x", "z", "_"}
WordChar  == Letter \cup Digit

SizeofWord == <<"s", "i", "z", "e", "o", "f">>
TypeWords  == {<<"I", "8">>}
Keywords   == TypeWords \cup {SizeofWord, <<"i", "f">>}
Directives == {<<"e", "l", "i", "f">>, <<"e", "l", "s", "e">>}
Escapes    == {"n", "0", Backslash, DoubleQuote, "'"}

\* What may follow a character in an operator of two; << and >> may take = as well.
Single == {"(", ")", "{", "}", "[", "]", ";", ",", "?", ":", "~", "."}
Follow(c) == CASE c \in Single -> {}
               [] c \in {"^", "%", "!", "=", "*", "/"} -> {"="}
               [] c = "+" -> {"+", "="}
               [] c = "-" -> {"-", "=", ">"}
               [] c = "&" -> {"&", "="}
               [] c = "|" -> {"|", "="}
               [] c = "<" -> {"<", "="}
               [] c = ">" -> {">", "="}
Operator == Single \cup {"^", "%", "!", "=", "*", "/", "+", "-", "&", "|", "<", ">"}

\* peek and peek2
None == ""
Peek(s, p) == IF p <= Len(s) THEN s[p] ELSE None

\* while peek() is in C: advance()
After(s, p, C) ==
  CHOOSE q \in p .. Len(s) + 1 : Peek(s, q) \notin C /\ \A i \in p .. q - 1 : s[i] \in C

LineEnd(s, p) ==
  CHOOSE q \in p .. Len(s) + 1 : Peek(s, q) \in {None, "\n"} /\ \A i \in p .. q - 1 : s[i] # "\n"

Token(kind, p, q) == [kind |-> kind, from |-> p, to |-> q]
Error(what, p)    == [kind |-> what, from |-> p, to |-> p]
Errors == {"UnterminatedBlockComment", "UnterminatedString", "UnterminatedChar", "EmptyChar",
           "InvalidEscape", "IntegerOverflow", "UnexpectedChar"}
-----------------------------------------------------------------------------
\* Fault: the end of a comment is looked for from its first star on, as in /*/.
FaultCommentEnds(s, p) == {i \in p + 1 .. Len(s) : s[i] = "*" /\ Peek(s, i + 1) = "/"}

\* Where */ stands behind the /* at p.
CommentEnds(s, p) == {i \in p + 2 .. Len(s) : s[i] = "*" /\ Peek(s, i + 1) = "/"}
First(S) == CHOOSE i \in S : \A j \in S : i <= j

\* The escape at p, behind the backslash: what is wrong with it, if anything.
BadEscape(s, p) == IF Peek(s, p) = None THEN "UnterminatedString" ELSE "InvalidEscape"

CharLit(s, p) ==
  LET c    == Peek(s, p + 1)
      next == IF c = Backslash THEN p + 3 ELSE p + 2
  IN  CASE c \in {None, "\n"} -> Error("UnterminatedChar", p)
        [] c = "'" -> Error("EmptyChar", p)
        [] c = Backslash /\ Peek(s, p + 2) \notin Escapes -> Error(BadEscape(s, p + 2), p)
        [] OTHER -> IF Peek(s, next) = "'" THEN Token("char", p, next + 1)
                    ELSE Error("UnterminatedChar", p)

\* from_str_radix has nothing to read when no digit follows 0x or 0b.
Radix(s, p, digits) ==
  LET q == After(s, p + 2, digits)
  IN  IF q = p + 2 THEN Error("IntegerOverflow", p) ELSE Token("int", p, q)

\* An exponent may have a sign and, to parse, has digits.
Fraction(s, p, dot) ==
  LET q    == After(s, dot + 1, Digit)
      sign == IF Peek(s, q + 1) \in {"+", "-"} THEN q + 2 ELSE q + 1
      r    == After(s, sign, Digit)
  IN  IF Peek(s, q) # "e" THEN Token("float", p, q)
      ELSE IF r = sign THEN Error("IntegerOverflow", p) ELSE Token("float", p, r)

Number(s, p) ==
  LET q == After(s, p, Digit)
  IN  CASE s[p] = "0" /\ Peek(s, p + 1) \in {"x", "X"} -> Radix(s, p, Digit \cup HexLetter)
        [] s[p] = "0" /\ Peek(s, p + 1) = "b" -> Radix(s, p, BinDigit)
        [] Peek(s, q) = "." /\ Peek(s, q + 1) \in Digit -> Fraction(s, p, q)
        [] OTHER -> Token("int", p, q)

Text(s, t) == SubSeq(s, t.from, t.to - 1)

Identifier(s, p) ==
  LET q == After(s, p, WordChar)
  IN  Token(IF SubSeq(s, p, q - 1) \in Keywords THEN "keyword" ELSE "ident", p, q)

\* A word that is no directive is swallowed with its #.
Directive(s, p) ==
  LET w == After(s, p + 1, {" "})
      q == After(s, w, WordChar)
  IN  Token(IF SubSeq(s, w, q - 1) \in Directives THEN "directive" ELSE "hash", p, q)

\* Fault: << and >> end before an = that belongs to them.
FaultPunctuation(s, p) ==
  IF s[p] \notin Operator THEN Error("UnexpectedChar", p)
  ELSE Token("punct", p, IF Peek(s, p + 1) \notin Follow(s[p]) THEN p + 1 ELSE p + 2)

Punctuation(s, p) ==
  LET c == s[p]
      d == Peek(s, p + 1)
      shifted == c \in {"<", ">"} /\ c = d /\ Peek(s, p + 2) = "="
  IN  IF c \notin Operator THEN Error("UnexpectedChar", p)
      ELSE Token("punct", p, IF d \notin Follow(c) THEN p + 1 ELSE IF shifted THEN p + 3 ELSE p + 2)

\* next_token once the gap is behind it; a string is read by the steps of Tokenizer.
TokenAt(s, p) ==
  CASE Peek(s, p) = None -> Token("eof", p, p)
    [] Peek(s, p) = "#" -> Directive(s, p)
    [] Peek(s, p) = "'" -> CharLit(s, p)
    [] Peek(s, p) \in Digit -> Number(s, p)
    [] Peek(s, p) \in Letter -> Identifier(s, p)
    [] OTHER -> Punctuation(s, p)
=============================================================================
