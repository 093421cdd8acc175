------------------------------- MODULE Formatter -------------------------------
(***************************************************************************)
(* How the formatter (holyc_frontend/src/fmt.rs) prints an expression, as  *)
(* characters, and which expressions it prints so that they read back.     *)
(***************************************************************************)
EXTENDS Pratt

SX == INSTANCE SequencesExt

Node(fix, sym, kids) == [fix |-> fix, sym |-> sym, kids |-> kids]

\* expr_prec: of a tree; every unary operator counts as a prefix, a cast as a leaf.
Prec(t) == CASE t.fix = "binary" -> BinaryBp(t.sym)
             [] t.fix \in {"prefix", "postfix"} -> PrefixBp
             [] t.fix \in {"assign", "ternary"} -> AssignBp
             [] OTHER -> 40

Spaced(w)  == <<" ">> \o w \o <<" ">>
Parens(w)  == <<"(">> \o w \o <<")">>

\* A literal or a name.  Display of an f64 leaves out a fraction of zero.
Whole(w)   == {i \in DOMAIN w : w[1] \in Digit /\ w[i] = "." /\ \A j \in i + 1 .. Len(w) : w[j] = "0"}
LeafStr(w) == IF Whole(w) = {} THEN w ELSE SubSeq(w, 1, (CHOOSE i \in Whole(w) : TRUE) - 1)

RECURSIVE Expr(_)
\* Fault: an assignment or a conditional among the operands gets no parentheses.
FaultExprParen(t, least) == IF t.fix = "binary" /\ Prec(t) < least THEN Parens(Expr(t)) ELSE Expr(t)
ExprParen(t, least) == IF Prec(t) < least THEN Parens(Expr(t)) ELSE Expr(t)

RECURSIVE Commas(_)
Commas(args) ==
  CASE args = <<>> -> <<>>
    [] Len(args) = 1 -> Expr(args[1])
    [] OTHER -> Expr(args[1]) \o <<",", " ">> \o Commas(Tail(args))

Expr(t) ==
  LET k == t.kids IN
  CASE t.fix = "leaf"    -> LeafStr(t.sym)
    [] t.fix = "type"    -> t.sym
    [] t.fix = "postfix" -> Expr(k[1]) \o t.sym
    [] t.fix = "prefix"  -> t.sym \o ExprParen(k[1], PrefixBp)
    [] t.fix = "binary"  ->
         ExprParen(k[1], BinaryBp(t.sym) + 1) \o Spaced(t.sym) \o ExprParen(k[2], BinaryBp(t.sym))
    [] t.fix = "assign"  -> Expr(k[1]) \o Spaced(t.sym) \o Expr(k[2])
    [] t.fix = "ternary" -> Expr(k[1]) \o Spaced(<<"?">>) \o Expr(k[2]) \o Spaced(<<":">>) \o Expr(k[3])
    [] t.fix = "call"    -> Expr(k[1]) \o Parens(Commas(Tail(k)))
    [] t.fix = "index"   -> Expr(k[1]) \o <<"[">> \o Expr(k[2]) \o <<"]">>
    [] t.fix = "field"   -> Expr(k[1]) \o t.sym \o Expr(k[2])
    [] t.fix = "cast"    -> Parens(Expr(k[1])) \o Expr(k[2])
    [] t.fix = "sizeof"  -> SizeofWord \o Parens(Expr(k[1]))
-----------------------------------------------------------------------------
(* A reference for both: the shortest text by the grammar, with a space    *)
(* between operands and what is around them.                               *)

RECURSIVE Reference(_)
Reference(t) ==
  LET Part(i) == LET w == Reference(t.kids[i])
                 IN  IF Level(t.kids[i]) < Least(t, i) THEN Parens(Spaced(w)) ELSE w
      Words(ws) == Spaced(SX!FlattenSeq(ws))
  IN  IF t.kids = <<>> THEN t.sym
      ELSE SX!FlattenSeq([i \in 1 .. Len(t.kids) |-> Words(Lead(t, i)) \o Part(i)]) \o Words(Close(t))

\* Two prefix operators without a space between them become another operator.
Glued(outer, inner) == <<outer[Len(outer)], inner[1]>> \in {<<"-", "-">>, <<"&", "&">>} /\ Len(outer) = 1

\* What the formatter prints faithfully: every operand that needs parentheses
\* is one it puts them around, no two prefix operators run into each other, and no
\* float turns into an integer.
RECURSIVE Tame(_)
Tame(t) ==
  /\ t.fix = "leaf" => Whole(t.sym) = {}
  /\ \A i \in DOMAIN t.kids :
       /\ Tame(t.kids[i])
       /\ Level(t.kids[i]) < Least(t, i) =>
            \/ t.fix = "prefix"
            \/ t.fix = "binary" /\ (i = 1 \/ Level(t.kids[i]) < Level(t))
  /\ t.fix = "prefix" /\ t.kids[1].fix = "prefix" => ~ Glued(t.sym, t.kids[1].sym)
=============================================================================
