--------------------------------- MODULE Pratt ---------------------------------
(***************************************************************************)
(* The expression parser (holyc_frontend/src/parser.rs): parse_pratt and   *)
(* parse_prefix, which call each other.  frames has an entry for each      *)
(* expression whose next operand is being read; min, start and lhs are the *)
(* locals of the parse_pratt that reads it.  Expressions stay where they   *)
(* are made, in nodes, and are known by their index there.                 *)
(*                                                                         *)
(* A token is [kind, text].  Literals and names are leaves that differ     *)
(* only in their text, TRUE, FALSE and NULL among them; a span goes from a *)
(* token up to another.  Code gives the expression in parentheses their    *)
(* span, here they are a node.                                             *)
(***************************************************************************)
EXTENDS Lexer

VARIABLES
  input,   \* the tokens, the last is the end of the file
  at,      \* cursor
  min,     \* min_bp
  start,   \* where the expression that parse_pratt reads begins
  lhs,     \* what it has read of it, 0 as long as parse_prefix is at work
  frames,  \* the expressions around it
  nodes,   \* all that were made
  outcome  \* "none", "tree" or an error; "idle" before there are tokens

parsing == <<input, at, min, start, lhs, frames, nodes, outcome>>

\* l_bp of the infix operators, 0 for what is none; the right one is one more,
\* for an assignment one less, and for the ternary none.
AssignOps == {<<"=">>, <<"+", "=">>, <<"-", "=">>, <<"*", "=">>, <<"/", "=">>, <<"%", "=">>,
              <<"&", "=">>, <<"|", "=">>, <<"^", "=">>, <<"<", "<", "=">>, <<">", ">", "=">>}

BinaryBp(w) ==
  CASE w = <<"|", "|">>                        -> 4
    [] w = <<"&", "&">>                        -> 6
    [] w = <<"|">>                             -> 8
    [] w = <<"^">>                             -> 10
    [] w = <<"&">>                             -> 12
    [] w \in {<<"=", "=">>, <<"!", "=">>}      -> 14
    [] w \in {<<"<">>, <<">">>, <<"<", "=">>, <<">", "=">>} -> 16
    [] w \in {<<"<", "<">>, <<">", ">">>}      -> 18
    [] w \in {<<"+">>, <<"-">>}                -> 20
    [] w \in {<<"*">>, <<"/">>, <<"%">>}       -> 22
    [] OTHER                                   -> 0

AssignBp  == 2
TernaryBp == 3
LeftBp(w) == IF w \in AssignOps THEN AssignBp ELSE IF w = <<"?">> THEN TernaryBp ELSE BinaryBp(w)

\* Fault: a prefix operator binds looser than a product.
FaultPrefixBp == 21
PrefixBp == 30

PrefixOps  == {<<"!">>, <<"~">>, <<"-">>, <<"*">>, <<"&">>, <<"+", "+">>, <<"-", "-">>}
PostfixOps == {<<"+", "+">>, <<"-", "-">>}
FieldOps   == {<<".">>, <<"-", ">">>}
LeafKinds  == {"int", "float", "string", "char", "ident"}

\* check
Is(p, w)  == input[p].kind \in {"punct", "keyword"} /\ input[p].text = w
\* is_type_start; no class or typedef is declared before an expression here.
IsType(p) == input[p].kind = "keyword" /\ input[p].text \in TypeWords
AfterType(p) ==
  CHOOSE q \in p + 1 .. Len(input) : ~ Is(q, <<"*">>) /\ \A i \in p + 1 .. q - 1 : Is(i, <<"*">>)

Word    == IF input[at].kind = "punct" THEN input[at].text ELSE <<>>
Reading == outcome = "none" /\ lhs = 0
Looping == outcome = "none" /\ lhs # 0

Made(fix, sym, kids, p, q) == [fix |-> fix, sym |-> sym, kids |-> kids, from |-> p, to |-> q]
TypeAt(p) == Made("type", input[p].text, <<>>, p, AfterType(p))

Begun(ts) == input = ts /\ at = 1 /\ min = 0 /\ start = 1 /\ lhs = 0 /\ frames = <<>> /\ nodes = <<>>

\* parse_pratt(bp) is called from p on, by the expression of a frame.
Call(fs, p, bp) ==
  /\ frames' = fs /\ at' = p /\ min' = bp /\ start' = p /\ lhs' = 0
  /\ UNCHANGED <<input, outcome>>
Operand(fix, sym, kids, p, bp) ==
  Call(Append(frames, [fix |-> fix, sym |-> sym, kids |-> kids, from |-> start, min |-> min]), p, bp)

\* What was read up to p is the last of these expressions.
Yield(new, p) ==
  /\ nodes' = nodes \o new /\ lhs' = Len(nodes) + Len(new) /\ at' = p
  /\ UNCHANGED <<input, min, start, frames, outcome>>

\* expect and expect_ident, with the token at p; the arm of parse_prefix that has no token.
Refuse(p, what) == outcome' = what /\ at' = p /\ UNCHANGED <<input, min, start, lhs, frames, nodes>>
Unexpected(p) == Refuse(p, IF input[p].kind = "eof" THEN "UnexpectedEof" ELSE "UnexpectedToken")
-----------------------------------------------------------------------------
(* parse_prefix                                                            *)

Prefix == Reading /\ Word \in PrefixOps /\ Operand("prefix", Word, <<>>, at + 1, PrefixBp) /\ UNCHANGED nodes

Sizeof ==
  /\ Reading /\ Is(at, SizeofWord)
  /\ LET p == at + 2
         q == AfterType(p)
     IN  CASE ~ Is(at + 1, <<"(">>) -> Unexpected(at + 1)
           [] Is(at + 1, <<"(">>) /\ ~ IsType(p) -> Operand("sizeof", <<>>, <<>>, p, 0) /\ UNCHANGED nodes
           [] Is(at + 1, <<"(">>) /\ IsType(p) ->
                IF Is(q, <<")">>)
                THEN Yield(<<TypeAt(p), Made("sizeof", <<>>, <<Len(nodes) + 1>>, start, q + 1)>>, q + 1)
                ELSE Unexpected(q)

Group == Reading /\ Is(at, <<"(">>) /\ ~ IsType(at + 1) /\ Operand("group", <<>>, <<>>, at + 1, 0) /\ UNCHANGED nodes

Cast ==
  /\ Reading /\ Is(at, <<"(">>) /\ IsType(at + 1)
  /\ LET q == AfterType(at + 1)
     IN  IF Is(q, <<")">>)
         THEN /\ Operand("cast", <<>>, <<Len(nodes) + 1>>, q + 1, PrefixBp)
              /\ nodes' = Append(nodes, TypeAt(at + 1))
         ELSE Unexpected(q)

Atom == Reading /\ input[at].kind \in LeafKinds /\ Yield(<<Made("leaf", input[at].text, <<>>, start, at + 1)>>, at + 1)

NoOperand ==
  /\ Reading /\ input[at].kind \notin LeafKinds /\ Word \notin PrefixOps
  /\ ~ Is(at, SizeofWord) /\ ~ Is(at, <<"(">>)
  /\ Refuse(at, "UnexpectedToken")
-----------------------------------------------------------------------------
(* The loop of parse_pratt.                                                *)

\* Fault: the operator is looked at and not taken.
FaultPostfix == Looping /\ Word \in PostfixOps /\ Yield(<<Made("postfix", Word, <<lhs>>, start, at)>>, at)
Postfix == Looping /\ Word \in PostfixOps /\ Yield(<<Made("postfix", Word, <<lhs>>, start, at + 1)>>, at + 1)

Arguments ==
  /\ Looping /\ Word = <<"(">>
  /\ IF Is(at + 1, <<")">>) THEN Yield(<<Made("call", <<>>, <<lhs>>, start, at + 2)>>, at + 2)
     ELSE Operand("call", <<>>, <<lhs>>, at + 1, 0) /\ UNCHANGED nodes

Subscript == Looping /\ Word = <<"[">> /\ Operand("index", <<>>, <<lhs>>, at + 1, 0) /\ UNCHANGED nodes

Field ==
  /\ Looping /\ Word \in FieldOps
  /\ IF input[at + 1].kind # "ident" THEN Unexpected(at + 1)
     ELSE Yield(<<Made("leaf", input[at + 1].text, <<>>, at + 1, at + 2),
                  Made("field", Word, <<lhs, Len(nodes) + 1>>, start, at + 2)>>, at + 2)

\* An infix operator that binds here.
Binds == LeftBp(Word) # 0 /\ LeftBp(Word) >= min

Assign  == Looping /\ Binds /\ Word \in AssignOps /\ Operand("assign", Word, <<lhs>>, at + 1, AssignBp - 1) /\ UNCHANGED nodes
Ternary == Looping /\ Binds /\ Word = <<"?">> /\ Operand("ternary", <<>>, <<lhs>>, at + 1, 0) /\ UNCHANGED nodes
Binary ==
  /\ Looping /\ Binds /\ BinaryBp(Word) # 0
  /\ Operand("binary", Word, <<lhs>>, at + 1, BinaryBp(Word) + 1) /\ UNCHANGED nodes
-----------------------------------------------------------------------------
(* The loop is left: the operand is read.                                  *)

Left == Looping /\ ~ Binds /\ Word \notin PostfixOps \cup FieldOps \cup {<<"(">>, <<"[">>}

Top  == frames[Len(frames)]
Kids == Append(Top.kids, lhs)
Back == Left /\ frames # <<>>

\* The expression around it ends at p.
End(p) ==
  /\ nodes' = Append(nodes, Made(Top.fix, Top.sym, Kids, Top.from, p)) /\ lhs' = Len(nodes) + 1
  /\ at' = p /\ min' = Top.min /\ start' = Top.from /\ frames' = SubSeq(frames, 1, Len(frames) - 1)
  /\ UNCHANGED <<input, outcome>>

\* It has another operand, behind a token that the parser is at.
Another == Call([frames EXCEPT ![Len(frames)].kids = Kids], at + 1, 0) /\ UNCHANGED nodes

EndLast == Back /\ (Top.fix \in {"prefix", "cast", "assign", "binary"} \/ (Top.fix = "ternary" /\ Len(Kids) = 3)) /\ End(at)

Closer == IF Top.fix = "index" THEN <<"]">> ELSE <<")">>
EndClosed ==
  /\ Back /\ Top.fix \in {"group", "sizeof", "index", "call"} /\ ~ (Top.fix = "call" /\ Is(at, <<",">>))
  /\ IF Is(at, Closer) THEN End(at + 1) ELSE Unexpected(at)

NextArgument == Back /\ Top.fix = "call" /\ Is(at, <<",">>) /\ Another
Otherwise == Back /\ Top.fix = "ternary" /\ Len(Kids) = 2 /\ IF Is(at, <<":">>) THEN Another ELSE Unexpected(at)

\* parse_expr returns.
Return == Left /\ frames = <<>> /\ outcome' = "tree" /\ UNCHANGED <<input, at, min, start, lhs, frames, nodes>>

ParseStep ==
  \/ Prefix \/ Sizeof \/ Group \/ Cast \/ Atom \/ NoOperand
  \/ Postfix \/ Arguments \/ Subscript \/ Field \/ Assign \/ Ternary \/ Binary
  \/ EndLast \/ EndClosed \/ NextArgument \/ Otherwise \/ Return

\* Any tokens that end where the file does.
Lists == {ts \in Seq([kind : STRING, text : Seq(STRING)]) :
            ts # <<>> /\ \A i \in 1 .. Len(ts) : ts[i].kind = "eof" <=> i = Len(ts)}
ParseInit == input \in Lists /\ Begun(input) /\ outcome = "none"
ParseSpec == ParseInit /\ [][ParseStep]_parsing
-----------------------------------------------------------------------------
(* The grammar, of expressions as they are here and in Formatter: what has *)
(* a form, symbol and operands.                                            *)

\* The binary operators as C orders them, the loosest first.
Grammar == <<{<<"|", "|">>}, {<<"&", "&">>}, {<<"|">>}, {<<"^">>}, {<<"&">>}, {<<"=", "=">>, <<"!", "=">>},
             {<<"<">>, <<">">>, <<"<", "=">>, <<">", "=">>}, {<<"<", "<">>, <<">", ">">>},
             {<<"+">>, <<"-">>}, {<<"*">>, <<"/">>, <<"%">>}>>
Tightness(w) == 2 + 2 * CHOOSE i \in DOMAIN Grammar : w \in Grammar[i]

Level(t) == CASE t.fix = "assign"  -> 2
              [] t.fix = "ternary" -> 3
              [] t.fix = "binary"  -> Tightness(t.sym)
              [] t.fix \in {"prefix", "cast"} -> 30
              [] OTHER             -> 40

\* The lowest level that operand i of t may have without parentheses: operators
\* associate to the left, but for assignments, and a conditional ends with anything.
Least(t, i) ==
  CASE t.fix = "binary" -> IF i = 1 THEN Tightness(t.sym) ELSE Tightness(t.sym) + 1
    [] t.fix \in {"assign", "ternary"} -> IF i = 1 THEN 4 ELSE 2
    [] t.fix \in {"call", "index"}     -> IF i = 1 THEN 40 ELSE 2
    [] t.fix \in {"postfix", "field"}  -> 40
    [] t.fix \in {"prefix", "cast"}    -> 30
    [] OTHER                           -> 2

\* The words in front of operand i of t, and those behind the last.
Lead(t, i) ==
  IF i = 1 THEN CASE t.fix = "prefix" -> <<t.sym>>
                  [] t.fix = "sizeof" -> <<SizeofWord, <<"(">>>>
                  [] t.fix \in {"group", "cast"} -> <<<<"(">>>>
                  [] OTHER -> <<>>
  ELSE CASE t.fix = "call"    -> IF i = 2 THEN <<<<"(">>>> ELSE <<<<",">>>>
         [] t.fix = "index"   -> <<<<"[">>>>
         [] t.fix = "cast"    -> <<<<")">>>>
         [] t.fix = "ternary" -> IF i = 2 THEN <<<<"?">>>> ELSE <<<<":">>>>
         [] OTHER             -> <<t.sym>>
Close(t) ==
  CASE t.fix = "postfix" -> <<t.sym>>
    [] t.fix = "index"   -> <<<<"]">>>>
    [] t.fix \in {"group", "sizeof"} -> <<<<")">>>>
    [] t.fix = "call"    -> IF Len(t.kids) = 1 THEN <<<<"(">>, <<")">>>> ELSE <<<<")">>>>
    [] OTHER             -> <<>>

\* Operators that a form has, and numbers of its operands.
Symbols(t) == CASE t.fix = "prefix"  -> PrefixOps
                [] t.fix = "postfix" -> PostfixOps
                [] t.fix = "binary"  -> UNION {Grammar[i] : i \in DOMAIN Grammar}
                [] t.fix = "assign"  -> AssignOps
                [] t.fix = "field"   -> FieldOps
                [] OTHER             -> {<<>>}
Arity(t) == CASE t.fix \in {"prefix", "postfix", "group", "sizeof"} -> {1}
              [] t.fix = "ternary" -> {3}
              [] t.fix = "call"    -> Nat \ {0}
              [] OTHER             -> {2}

Fixes == {"prefix", "postfix", "group", "sizeof", "cast", "index", "field", "call", "assign", "ternary", "binary"}
-----------------------------------------------------------------------------
(* What the parser must keep.                                              *)

Kid(ns, t, i) == ns[t.kids[i]]
Spelled(p, q, ws) == q = p + Len(ws) /\ \A j \in 1 .. Len(ws) : Is(p + j - 1, ws[j])
Behind(ns, t, i) == IF i = 0 THEN t.from ELSE Kid(ns, t, i).to

IsLeaf(t) ==
  /\ t.kids = <<>> /\ t.sym = input[t.from].text
  /\ t.fix = "leaf" => input[t.from].kind \in LeafKinds /\ t.to = t.from + 1
  /\ t.fix = "type" => /\ IsType(t.from) /\ t.from < t.to
                       /\ \A i \in t.from + 1 .. t.to - 1 : Is(i, <<"*">>)
\* What may be the operand i of t, with types only where they belong.
IsOperand(ns, t, i) ==
  /\ Spelled(Behind(ns, t, i - 1), Kid(ns, t, i).from, Lead(t, i)) /\ Level(Kid(ns, t, i)) >= Least(t, i)
  /\ t.fix = "cast" /\ i = 1 => Kid(ns, t, i).fix = "type"
  /\ Kid(ns, t, i).fix = "type" => t.fix = "sizeof" \/ (t.fix = "cast" /\ i = 1)
  /\ t.fix = "field" /\ i = 2 => Kid(ns, t, i).fix = "leaf" /\ input[Kid(ns, t, i).from].kind = "ident"
IsForm(ns, t) ==
  /\ t.fix \in Fixes /\ t.sym \in Symbols(t) /\ Len(t.kids) \in Arity(t)
  /\ \A i \in 1 .. Len(t.kids) : IsOperand(ns, t, i)
  /\ Spelled(Behind(ns, t, Len(t.kids)), t.to, Close(t))

Rule(ns, n) ==
  LET t == ns[n] IN
  /\ \A i \in 1 .. Len(t.kids) : t.kids[i] \in 1 .. n - 1
  /\ IF t.fix \in {"leaf", "type"} THEN IsLeaf(t) ELSE IsForm(ns, t)

\* Every expression is made of the tokens of its span by a rule of the grammar, from
\* operands made before it, each on a level it may have there; and the last one takes
\* all that was read.  So a - b - c is never a - (b - c), nor -a * b ever -(a * b).
Derived ==
  /\ \A n \in 1 .. Len(nodes) : Rule(nodes, n)
  /\ outcome = "tree" => nodes[lhs].from = 1 /\ nodes[lhs].to = at /\ nodes[lhs].fix # "type"

\* Every step takes a token or ends an expression that is waiting, and the cursor stays
\* in the list: the parser comes to an end within twice as many steps as there are tokens.
ParserEnds ==
  [][outcome = "none" /\ outcome' = "none" =>
       /\ at' \in 1 .. Len(input)
       /\ 2 * at' - Len(frames') > 2 * at - Len(frames)]_parsing
=============================================================================
