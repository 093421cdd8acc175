------------------------------- MODULE MCSyntax -------------------------------
(***************************************************************************)
(* Texts over one alphabet for each part of the lexer, and all trees with  *)
(* two operators on a path, three for prefixes.                            *)
(***************************************************************************)
EXTENDS Syntax

UpTo(n, C) == UNION {[1 .. k -> C] : k \in 0 .. n}

MCTexts ==
  UpTo(4, {"0", "1", "8", "x", "b", "e"}) \cup UpTo(6, {"1", ".", "e", "+"})
  \cup UpTo(5, {"'", "\"", "\\", "n", "\n"}) \cup UpTo(6, {"/", "*", "\n", "a"})
  \cup UpTo(4, {"<", ">", "=", "-", "&", "+", "|", "!"}) \cup UpTo(5, {"#", " ", "e", "l", "s"})
  \cup UpTo(3, {"a", "0", "(", ")", "[", "]", ".", "-", "?", ":", ",", "@", "I"})

Leaf == Node("leaf", <<"a">>, <<>>)
Type == Node("type", <<"I", "8">>, <<>>)
Name == Node("leaf", <<"f">>, <<>>)

Prefixed(T) == {Node("prefix", w, <<t>>) : w \in {<<"-">>, <<"-", "-">>, <<"&">>}, t \in T}
Bigger(T) ==
  Prefixed(T)
  \cup {Node("postfix", <<"+", "+">>, <<t>>) : t \in T} \cup {Node("sizeof", <<>>, <<t>>) : t \in T}
  \cup {Node("cast", <<>>, <<Type, t>>) : t \in T} \cup {Node("field", <<".">>, <<t, Name>>) : t \in T}
  \cup {Node("binary", w, <<t, u>>) : w \in {<<"*">>, <<"-">>, <<"&", "&">>}, t \in T, u \in T}
  \cup {Node(fix, <<>>, <<t, u>>) : fix \in {"call", "index"}, t \in T, u \in T}
  \cup {Node("assign", <<"=">>, <<t, u>>) : t \in T, u \in T}
  \cup {Node(fix, <<>>, [ops EXCEPT ![i] = t]) : fix \in {"call", "ternary"}, ops \in {<<Leaf, Leaf, Leaf>>},
                                                i \in 1 .. 3, t \in T}

Written == {<<c>> : c \in Operator} \cup {<<c, d>> \in Operator \X Operator : d \in Follow(c)}
\* Any two infix operators, one the left or the right operand of the other.
Infix == {<<"binary", w>> : w \in {v \in Written : BinaryBp(v) # 0}}
         \cup {<<"assign", w>> : w \in AssignOps}
Apply(o, l, r) == Node(o[1], o[2], <<l, r>>)
Pairs ==
  {Apply(o, Leaf, Apply(p, Leaf, Leaf)) : o \in Infix, p \in Infix}
  \cup {Apply(o, Apply(p, Leaf, Leaf), Leaf) : o \in Infix, p \in Infix}

Trees1 == {Leaf} \cup {Node("leaf", <<"1", ".", d>>, <<>>) : d \in Digit} \cup Bigger({Leaf})
Trees2 == {Leaf, Node("sizeof", <<>>, <<Type>>)} \cup Bigger(Trees1)
MCTrees == Trees2 \cup Prefixed(Prefixed(Trees1)) \cup Pairs

\* Of all these, a - (a - a) and (a - a) - a, and no text but what is printed of them.
Minus == <<"binary", <<"-">>>>
MCMinus == {Apply(Minus, Leaf, Apply(Minus, Leaf, Leaf)), Apply(Minus, Apply(Minus, Leaf, Leaf), Leaf)}
MCNoTexts == {}
=============================================================================
