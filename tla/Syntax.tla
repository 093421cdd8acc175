-------------------------------- MODULE Syntax --------------------------------
(***************************************************************************)
(* A text on its way through the lexer and the expression parser.  It is   *)
(* any text, or one printed from a tree: by the formatter, or by the       *)
(* reference that spells out the grammar.                                  *)
(***************************************************************************)
EXTENDS Formatter, Tokenizer

CONSTANT Trees  \* trees to print and read back

VARIABLE source  \* who printed the text, of which tree, if anyone

vars == <<lexVars, parsing, source>>

NoTree == Node("none", <<>>, <<>>)

Printed(who, tree, s) ==
  /\ source = [who |-> who, tree |-> tree]
  /\ text = s
Init ==
  /\ \/ \E s \in Texts : Printed("none", NoTree, s)
     \/ \E t \in Trees : Printed("formatter", t, Expr(t)) \/ Printed("reference", t, Reference(t))
  /\ Begin /\ Begun(<<>>) /\ outcome = "idle"

Lex == Tokenize /\ UNCHANGED <<parsing, source>>

\* Parser::new: a token with its text.
Hand ==
  /\ Fetched /\ outcome = "idle" /\ outcome' = "none"
  /\ input' = [i \in DOMAIN tokens |-> [kind |-> tokens[i].kind, text |-> Text(text, tokens[i])]]
  /\ UNCHANGED <<lexVars, at, min, start, lhs, frames, nodes, source>>

Parse == ParseStep /\ UNCHANGED <<lexVars, source>>

Next == Lex \/ Hand \/ Parse

Spec == Init /\ [][Next]_vars
-----------------------------------------------------------------------------
(* What parser and formatter must keep.                                    *)

\* The expression n, with no more parentheses than the parser keeps.
RECURSIVE Tree(_)
Tree(n) ==
  LET t == nodes[n] IN
  IF t.fix = "group" THEN Tree(t.kids[1])
  ELSE Node(t.fix, t.sym, [i \in DOMAIN t.kids |-> Tree(t.kids[i])])

Done  == outcome \notin {"idle", "none"} \/ error # "none"
Again == outcome = "tree" /\ at = Len(input) /\ Tree(lhs) = source.tree

\* The binding powers of the parser are the levels of the grammar: the shortest text
\* of a tree reads back as that tree.
ReadsGrammar == Done /\ source.who = "reference" => Again

\* Exactly the tame trees survive the formatter.  What else it prints means another
\* program, or none: a right operand of the same level, an operand of a cast, a
\* call, an index or a field, a condition, a target, -(-x), -(--x), &(&x) and 1.0.
FormatsTame == Done /\ source.who = "formatter" => (Again <=> Tame(source.tree))

\* fmt.rs:621, of every expression that is formatted and parsed again: "roundtrip
\* changed AST" is the failure.
RoundTrip == Done /\ source.who = "formatter" => Again
=============================================================================
