-------------------------------- MODULE Parser --------------------------------
(***************************************************************************)
(* The parser of modules (holyc_frontend/src/parser.rs) as the automaton   *)
(* that its functions are: they look one token ahead and call each other,  *)
(* and what is left to do in all that have been called is the stack.  A    *)
(* symbol of it is a token to be expected or what a function does from one *)
(* of its tests on.                                                        *)
(*                                                                         *)
(* A token stands for its class; names are told apart, since known_types   *)
(* decides what a statement is.  The parser of expressions is here without *)
(* binding powers, which do not change what is read (Pratt has them).      *)
(***************************************************************************)
EXTENDS Integers, Sequences

CONSTANT Names   \* identifiers of the program

VARIABLES
  stack,     \* what is still to be done, the next first
  next,      \* cur_tok(), "none" before it is there
  known,     \* known_types
  defining,  \* the name of the class or typedef that is being read
  verdict,   \* how parse_module returned: "ok", an error, or "none" yet
  open       \* the brackets that were read and not closed (history)

parser == <<stack, next, known, defining, verdict, open>>

Keywords == {"class", "typedef", "public", "define", "include", "type", "sizeof", "if", "else", "while", "do",
             "for", "switch", "case", "default", "return", "break", "asm"}
Opening  == {"(", "[", "{"}
Closing  == {")", "]", "}"}
Marks    == {";", ":", ",", "=", "*", "<", ">", "-", "++", ".", "?"}
Tokens   == Keywords \cup Opening \cup Closing \cup Marks \cup {"int", "string"} \cup Names
\* What expect and expect_ident wait for.
Expected == Tokens \cup {"ident", "name"}
\* What the functions have yet to do, from one of their tests on.
Todo     == {"module", "top", "rest", "body", "init", "value", "semi?", "path", "fields", "field", "bits", "fields,",
             "insert", "ty", "stars", "params", "param", "params,", "stmts", "stmt", "else?", "array", "length",
             "cond", "step", "first", "cases", "case body", "raw", "expr", "ops", "args", "args,", "prefix",
             "size", "group"}

\* The names of the program are told from the classes of tokens and from the tests.
ASSUME NamesAssumption ==
  \A n \in Names : n \notin Keywords \cup Opening \cup Closing \cup Marks \cup Todo
                            \cup {"int", "string", "ident", "name", "none", "eof"}

Infix    == {"=", "*", "<", ">", "-"}
Prefix   == {"*", "-", "++"}

ParserInit ==
  /\ stack = <<"module">> /\ next = "none" /\ known = {} /\ defining = "none"
  /\ verdict = "none" /\ open = <<>>
-----------------------------------------------------------------------------
Running  == verdict = "none" /\ next # "none" /\ stack # <<>>
At(sym)  == Running /\ Head(stack) = sym

\* The rest of the function is w: then its caller goes on.
Do(w) == /\ stack' = w \o Tail(stack)
         /\ UNCHANGED <<next, known, defining, verdict, open>>
Leave == Do(<<>>)
If(t, w) == IF next = t THEN Do(w) ELSE Leave

Return(v) == verdict' = v /\ UNCHANGED <<stack, next, known, defining, open>>
\* The arms that report UnexpectedToken without asking is_eof.
Reject == Return("UnexpectedToken")

Closes(b) == CASE b = "(" -> ")" [] b = "[" -> "]" [] b = "{" -> "}"
Bracket(os, t) ==
  CASE t \in Opening -> Append(os, t)
    [] t \in Closing -> IF os # <<>> /\ Closes(os[Len(os)]) = t THEN SubSeq(os, 1, Len(os) - 1) ELSE Append(os, t)
    [] OTHER -> os

\* is_type_start
IsTypeStart == next = "type" \/ next \in known

Fits(sym) == IF sym \in {"ident", "name"} THEN next \in Names ELSE next = sym

\* expect, expect_ident, unexpected, and advance after a test
Expect ==
  /\ Running /\ Head(stack) \in Expected
  /\ IF Fits(Head(stack))
     THEN /\ stack' = Tail(stack) /\ next' = "none"
          /\ open' = Bracket(open, next)
          /\ defining' = IF Head(stack) = "name" THEN next ELSE defining
          /\ UNCHANGED <<known, verdict>>
     ELSE Return(IF next = "eof" THEN "UnexpectedEof" ELSE "UnexpectedToken")
-----------------------------------------------------------------------------
ParseModule ==
  \/ At("module") /\ IF next = "eof" THEN Return("ok") ELSE Do(<<"top", "module">>)

ParseTopLevel ==
  \/ /\ At("top")
     /\ CASE next = "define"  -> Do(<<"define", "ident", "value", "semi?">>)
          [] next = "include" -> Do(<<"include", "path">>)
          [] next = "class"   -> Do(<<"class", "name", "{", "fields", "}", "semi?", "insert">>)
          [] next = "typedef" -> Do(<<"typedef", "ty", "name", ";", "insert">>)
          [] next = "public"  -> Do(<<"public", "ty", "ident", "rest">>)
          [] OTHER            -> Do(<<"ty", "ident", "rest">>)
  \/ At("rest") /\ IF next = "(" THEN Do(<<"(", "params", ")", "body">>) ELSE Do(<<"init", ";">>)
  \/ At("body") /\ IF next = "{" THEN Do(<<"{", "stmts", "}">>) ELSE Do(<<";">>)
  \/ At("init") /\ If("=", <<"=", "expr">>)

ParsePreprocessor ==
  \/ At("value") /\ IF next \in {";", "eof"} THEN Leave ELSE Do(<<"expr">>)
  \/ At("semi?") /\ If(";", <<";">>)
  \/ /\ At("path")
     /\ CASE next = "string" -> Do(<<"string">>)
          [] next = "<"      -> Do(<<"<", "ident", ">">>)
          [] OTHER           -> Reject

ParseClassDef ==
  \/ At("fields") /\ IF next \in {"}", "eof"} THEN Leave ELSE Do(<<"ty", "field", ";", "fields">>)
  \/ At("field") /\ Do(<<"ident", "bits", "fields,">>)
  \/ At("bits") /\ If(":", <<":", "int">>)
  \/ At("fields,") /\ If(",", <<",", "field">>)
  \/ At("insert") /\ known' = known \cup {defining} /\ defining' = "none" /\ stack' = Tail(stack)
                  /\ UNCHANGED <<next, verdict, open>>

ParseType ==
  \/ At("ty") /\ IF next \in Names \cup {"type"} THEN Do(<<next, "stars">>) ELSE Reject
  \/ At("stars") /\ If("*", <<"*", "stars">>)

ParseParamList ==
  \/ At("params") /\ IF next = ")" THEN Leave ELSE Do(<<"param">>)
  \/ At("param") /\ Do(<<"ty", "ident", "params,">>)
  \/ At("params,") /\ If(",", <<",", "param">>)

\* Fault: the loop over the statements does not ask is_eof.
FaultParseBlockBody == At("stmts") /\ IF next = "}" THEN Leave ELSE Do(<<"stmt", "stmts">>)
ParseBlockBody == At("stmts") /\ IF next \in {"}", "eof"} THEN Leave ELSE Do(<<"stmt", "stmts">>)

ParseStmt ==
  \/ /\ At("stmt")
     /\ CASE next = "{"      -> Do(<<"{", "stmts", "}">>)
          [] next = "if"     -> Do(<<"if", "(", "expr", ")", "stmt", "else?">>)
          [] next = "while"  -> Do(<<"while", "(", "expr", ")", "stmt">>)
          [] next = "do"     -> Do(<<"do", "stmt", "while", "(", "expr", ")", ";">>)
          [] next = "for"    -> Do(<<"for", "(", "first", ";", "cond", ";", "step", ")", "stmt">>)
          [] next = "switch" -> Do(<<"switch", "(", "expr", ")", "{", "cases", "}">>)
          [] next = "return" -> Do(<<"return", "cond", ";">>)
          [] next = "break"  -> Do(<<"break", ";">>)
          [] next = "asm"    -> Do(<<"asm", "{", "raw", "}">>)
          [] IsTypeStart     -> Do(<<"ty", "ident", "array", "init", ";">>)
          [] OTHER           -> Do(<<"expr", ";">>)
  \/ At("else?") /\ If("else", <<"else", "stmt">>)
  \/ At("array") /\ If("[", <<"[", "length", "]">>)
  \/ At("length") /\ IF next = "]" THEN Leave ELSE Do(<<"int">>)
  \/ At("cond") /\ IF next = ";" THEN Leave ELSE Do(<<"expr">>)
  \/ At("step") /\ IF next = ")" THEN Leave ELSE Do(<<"expr">>)
  \* parse_stmt_no_semi
  \/ At("first") /\ CASE next = ";"   -> Leave
                      [] IsTypeStart  -> Do(<<"ty", "ident", "init">>)
                      [] OTHER        -> Do(<<"expr">>)

ParseSwitch ==
  \/ /\ At("cases")
     /\ CASE next \in {"}", "eof"} -> Leave
          [] next = "case"         -> Do(<<"case", "expr", ":", "case body", "cases">>)
          [] next = "default"      -> Do(<<"default", ":", "case body", "cases">>)
          [] OTHER                 -> Reject
  \/ At("case body") /\ IF next \in {"case", "default", "}", "eof"} THEN Leave ELSE Do(<<"stmt", "case body">>)

\* advance in the text of an asm block, where only braces are brackets; at the end
\* it stays where it is.
Skip == /\ next' = IF next = "eof" THEN "eof" ELSE "none"
        /\ open' = IF next \in {"{", "}"} THEN Bracket(open, next) ELSE open
        /\ UNCHANGED <<stack, known, defining, verdict>>

\* Faults: the first brace that closes ends the block; the loop does not ask is_eof.
FaultAsmDepth == At("raw") /\ IF next \in {"}", "eof"} THEN Leave ELSE Skip
FaultAsmLoop ==
  /\ At("raw")
  /\ CASE next = "}" -> Leave
       [] next = "{" -> Do(<<"{", "raw", "}", "raw">>)
       [] OTHER      -> Skip

\* The text of an asm block: an inner pair of braces is one more depth.
ParseAsm ==
  /\ At("raw")
  /\ CASE next \in {"}", "eof"} -> Leave
       [] next = "{"            -> Do(<<"{", "raw", "}", "raw">>)
       [] OTHER                 -> Skip

\* The loop of parse_pratt; the right operand of an operator takes over the loop.
ParsePratt ==
  \/ At("expr") /\ Do(<<"prefix", "ops">>)
  \/ /\ At("ops")
     /\ CASE next = "++"     -> Do(<<"++", "ops">>)
          [] next = "("      -> Do(<<"(", "args", ")", "ops">>)
          [] next = "["      -> Do(<<"[", "expr", "]", "ops">>)
          [] next = "."      -> Do(<<".", "ident", "ops">>)
          [] next \in Infix  -> Do(<<next, "expr">>)
          [] next = "?"      -> Do(<<"?", "expr", ":", "expr">>)
          [] OTHER           -> Leave
  \/ At("args") /\ IF next = ")" THEN Leave ELSE Do(<<"expr", "args,">>)
  \/ At("args,") /\ If(",", <<",", "expr", "args,">>)

ParsePrefix ==
  \/ /\ At("prefix")
     /\ CASE next \in Prefix -> Do(<<next, "prefix">>)
          [] next = "sizeof" -> Do(<<"sizeof", "(", "size", ")">>)
          [] next = "("      -> Do(<<"(", "group">>)
          [] next \in Names \cup {"int", "string"} -> Do(<<next>>)
          [] OTHER           -> Reject
  \/ At("size") /\ IF IsTypeStart THEN Do(<<"ty">>) ELSE Do(<<"expr">>)
  \/ At("group") /\ IF IsTypeStart THEN Do(<<"ty", ")", "prefix">>) ELSE Do(<<"expr", ")">>)

Parse == \/ Expect \/ ParseModule \/ ParseTopLevel \/ ParsePreprocessor \/ ParseClassDef \/ ParseType
         \/ ParseParamList \/ ParseBlockBody \/ ParseStmt \/ ParseSwitch \/ ParseAsm \/ ParsePratt \/ ParsePrefix
=============================================================================
