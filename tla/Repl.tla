---------------------------------- MODULE Repl ----------------------------------
(***************************************************************************)
(* The REPL (holyc_interpreter/src/repl.rs): a user types tokens and ends  *)
(* lines; every line is put behind what is kept of the input, and the      *)
(* whole is parsed by a new parser.  Since that comes again to where the   *)
(* last one was when its tokens ended, the model goes on from there: while *)
(* the parser looks at the end of the input, buf is its stack before that. *)
(***************************************************************************)
EXTENDS Parser

CONSTANT MaxStack   \* deeper than this, the user only goes on with what closes something

VARIABLES
  buf,      \* the stack of the parser when the line ended
  fresh,    \* nothing is typed yet in this line
  session,  \* the types of the interpreter (type_env)
  calm      \* the last token is one of Calm (history)

vars == <<parser, buf, fresh, session, calm>>

Calm == {"{", "}", "int", "string"} \cup Names

ReplInit == ParserInit /\ buf = <<>> /\ fresh = TRUE /\ session = {} /\ calm = FALSE

Idle == next = "none" /\ verdict = "none"

\* A token of the line.
Type(t) ==
  /\ Idle
  /\ Len(stack) <= MaxStack \/ t \in Closing \cup Names \cup {Head(stack), ";"}
  /\ next' = t /\ fresh' = FALSE /\ calm' = (t \in Calm)
  /\ UNCHANGED <<stack, known, defining, verdict, open, buf, session>>

\* The line ends: is the input complete?  An empty line is not looked at.
EndLine ==
  /\ Idle /\ ~ fresh
  /\ next' = "eof" /\ buf' = stack
  /\ UNCHANGED <<stack, known, defining, verdict, open, fresh, session, calm>>

\* buf.clear(): the next line meets a new parser.
ClearBuf ==
  /\ stack' = <<"module">> /\ next' = "none" /\ known' = {} /\ defining' = "none"
  /\ verdict' = "none" /\ open' = <<>> /\ buf' = <<>> /\ fresh' = TRUE /\ calm' = FALSE

\* exec_module: its first pass enters the types of the module.
Execute == verdict = "ok" /\ session' = session \cup known /\ ClearBuf

Keep ==
  /\ verdict = "UnexpectedEof" /\ next = "eof"
  /\ stack' = buf /\ buf' = <<>> /\ next' = "none" /\ verdict' = "none" /\ fresh' = TRUE
  /\ UNCHANGED <<known, defining, open, session, calm>>

\* Fault: what was read before the error stays.
FaultDiscard == verdict = "UnexpectedToken" /\ session' = session \cup known /\ ClearBuf
Discard == verdict = "UnexpectedToken" /\ ClearBuf /\ UNCHANGED session

\* The line has what the lexer refuses: the end of a string or a comment is missing.
LexError == Idle /\ ClearBuf /\ UNCHANGED session

CommandClear == Idle /\ fresh /\ ClearBuf /\ UNCHANGED session
CommandReset == Idle /\ fresh /\ ClearBuf /\ session' = {}

User == (\E t \in Tokens : Type(t)) \/ EndLine \/ LexError \/ CommandClear \/ CommandReset
Answer == Execute \/ Keep \/ Discard
Work == (Parse /\ UNCHANGED <<buf, fresh, session, calm>>) \/ Answer
Next == User \/ Work

\* Parser and REPL are one thread and wait only for the user, who may go away.
Spec == ReplInit /\ [][Next]_vars /\ WF_vars(Work)
-----------------------------------------------------------------------------
TypeOK ==
  /\ stack \in Seq(Expected \cup Todo) /\ next \in Tokens \cup {"none", "eof"} /\ verdict \in {"none", "ok", "UnexpectedEof", "UnexpectedToken"}
  /\ known \subseteq Names /\ session \subseteq Names /\ defining \in Names \cup {"none"}
  /\ verdict # "none" => next # "none"

\* What is open of the brackets os when those of the first k symbols of w have come, too.
Owed(sym) == IF sym = "group" THEN ")" ELSE sym
Pending(os, w, k) ==
  LET after[j \in 0 .. k] == IF j = 0 THEN os ELSE Bracket(after[j - 1], Owed(w[j])) IN after[k]

\* The brackets that were read and those that the functions on the stack still owe
\* make up one text of matching brackets; so does what is executed.  In an asm block
\* only braces count, and a group owes the parenthesis it will expect.
BracketsMatch == Pending(open, stack, Len(stack)) = <<>>

\* The session gains types by a whole input only, its brackets closed, and then all the
\* parser knew at its end; it loses them by :reset only, and then all of them: an input
\* that is discarded or still kept has left nothing.
WholeInputs ==
  [][session' # session =>
       \/ session' = {}
       \/ verdict = "ok" /\ open = <<>> /\ session' = session \cup known]_vars

\* Every token is taken and every line is answered: no loop of the parser waits for a
\* token that is_eof or advance will never give it.
LinesAnswered == next # "none" ~> Idle

\* An input that stops behind a brace, a name or a literal is never lost for being
\* unfinished: the parser then waits for a token and says so.  Behind anything else,
\* as in "if (x)" or "I64 y =", it may look for an operand, a type or a path, report
\* UnexpectedToken for the end of the input, and what was typed is gone.
CalmEndsKept == calm /\ next = "eof" => verdict # "UnexpectedToken"
=============================================================================
