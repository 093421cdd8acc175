--------------------------------- MODULE Interp ---------------------------------
(***************************************************************************)
(* The tree-walking interpreter (holyc_interpreter/src/vm.rs and the scope *)
(* chain of runtime.rs): how statements nest, how return, break, continue  *)
(* and errors unwind them, and what happens to the scopes and to the call  *)
(* depth on every way out.                                                 *)
(*                                                                         *)
(* The interpreter recurses over the syntax tree; stack is the Rust call   *)
(* stack with one frame for each statement, call or module in progress.    *)
(* The program is any program: a frame that runs statements runs whichever *)
(* it likes, and an expression is any number of calls, each to a function  *)
(* with any body, followed by a value or an error.  Values are left out    *)
(* but for the truth of a condition; of a scope only its names are kept.   *)
(* One Interpreter executes a sequence of modules: the inputs of a REPL    *)
(* session, or the one file of `holyc run`.                                *)
(***************************************************************************)
EXTENDS Integers, Sequences, FiniteSets

CONSTANTS
  Names,      \* the variable names of the program
  MaxDepth,   \* MAX_CALL_DEPTH
  MaxFrames,  \* bound: statements, calls and the module nested at one time
  MaxScopes   \* bound: no new module is started with more scopes than this

ASSUME DepthAssumption == MaxDepth \in Nat \ {0}
ASSUME BoundsAssumption == MaxFrames \in Nat /\ MaxScopes \in Nat

VARIABLES
  stack,    \* what the interpreter is in the middle of, outermost first
  scopes,   \* Env.scopes, each scope by the names it defines
  depth,    \* call_depth
  signal,   \* the Err(Signal) on its way out, or "none"
  hasMain,  \* funcs has "Main"
  due       \* history: with a signal, how long stack must be once it is dealt with

vars == <<stack, scopes, depth, signal, hasMain, due>>

Signals == {"return", "break", "continue", "error"}

\* Where in its statement a frame is.  In Evaluating it computes an expression,
\* in Hosting it is about to run a statement.
Evaluating == {"value", "globals", "case", "cond", "step"}
Hosting    == {"body", "branch"}
Places     == Evaluating \cup Hosting \cup {"init", "main", "done"}

Kinds   == {"module", "call", "block", "for", "while", "do", "if", "switch",
            "expr", "decl", "return"}
Scoped  == {"call", "block", "for"}   \* the kinds that push a scope
Loops   == {"for", "while", "do"}

\* below: history, for a scoped frame and the module: the scopes it was started on.
Frame(kind, at, below) == [kind |-> kind, at |-> at, below |-> below]

Top       == stack[Len(stack)]
Pop(s)    == SubSeq(s, 1, Len(s) - 1)
Push(f)   == Len(stack) < MaxFrames /\ stack' = Append(stack, f)
MoveTo(s, at) == [s EXCEPT ![Len(s)].at = at]

\* Where a frame goes on when the statement or call it ran is over.
Onward(f) ==
  CASE f.kind = "module" /\ f.at = "main"        -> "done"
    [] f.kind = "if" /\ f.at = "branch"          -> "done"
    [] f.kind \in {"while", "do"} /\ f.at = "body" -> "cond"
    [] f.kind = "for" /\ f.at = "init"           -> "cond"
    [] f.kind = "for" /\ f.at = "body"           -> "step"
    [] OTHER                                     -> f.at

\* The top frame is over without a signal.
Completed == LET s == Pop(stack) IN MoveTo(s, Onward(s[Len(s)]))

Running(at) == stack # <<>> /\ signal = "none" /\ Top.at = at
Unwinding(sigs) == stack # <<>> /\ signal \in sigs

PushScope(names) == scopes' = Append(scopes, names)
PopScope  == scopes' = Pop(scopes)
Define(x) == scopes' = [scopes EXCEPT ![Len(scopes)] = @ \cup {x}]
-----------------------------------------------------------------------------
(* Where a signal has to end.                                              *)

Catchers(sig) ==
  CASE sig = "break"    -> Loops \cup {"switch", "call"}
    [] sig = "continue" -> Loops \cup {"call"}
    [] sig = "return"   -> {"call"}
    [] sig = "error"    -> {"module"}

\* A loop that continues stays; every other frame that a signal is for ends.
Landing(s, sig) ==
  LET c == CHOOSE i \in DOMAIN s :
             /\ s[i].kind \in Catchers(sig)
             /\ \A j \in DOMAIN s : s[j].kind \in Catchers(sig) => j <= i
  IN  IF sig = "continue" /\ s[c].kind # "call" THEN c ELSE c - 1

Raise(sig) == signal' = sig /\ due' = Landing(stack, sig)
Land       == signal' = "none" /\ due' = 0
-----------------------------------------------------------------------------
(* A module: hoist the functions, run the initialisers, call Main.         *)

StartModule(definesMain) ==
  /\ stack = <<>> /\ Len(scopes) <= MaxScopes
  /\ stack' = <<Frame("module", "globals", scopes)>>
  /\ hasMain' = (hasMain \/ definesMain)
  /\ UNCHANGED <<scopes, depth, signal, due>>

\* The value of a global initialiser is there.
GlobalVar(x) ==
  /\ Running("globals")
  /\ Define(x)
  /\ UNCHANGED <<stack, depth, signal, hasMain, due>>

GlobalsDone ==
  /\ Running("globals")
  /\ stack' = MoveTo(stack, IF hasMain THEN "main" ELSE "done")
  /\ UNCHANGED <<scopes, depth, signal, hasMain, due>>

EndModule ==
  /\ Running("done") /\ Top.kind = "module"
  /\ stack' = <<>>
  /\ UNCHANGED <<scopes, depth, signal, hasMain, due>>

\* :reset makes a new Interpreter.
Reset ==
  /\ stack = <<>>
  /\ scopes' = <<{}>> /\ depth' = 0 /\ hasMain' = FALSE
  /\ UNCHANGED <<stack, signal, due>>
-----------------------------------------------------------------------------
(* Calls.                                                                  *)

Calling == Running("main") \/ \E at \in Evaluating : Running(at)

Call(params) ==
  /\ Calling /\ depth < MaxDepth
  /\ Push(Frame("call", "body", scopes))
  /\ PushScope(params) /\ depth' = depth + 1
  /\ UNCHANGED <<signal, hasMain, due>>

\* Fault: the refused call is taken off the count.
FaultCallTooDeepUncounts ==
  /\ Calling /\ depth >= MaxDepth
  /\ Raise("error")
  /\ depth' = depth - 1
  /\ UNCHANGED <<stack, scopes, hasMain>>

\* At the limit every call fails, one of a builtin too.
CallTooDeep ==
  /\ Calling /\ depth >= MaxDepth
  /\ Raise("error")
  /\ UNCHANGED <<stack, scopes, depth, hasMain>>

EndCall ==
  /\ Running("body") /\ Top.kind = "call"
  /\ stack' = Completed
  /\ PopScope /\ depth' = depth - 1
  /\ UNCHANGED <<signal, hasMain, due>>

\* Faults: the error leaves by the short way; the loop signals are passed on.
FaultCallSignalShort ==
  /\ Unwinding(Signals) /\ Top.kind = "call"
  /\ PopScope
  /\ IF signal = "error"
     THEN stack' = Pop(stack) /\ UNCHANGED <<signal, due, depth>>
     ELSE stack' = Completed /\ Land /\ depth' = depth - 1
  /\ UNCHANGED hasMain

FaultCallSignalLeaks ==
  /\ Unwinding(Signals) /\ Top.kind = "call"
  /\ depth' = depth - 1
  /\ IF signal = "error"
     THEN stack' = Pop(stack) /\ UNCHANGED <<signal, due, scopes>>
     ELSE stack' = Completed /\ Land /\ PopScope
  /\ UNCHANGED hasMain

\* Any signal but an error ends the call and no more: its caller goes on.
CallSignal ==
  /\ Unwinding(Signals) /\ Top.kind = "call"
  /\ PopScope /\ depth' = depth - 1
  /\ IF signal = "error"
     THEN stack' = Pop(stack) /\ UNCHANGED <<signal, due>>
     ELSE stack' = Completed /\ Land
  /\ UNCHANGED hasMain
-----------------------------------------------------------------------------
(* Expressions.                                                            *)

\* Any operation, builtin or name may fail.
Fail ==
  /\ Calling
  /\ Raise("error")
  /\ UNCHANGED <<stack, scopes, depth, hasMain>>

\* An assignment to a name no scope has defines it in the innermost one.
Assign(x) ==
  /\ \E at \in Evaluating : Running(at)
  /\ \A i \in DOMAIN scopes : x \notin scopes[i]
  /\ Define(x)
  /\ UNCHANGED <<stack, depth, signal, hasMain, due>>
-----------------------------------------------------------------------------
(* Statements: exec_stmt.                                                  *)

AtStatement == \E at \in Hosting : Running(at)

\* Statements that evaluate something first; do runs its body first, for opens
\* its scope first.
Begin(kind) ==
  /\ AtStatement
  /\ Push(Frame(kind, CASE kind \in {"expr", "decl", "return", "switch"} -> "value"
                        [] kind \in {"if", "while"}                      -> "cond"
                        [] kind = "do"                                   -> "body",
                <<>>))
  /\ UNCHANGED <<scopes, depth, signal, hasMain, due>>

BeginScoped(kind) ==
  /\ AtStatement
  /\ Push(Frame(kind, IF kind = "for" THEN "init" ELSE "body", scopes))
  /\ PushScope({})
  /\ UNCHANGED <<depth, signal, hasMain, due>>

Asm ==
  /\ AtStatement
  /\ stack' = MoveTo(stack, Onward(Top))
  /\ UNCHANGED <<scopes, depth, signal, hasMain, due>>

\* break; continue; return;
Jump(sig) ==
  /\ AtStatement
  /\ Raise(sig)
  /\ UNCHANGED <<stack, scopes, depth, hasMain>>

EndExpr ==
  /\ Running("value") /\ Top.kind = "expr"
  /\ stack' = Completed
  /\ UNCHANGED <<scopes, depth, signal, hasMain, due>>

EndDecl(x) ==
  /\ Running("value") /\ Top.kind = "decl"
  /\ stack' = Completed
  /\ Define(x)
  /\ UNCHANGED <<depth, signal, hasMain, due>>

EndReturn ==
  /\ Running("value") /\ Top.kind = "return"
  /\ Raise("return")
  /\ UNCHANGED <<stack, scopes, depth, hasMain>>

EndBlock ==
  /\ Running("body") /\ Top.kind = "block"
  /\ stack' = Completed
  /\ PopScope
  /\ UNCHANGED <<depth, signal, hasMain, due>>

CondTrue ==
  /\ Running("cond")
  /\ stack' = MoveTo(stack, IF Top.kind = "if" THEN "branch" ELSE "body")
  /\ UNCHANGED <<scopes, depth, signal, hasMain, due>>

\* An if goes to its else branch, if there is one; a loop is over.
Else ==
  /\ Running("cond") /\ Top.kind = "if"
  /\ stack' = MoveTo(stack, "branch")
  /\ UNCHANGED <<scopes, depth, signal, hasMain, due>>

CondFalse ==
  /\ Running("cond")
  /\ stack' = Completed
  /\ IF Top.kind = "for" THEN PopScope ELSE UNCHANGED scopes
  /\ UNCHANGED <<depth, signal, hasMain, due>>

EndIf ==
  /\ Running("done") /\ Top.kind = "if"
  /\ stack' = Completed
  /\ UNCHANGED <<scopes, depth, signal, hasMain, due>>

\* The init of a for is a declaration, an expression or nothing.
ForInit(kind) ==
  /\ Running("init")
  /\ Push(Frame(kind, "value", <<>>))
  /\ UNCHANGED <<scopes, depth, signal, hasMain, due>>

ForNoInit ==
  /\ Running("init")
  /\ stack' = MoveTo(stack, "cond")
  /\ UNCHANGED <<scopes, depth, signal, hasMain, due>>

EndStep ==
  /\ Running("step")
  /\ stack' = MoveTo(stack, "cond")
  /\ UNCHANGED <<scopes, depth, signal, hasMain, due>>

\* The switch value is there: look at the cases one by one.
SwitchValue ==
  /\ Running("value") /\ Top.kind = "switch"
  /\ stack' = MoveTo(stack, "case")
  /\ UNCHANGED <<scopes, depth, signal, hasMain, due>>

\* default, or a case whose value is equal: from here on every body is run.
Matched ==
  /\ Running("case")
  /\ stack' = MoveTo(stack, "body")
  /\ UNCHANGED <<scopes, depth, signal, hasMain, due>>

EndSwitch ==
  /\ Running("case") \/ Running("body")
  /\ Top.kind = "switch"
  /\ stack' = Completed
  /\ UNCHANGED <<scopes, depth, signal, hasMain, due>>
-----------------------------------------------------------------------------
(* Signals on their way out.                                               *)

\* The frame neither has a scope nor catches the signal.
Transparent ==
  \/ Top.kind \in {"expr", "decl", "return", "if"}
  \/ Top.kind \in {"while", "do"} /\ signal \in {"return", "error"}
  \/ Top.kind = "switch" /\ signal # "break"

Pass ==
  /\ Unwinding(Signals) /\ Transparent
  /\ stack' = Pop(stack)
  /\ UNCHANGED <<scopes, depth, signal, hasMain, due>>

\* Fault: the ? of the body before the scope is popped.
FaultBlockSignalNoPop ==
  /\ Unwinding(Signals) /\ Top.kind = "block"
  /\ stack' = Pop(stack)
  /\ UNCHANGED <<scopes, depth, signal, hasMain, due>>

BlockSignal ==
  /\ Unwinding(Signals) /\ Top.kind = "block"
  /\ stack' = Pop(stack)
  /\ PopScope
  /\ UNCHANGED <<depth, signal, hasMain, due>>

\* Fault: the scope is popped in the loop and again behind it.
FaultForBodySignalPopsTwice ==
  /\ Unwinding({"return", "error"}) /\ Top.kind = "for" /\ Top.at = "body"
  /\ stack' = Pop(stack)
  /\ scopes' = Pop(Pop(scopes))
  /\ UNCHANGED <<depth, signal, hasMain, due>>

ForBodySignal ==
  /\ Unwinding({"return", "error"}) /\ Top.kind = "for" /\ Top.at = "body"
  /\ stack' = Pop(stack)
  /\ PopScope
  /\ UNCHANGED <<depth, signal, hasMain, due>>

\* An error in the init, the condition or the step leaves by ?: no scope is popped.
ForHeaderError ==
  /\ Unwinding({"error"}) /\ Top.kind = "for" /\ Top.at # "body"
  /\ stack' = Pop(stack)
  /\ UNCHANGED <<scopes, depth, signal, hasMain, due>>

BreakLoop ==
  /\ Unwinding({"break"}) /\ Top.kind \in Loops \cup {"switch"}
  /\ stack' = Completed /\ Land
  /\ IF Top.kind = "for" THEN PopScope ELSE UNCHANGED scopes
  /\ UNCHANGED <<depth, hasMain>>

\* Faults: the signal stays set; a switch takes a continue for itself.
FaultContinueStays ==
  /\ Unwinding({"continue"}) /\ Top.kind \in Loops
  /\ stack' = MoveTo(stack, Onward(Top))
  /\ UNCHANGED <<scopes, depth, signal, hasMain, due>>

FaultContinueSwitch ==
  /\ Unwinding({"continue"}) /\ Top.kind \in Loops \cup {"switch"}
  /\ stack' = MoveTo(stack, Onward(Top)) /\ Land
  /\ UNCHANGED <<scopes, depth, hasMain>>

ContinueLoop ==
  /\ Unwinding({"continue"}) /\ Top.kind \in Loops
  /\ stack' = MoveTo(stack, Onward(Top)) /\ Land
  /\ UNCHANGED <<scopes, depth, hasMain>>

\* exec_module returns the error; the REPL reports it and goes on.
ModuleError ==
  /\ Unwinding({"error"}) /\ Top.kind = "module"
  /\ stack' = <<>> /\ Land
  /\ UNCHANGED <<scopes, depth, hasMain>>

Unwind ==
  \/ Pass \/ CallSignal \/ BlockSignal \/ ForBodySignal \/ ForHeaderError
  \/ BreakLoop \/ ContinueLoop \/ ModuleError
-----------------------------------------------------------------------------
Init ==
  /\ stack = <<>> /\ scopes = <<{}>> /\ depth = 0 /\ signal = "none"
  /\ hasMain = FALSE /\ due = 0

Next ==
  \/ \E m \in BOOLEAN : StartModule(m)
  \/ \E x \in Names : GlobalVar(x) \/ Assign(x) \/ EndDecl(x)
  \/ GlobalsDone \/ EndModule \/ Reset
  \/ \E params \in SUBSET Names : Call(params)
  \/ CallTooDeep \/ EndCall \/ Fail
  \/ \E kind \in {"expr", "decl", "return", "switch", "if", "while", "do"} : Begin(kind)
  \/ \E kind \in {"block", "for"} : BeginScoped(kind)
  \/ Asm
  \/ \E sig \in {"return", "break", "continue"} : Jump(sig)
  \/ EndExpr \/ EndReturn \/ EndBlock \/ CondTrue \/ Else \/ CondFalse \/ EndIf
  \/ \E kind \in {"expr", "decl"} : ForInit(kind)
  \/ ForNoInit \/ EndStep \/ SwitchValue \/ Matched \/ EndSwitch
  \/ Unwind

\* The interpreter is one thread that never waits: a signal once raised goes on.
Spec == Init /\ [][Next]_vars /\ WF_vars(Unwind)
-----------------------------------------------------------------------------
(* What the interpreter must keep.                                         *)

Calls   == {i \in DOMAIN stack : stack[i].kind = "call"}
Openers == {i \in DOMAIN stack : stack[i].kind \in Scoped}

Frames == [kind : Kinds, at : Places, below : Seq(SUBSET Names)]

\* The state has its shape; the call depth never passes its limit.
TypeOK ==
  /\ stack \in Seq(Frames)
  /\ scopes \in Seq(SUBSET Names)
  /\ depth \in 0 .. MaxDepth
  /\ signal \in Signals \cup {"none"}
  /\ hasMain \in BOOLEAN /\ due \in Nat

\* call_depth is the number of calls in progress, whatever way the others ended,
\* so a session never runs out of depth because earlier inputs failed.
DepthCounts == depth = Cardinality(Calls)

\* There are scopes enough for every frame that will pop one, and one more: even
\* while an error unwinds past frames that left theirs behind, the global scope
\* is never popped, which define relies on (runtime.rs:41 unwraps the last).
ScopesSuffice == Len(scopes) >= 1 + Cardinality(Openers)

\* Unless an error is on its way out, the scopes are those of the open frames on
\* top of those the module started with, and no frame has added a name to a scope
\* outside its own; a module adds to the last.  So a frame that ends, however it
\* ends, restores what was visible before it (tests/compat/scope.HC).
ScopesNested ==
  signal # "error" =>
    \A i \in (Openers \cup {1}) \cap DOMAIN stack :
      LET base == stack[i].below
      IN  /\ Len(scopes) = Len(base) + Cardinality({j \in Openers : j >= i})
          /\ \A k \in DOMAIN base : scopes[k] = base[k] \/ (i = 1 /\ k = Len(base))

\* The scopes that belong to no open frame; every one beyond the global scope is
\* a for whose header failed, and stays for the rest of the session.
Stale == Len(scopes) - Cardinality(Openers) - 1

StaleFromForHeader ==
  [][Stale' > Stale =>
       Stale' = Stale + 1 /\ signal = "error" /\ Top.kind = "for" /\ Top.at # "body"]_vars

\* A signal is dealt with by the frame it is for and by no other: break by the
\* innermost loop or switch of the same call, continue by the innermost loop,
\* return by the call, an error by exec_module; what is outside that frame goes on.
SignalsLand == [][signal # "none" /\ signal' = "none" => Len(stack') = due]_vars

\* A signal is always dealt with: nothing on the way out can stop it.
SignalsEnd == signal # "none" ~> signal = "none"

\* vm.rs:4 has every signal unwound: "Control flow (return / break / continue) is
\* propagated via `Err(Signal)` so that `?` can unwind frames."  Between modules
\* then only the global scope is left.
UnwoundToGlobal == stack = <<>> => Len(scopes) = 1
=============================================================================
