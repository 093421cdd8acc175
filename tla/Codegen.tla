-------------------------------- MODULE Codegen --------------------------------
(***************************************************************************)
(* The emitter of the compiler (holyc_compiler/src/codegen.rs): how the    *)
(* statements of a function become basic blocks, where the builder stands  *)
(* meanwhile, which blocks are ended by a terminator, the stack of break   *)
(* and continue targets, and the table of locals.                          *)
(*                                                                         *)
(* emit_stmt recurses over the syntax tree; work is that recursion, one    *)
(* frame for the function and each compound statement being emitted.  The  *)
(* program is any program.  An expression emits instructions where the     *)
(* builder stands, and no blocks.  Of those one matters: a call of Exit    *)
(* emits an unreachable, a terminator, and what the rest of the expression *)
(* and of its statement emit comes behind it.  A block counts as ended, as *)
(* LLVM's get_terminator has it, when its last instruction is a            *)
(* terminator: one with something behind its unreachable is open again.    *)
(***************************************************************************)
EXTENDS Integers, Sequences, FiniteSets

CONSTANTS
  Names,      \* the names of parameters and local variables
  NoName,     \* in a for: its init declares nothing
  MaxBlocks,  \* bound: the blocks of one function
  MaxFrames,  \* bound: the statements nested in one another, and the function
  MaxCases,   \* bound: the cases of one switch
  MaxDecls    \* bound: the declarations of one name in one function

ASSUME NoNameAssumption == NoName \notin Names
ASSUME BoundsAssumption ==
  /\ MaxBlocks \in Nat /\ MaxFrames \in Nat /\ MaxCases \in Nat /\ MaxDecls \in Nat
  /\ MaxBlocks >= 1 /\ MaxFrames >= 1 /\ MaxDecls >= 1

VARIABLES
  work,    \* what the emitter is in the middle of, outermost first
  ended,   \* for each block of the function, in order: is its last instruction a terminator
  cur,     \* the block at the end of which the builder stands
  loops,   \* loop_stack: where break and continue go
  locals,  \* for each name, which of its declarations the table holds (0: none)
  scopes,  \* history: the table as it ought to be in each open scope of the source
  late     \* history: what has been emitted right behind a terminator ("rest", "other")

vars == <<work, ended, cur, loops, locals, scopes, late>>

\* own: the blocks of the statement, of a switch the exit and the cases left.
Frame(kind, at, own) == [kind |-> kind, at |-> at, own |-> own]

Top    == work[Len(work)]
Pop(s) == SubSeq(s, 1, Len(s) - 1)
At(kind, at) == work # <<>> /\ Top.kind = kind /\ Top.at = at

\* list: emit_stmts runs over statements; arm, else, body: one is due; then it is done.
Onward(at) == CASE at = "arm"  -> "armDone"
                [] at = "else" -> "elseDone"
                [] at = "body" -> "bodyDone"
                [] OTHER       -> at

Advance == [work EXCEPT ![Len(work)].at = Onward(@)]
Push(f) == Append(Advance, f)
MoveTo(at) == [work EXCEPT ![Len(work)].at = at]

\* append_basic_block, n times; the new blocks are New(1), ..., New(n).
Room(n)     == Len(ended) + n <= MaxBlocks
New(k)      == Len(ended) + k
Appended(n) == ended \o [k \in 1 .. n |-> FALSE]

Terminate(blocks, b) == [blocks EXCEPT ![b] = TRUE]
\* The jump out of an arm or a body, built where the builder stands, if at all.
Close(open) == IF open THEN Terminate(ended, cur) ELSE ended

\* Something is emitted at the end of these blocks, which may have ended before, and
\* then, if so, the rest of an expression or a statement behind its own call of Exit.
Emit(where, rest) ==
  late' = late \cup {w \in {"other"} : \E b \in where : ended[b]}
               \cup {w \in {"rest"} : rest}
Here(open) == IF open THEN {cur} ELSE {}

NoLocals   == [x \in Names |-> 0]
EnterScope == scopes' = Append(scopes, scopes[Len(scopes)])
LeaveScope == scopes' = Pop(scopes)
CanDeclare(x) == x \in Names => locals[x] < MaxDecls
\* locals.insert replaces: a name has the declaration emitted last.
Declared(table, x) == IF x \in Names THEN [table EXCEPT ![x] = locals[x] + 1] ELSE table
-----------------------------------------------------------------------------
(* Functions.                                                              *)

Init ==
  /\ work = <<>> /\ ended = <<>> /\ cur = 0 /\ loops = <<>>
  /\ locals = NoLocals /\ scopes = <<>> /\ late = {}

\* locals.clear(), the entry block, a slot for each parameter.
StartFunction(params) ==
  /\ work = <<>>
  /\ work' = <<Frame("function", "list", <<>>)>>
  /\ ended' = <<FALSE>> /\ cur' = 1
  /\ locals' = [x \in Names |-> IF x \in params THEN 1 ELSE 0]
  /\ scopes' = <<locals'>>
  /\ UNCHANGED <<loops, late>>

\* The statements are through; the last block returns if it has not ended.
EndFunction ==
  /\ At("function", "list")
  /\ work' = MoveTo("bodyDone")
  /\ ended' = Close(~ ended[cur])
  /\ UNCHANGED <<cur, loops, locals, scopes, late>>

\* The blocks of the next function are its own; locals stay until they are cleared.
NextFunction ==
  /\ At("function", "bodyDone")
  /\ work' = <<>> /\ ended' = <<>> /\ cur' = 0 /\ scopes' = <<>>
  /\ UNCHANGED <<loops, locals, late>>

\* Any expression or type may be an error; the compilation and its emitter are gone.
Fail ==
  /\ work # <<>> /\ ~ At("function", "bodyDone")
  /\ work' = <<>> /\ ended' = <<>> /\ cur' = 0 /\ loops' = <<>>
  /\ locals' = NoLocals /\ scopes' = <<>> /\ late' = {}
-----------------------------------------------------------------------------
(* Statements without statements in them.                                  *)

\* Fault: emit_stmts goes on behind a terminator.
FaultAtStatement == work # <<>> /\ Top.at \in {"list", "arm", "else", "body"}

\* emit_stmts stops at an ended block; a single statement is emitted in any case.
AtStatement ==
  /\ work # <<>>
  /\ Top.at \in {"arm", "else", "body"} \/ (Top.at = "list" /\ ~ ended[cur])

\* An expression, or inline assembly.  ends: the unreachable of a call of Exit is the
\* last it emits; rest: behind one it emits more, an operator or a call of Exit again.
Simple(ends, rest) ==
  /\ AtStatement
  /\ Emit({cur}, rest)
  /\ ended' = Close(ends)
  /\ work' = Advance
  /\ UNCHANGED <<cur, loops, locals, scopes>>

VarDecl(x, ends, rest) ==
  /\ AtStatement /\ CanDeclare(x)
  /\ Emit({cur}, rest)
  /\ ended' = Close(ends)
  /\ locals' = Declared(locals, x)
  /\ scopes' = [scopes EXCEPT ![Len(scopes)] = Declared(@, x)]
  /\ work' = Advance
  /\ UNCHANGED <<cur, loops>>

\* Asm with no text, and break and continue with no target, emit nothing.
Nothing ==
  /\ AtStatement
  /\ work' = Advance
  /\ UNCHANGED <<ended, cur, loops, locals, scopes, late>>

\* From here on, rest: the expression calls Exit, and the terminator comes behind it.
Return(rest) ==
  /\ AtStatement
  /\ Emit({cur}, rest)
  /\ ended' = Close(TRUE)
  /\ work' = Advance
  /\ UNCHANGED <<cur, loops, locals, scopes>>

\* A break or a continue, to a block of the last target.
Jump ==
  /\ AtStatement /\ loops # <<>>
  /\ Emit({cur}, FALSE)
  /\ ended' = Close(TRUE)
  /\ work' = Advance
  /\ UNCHANGED <<cur, loops, locals, scopes>>
-----------------------------------------------------------------------------
(* Block, if and switch.                                                   *)

CanNest(n) == AtStatement /\ Len(work) < MaxFrames /\ Room(n)

Block ==
  /\ CanNest(0)
  /\ work' = Push(Frame("block", "list", <<>>))
  /\ EnterScope
  /\ UNCHANGED <<ended, cur, loops, locals, late>>

EndBlock ==
  /\ At("block", "list")
  /\ work' = Pop(work)
  /\ LeaveScope
  /\ UNCHANGED <<ended, cur, loops, locals, late>>

\* then, else, merge; the condition branches to the first two.
If(rest) ==
  /\ CanNest(3)
  /\ Emit({cur}, rest)
  /\ ended' = Terminate(Appended(3), cur)
  /\ cur' = New(1)
  /\ work' = Push(Frame("if", "arm", <<New(1), New(2), New(3)>>))
  /\ UNCHANGED <<loops, locals, scopes>>

\* Whether the arm has ended is asked of the block in which it began.
EndArm(hasElse) ==
  /\ At("if", "armDone")
  /\ LET open == ~ ended[Top.own[1]] IN Emit(Here(open), FALSE) /\ ended' = Close(open)
  /\ cur' = Top.own[2]
  /\ work' = MoveTo(IF hasElse THEN "else" ELSE "elseDone")
  /\ UNCHANGED <<loops, locals, scopes>>

EndIf ==
  /\ At("if", "elseDone")
  /\ LET open == ~ ended[Top.own[2]] IN Emit(Here(open), FALSE) /\ ended' = Close(open)
  /\ cur' = Top.own[3]
  /\ work' = Pop(work)
  /\ UNCHANGED <<loops, locals, scopes>>

\* exit and a block for each case; break and continue both go to the exit.  The subject
\* and the values of the cases come before the switch.
Switch(n, rest) ==
  /\ CanNest(n + 1)
  /\ Emit({cur}, rest)
  /\ ended' = Terminate(Appended(n + 1), cur)
  /\ cur' = New(2)
  /\ work' = Push(Frame("switch", "list", [k \in 1 .. n + 1 |-> New(k)]))
  /\ loops' = Append(loops, <<New(1), New(1)>>)
  /\ UNCHANGED <<locals, scopes>>

EmptySwitch(rest) ==
  /\ CanNest(1)
  /\ Emit({cur}, rest)
  /\ ended' = Terminate(Appended(1), cur)
  /\ cur' = New(1)
  /\ work' = Advance
  /\ UNCHANGED <<loops, locals, scopes>>

\* Fault: the target of break stays on the stack.
FaultEndCase ==
  /\ At("switch", "list")
  /\ LET open == ~ ended[Top.own[2]] IN Emit(Here(open), FALSE) /\ ended' = Close(open)
  /\ IF Len(Top.own) > 2
     THEN /\ cur' = Top.own[3]
          /\ work' = [work EXCEPT ![Len(work)].own = <<@[1]>> \o SubSeq(@, 3, Len(@))]
     ELSE /\ cur' = Top.own[1] /\ work' = Pop(work)
  /\ UNCHANGED <<loops, locals, scopes>>

\* A case that has not ended, asked of its first block, jumps to the exit.
EndCase ==
  /\ At("switch", "list")
  /\ LET open == ~ ended[Top.own[2]] IN Emit(Here(open), FALSE) /\ ended' = Close(open)
  /\ IF Len(Top.own) > 2
     THEN /\ cur' = Top.own[3]
          /\ work' = [work EXCEPT ![Len(work)].own = <<@[1]>> \o SubSeq(@, 3, Len(@))]
          /\ UNCHANGED loops
     ELSE /\ cur' = Top.own[1]
          /\ work' = Pop(work)
          /\ loops' = Pop(loops)
  /\ UNCHANGED <<locals, scopes>>
-----------------------------------------------------------------------------
(* Loops.  Where the body ends is asked of the block the builder is in by  *)
(* then.                                                                   *)

EnterLoop(exit, cont) == loops' = Append(loops, <<exit, cont>>)

\* The jump at the end of a body, and what is due in a block of the loop behind it; then
\* the builder goes on in the exit.
Leave(exit, more, rest, closed) ==
  /\ Emit(Here(~ ended[cur]) \cup more, rest)
  /\ ended' = closed
  /\ cur' = exit
  /\ work' = Pop(work)
  /\ loops' = Pop(loops)

\* cond, body, exit; the condition is emitted before the body.
While(rest) ==
  /\ CanNest(3)
  /\ Emit({cur}, rest)
  /\ ended' = Terminate(Terminate(Appended(3), cur), New(1))
  /\ cur' = New(2)
  /\ work' = Push(Frame("while", "body", <<New(1), New(2), New(3)>>))
  /\ EnterLoop(New(3), New(1))
  /\ UNCHANGED <<locals, scopes>>

\* Fault: asked of body_bb, as an if asks of its arm.
FaultEndWhile ==
  /\ At("while", "bodyDone")
  /\ Leave(Top.own[3], {}, FALSE, Close(~ ended[Top.own[2]]))
  /\ UNCHANGED <<locals, scopes>>

EndWhile ==
  /\ At("while", "bodyDone")
  /\ Leave(Top.own[3], {}, FALSE, Close(~ ended[cur]))
  /\ UNCHANGED <<locals, scopes>>

\* Fault: the condition before the body, as in a while.
FaultDoWhile ==
  /\ CanNest(3)
  /\ Emit({cur}, FALSE)
  /\ ended' = Terminate(Terminate(Appended(3), cur), New(2))
  /\ cur' = New(1)
  /\ work' = Push(Frame("do", "body", <<New(1), New(2), New(3)>>))
  /\ EnterLoop(New(3), New(2))
  /\ UNCHANGED <<locals, scopes>>

\* body, cond, exit; the condition is emitted after the body.
DoWhile ==
  /\ CanNest(3)
  /\ Emit({cur}, FALSE)
  /\ ended' = Terminate(Appended(3), cur)
  /\ cur' = New(1)
  /\ work' = Push(Frame("do", "body", <<New(1), New(2), New(3)>>))
  /\ EnterLoop(New(3), New(2))
  /\ UNCHANGED <<locals, scopes>>

EndDoWhile(rest) ==
  /\ At("do", "bodyDone")
  /\ Leave(Top.own[3], {Top.own[2]}, rest, Terminate(Close(~ ended[cur]), Top.own[2]))
  /\ UNCHANGED <<locals, scopes>>

\* cond, body, step, exit; the init, which may declare x, comes before the jump
\* to the condition, and its scope is the loop.  The init or the condition may call Exit.
For(x, rest) ==
  /\ CanNest(4) /\ CanDeclare(x)
  /\ Emit({cur}, rest)
  /\ ended' = Terminate(Terminate(Appended(4), cur), New(1))
  /\ cur' = New(2)
  /\ locals' = Declared(locals, x)
  /\ scopes' = Append(scopes, Declared(scopes[Len(scopes)], x))
  /\ work' = Push(Frame("for", "body", <<New(1), New(2), New(3), New(4)>>))
  /\ EnterLoop(New(4), New(3))

EndFor(rest) ==
  /\ At("for", "bodyDone")
  /\ Leave(Top.own[4], {Top.own[3]}, rest, Terminate(Close(~ ended[cur]), Top.own[3]))
  /\ LeaveScope
  /\ UNCHANGED locals
-----------------------------------------------------------------------------
Next ==
  \/ \E params \in SUBSET Names : StartFunction(params)
  \/ EndFunction \/ NextFunction \/ Fail
  \/ \E ends, rest \in BOOLEAN :
       Simple(ends, rest) \/ \E x \in Names : VarDecl(x, ends, rest)
  \/ Nothing \/ Jump
  \/ Block \/ EndBlock
  \/ (\E hasElse \in BOOLEAN : EndArm(hasElse)) \/ EndIf
  \/ EndCase \/ EndWhile \/ DoWhile
  \/ \E rest \in BOOLEAN :
       \/ Return(rest) \/ If(rest)
       \/ (\E n \in 1 .. MaxCases : Switch(n, rest)) \/ EmptySwitch(rest)
       \/ While(rest) \/ EndDoWhile(rest)
       \/ (\E x \in Names \cup {NoName} : For(x, rest)) \/ EndFor(rest)

Spec == Init /\ [][Next]_vars
-----------------------------------------------------------------------------
(* What the emitter must keep.                                             *)

\* The blocks of an open statement in which nothing has been emitted yet.
Left(f) ==
  CASE f.kind = "if" /\ f.at \in {"arm", "armDone"} -> {f.own[2], f.own[3]}
    [] f.kind = "if" /\ f.at \in {"else", "elseDone"} -> {f.own[3]}
    [] f.kind = "while"  -> {f.own[3]}
    [] f.kind = "do"     -> {f.own[2], f.own[3]}
    [] f.kind = "for"    -> {f.own[3], f.own[4]}
    [] f.kind = "switch" -> {f.own[k] : k \in DOMAIN f.own \ {2}}
    [] OTHER             -> {}

ToFill == UNION {Left(work[i]) : i \in DOMAIN work}
Open   == {b \in DOMAIN ended : ~ ended[b]}

\* Where break and continue go from inside the statement f.
Targets(f) ==
  CASE f.kind = "while"  -> <<f.own[3], f.own[1]>>
    [] f.kind = "do"     -> <<f.own[3], f.own[2]>>
    [] f.kind = "for"    -> <<f.own[4], f.own[3]>>
    [] f.kind = "switch" -> <<f.own[1], f.own[1]>>

\* The open statements of these kinds among the first i.
Catchers == {"while", "do", "for", "switch"}
Depth(kinds, i) == Cardinality({j \in 1 .. i : work[j].kind \in kinds})

Places == {"list", "arm", "else", "body", "armDone", "elseDone", "bodyDone"}
Frames == [kind : {"function", "block", "if", "while", "do", "for", "switch"},
           at : Places, own : Seq(1 .. MaxBlocks)]

\* The state has its shape; every block a statement knows of is in the function.
TypeOK ==
  /\ work \in Seq(Frames)
  /\ \A i \in DOMAIN work : \A k \in DOMAIN work[i].own : work[i].own[k] \in DOMAIN ended
  /\ ended \in Seq(BOOLEAN)
  /\ cur \in (IF work = <<>> THEN {0} ELSE DOMAIN ended)
  /\ loops \in Seq((1 .. MaxBlocks) \X (1 .. MaxBlocks))
  /\ locals \in [Names -> 0 .. MaxDecls]
  /\ scopes \in Seq([Names -> 0 .. MaxDecls])
  /\ late \subseteq {"rest", "other"}

\* No statement begins, and none goes on after the statements in it, behind a terminator,
\* though any of these may have ended the block: what comes right behind one is only the
\* rest of the expression or statement that calls Exit (codegen.rs:1341).
OnlyRestsLate == late \subseteq {"rest"}

\* loop_stack is the loops and switches around the statement being emitted, so a
\* break or continue goes to the innermost, and never, after an early return from
\* emit_stmt or a statement list cut short, to a loop of an earlier function.
LoopsMatch ==
  /\ Len(loops) = Depth(Catchers, Len(work))
  /\ \A i \in DOMAIN work :
       work[i].kind \in Catchers => loops[Depth(Catchers, i)] = Targets(work[i])

\* A block in which a statement has yet to emit is nobody else's: no other
\* statement has it to fill, the builder is not in it, and nothing has ended it.
BlocksFresh ==
  /\ ToFill \subseteq Open \ {cur}
  /\ \A i, j \in DOMAIN work : i # j => Left(work[i]) \cap Left(work[j]) = {}

\* A block is left behind without a terminator only at the end of an if's arm or a
\* switch's case (codegen.rs:560, 568, 719: asked of the first block); a loop's
\* body, asked at its last block, and the end of the function close what is open.
OnlyArmsStrand ==
  [][\A b \in Open \cap (ToFill \cup {cur}) :
       work' # <<>> /\ ~ ended'[b] =>
         \/ b \in (ToFill \cup {cur})'
         \/ b = cur /\ (Top.at \in {"armDone", "elseDone"} \/ Top.kind = "switch")]_vars

\* codegen.rs:590 of the jump that ends a loop's body: "Use current insert block (may
\* differ from body_bb after nested ifs)."  So nested, every block of a function is
\* to have its terminator when the function is done.
AllEnded == At("function", "bodyDone") => Open = {}

\* tests/compat/scope.HC expects a name to be, after a block that declares it anew,
\* what it was before it: "EXPECT: outer: 5", "EXPECT: restored: 5".
LocalsScoped == work # <<>> => locals = scopes[Len(scopes)]
=============================================================================
