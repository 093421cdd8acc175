# HolyComp: models and proofs

TLA+ models of HolyComp, a HolyC interpreter, compiler, formatter and language
server in Rust, with the TLC runs that check them and the TLAPS proofs about
them. Paths are relative to the root of the repository.

## The system

| Part | Code | State it keeps | Operations |
|---|---|---|---|
| Heap | `holyc_interpreter/src/heap.rs` | one byte buffer, bump mark, count of live blocks | alloc, free, reads and writes, memset, memcpy, strings |
| Interpreter | `holyc_interpreter/src/vm.rs` | scope chain, functions, heap, call depth, types | exec_module, call_func, exec_stmt, eval_expr |
| Scope chain | `holyc_interpreter/src/runtime.rs` | a vector of maps from names to values | push, pop, define, get, set |
| REPL | `holyc_interpreter/src/repl.rs` | one interpreter, the lines of an unfinished input | one step per line, commands |
| Command lines | `holyc_interpreter/src/main.rs`, `fmt_main.rs` | none | run a file, format a file |
| Lexer, parser | `holyc_frontend/src/lexer.rs`, `parser.rs` | position; known type names | tokenize, parse_module |
| Types, layout | `holyc_frontend/src/types.rs`, `layout.rs` | struct layouts, typedefs | resolve, size_of, compute_layout |
| Formatter | `holyc_frontend/src/fmt.rs` | output, indentation | print a module |
| Diagnostics | `holyc_frontend/src/diag.rs` | none | render an error |
| Builtins | `holyc_stdlib/src/builtins.rs` | process-wide file table and descriptor counter, thread-local generator | Print, StrCmp, Rand, FileOpen, ... |
| Capture | `holyc_stdlib/src/capture.rs` | thread-local output sink | output, with_capture |
| Language server | `holyc_lsp/src/main.rs` | open documents, shutdown flag | one message at a time |
| JIT compiler | `holyc_compiler/src/codegen.rs`, `abi.rs` | basic blocks, loop stack, locals | compile_module, emit_stmt, emit_expr |
| Editors, CI | `editors/`, `.github/` | none | |

How they interact. The command line and the REPL hand source text to the lexer
and the parser and the module to an interpreter; the REPL keeps one interpreter
for the session, so whatever an input leaves behind (scopes, functions, heap
blocks, open files) the next input meets. The interpreter calls the heap, the
layouts and the builtins directly and in one thread; builtins print through the
capture sink and share one file table in the process. The compiler takes the
same module as the interpreter and should give it the same meaning. The language
server runs lexer and parser on every change of a document. Nothing is
persistent; the only shared state between threads is the file table and its
counter.

What is hard here is not concurrency but state that outlives the step that wrote
it: headers in the buffer that later walks trust, pointers used after their
block was given away, scopes and depth on the seven ways out of a statement, an
interpreter that goes on after an error, and two back ends that must agree.
`PROJECT.json` lists each of these hazards at its line.

What makes each part correct:

- Heap: blocks tile the buffer; no block has two owners and none is lost; fresh
  memory is clean; a request fails only when nothing fits; every call returns.
- Interpreter: each signal ends at the statement it is meant for; scopes and
  depth are those of the statements and calls in progress; an error leaves no
  trace in the next input.
- REPL: an input is executed exactly when it is complete, and discarded exactly
  when it is wrong.
- Layout: offsets and sizes as a C compiler lays them out; a field is that of
  the struct accessed.
- Lexer, parser, formatter: every input ends in tokens or an error; operators
  associate as their table says; what the formatter prints reads back the same.
- File table: a descriptor is one open file; capture: nested captures separate.
- Language server: published diagnostics are those of the stored text.
- Compiler: each statement's blocks do what the interpreter does.

## Modules

| Module | Models | Built on |
|---|---|---|
| `Heap` | heap.rs, and its callers in vm.rs as far as they hold pointers | |
| `Allocator` | what the heap promises, abstractly | |
| `Interp` | statements, calls, signals, scopes and modules: vm.rs 130-489, runtime.rs | |
| `Codegen` | the blocks the compiler emits for statements: codegen.rs 444-755 | |
| `Lexer` | the tokens of lexer.rs, as operators on a text | |
| `Tokenizer` | the loops of lexer.rs around them: tokens, gaps, strings; beside what a lexeme is | `Lexer` |
| `Pratt` | the expression parser of parser.rs, 634-992: binding powers, trees; beside the grammar in levels | `Lexer` |
| `Formatter` | how fmt.rs prints expressions | `Pratt` |
| `Syntax` | a text going through lexer, parser and formatter, beside what the grammar is | `Formatter`, `Tokenizer` |
| `Parser` | the rest of parser.rs: modules, declarations, statements, types | |
| `Repl` | repl.rs: lines, kept input, answers | `Parser` |
| `Types` | layout.rs and types.rs: classes, typedefs | |
| `Structs` | variables of struct type and their members: vm.rs 334-368, 600-640, 915-947 | `Types` |
| `Process` | the threads of a process | |
| `Files` | the file builtins: builtins.rs 392-522 | `Process` |
| `Capture` | capture.rs | `Process` |
| `Stdlib` | both side by side | `Files`, `Capture` |
| `HeapProofs`, `InterpProofs`, `CodegenProofs`, `StructsProofs`, `StdlibProofs`, `ReplProofs` | theorems on the module of that name | |
| `SyntaxProofs` | theorems on `Tokenizer` and `Pratt` | |
| `Descent` | induction over sets of numbers, recursive functions on them | |
| `MCHeap`, `MCInterp`, `MCCodegen`, `MCSyntax`, `MCRepl`, `MCStructs`, `MCStdlib` | values for TLC | |

### Heap

`mem` is the buffer in words of eight bytes, because both the header and the
alignment are eight bytes; a word is the pair that `Header::read_from` would
decode from it, so reading data as a header is possible in the model and is
what `WalkSound` excludes. `bump` and `live` are the fields of the struct.
`alloc` is several steps (`AllocStart`, then `Skip` for each block the walk
passes, then `Reuse`, `Bump` or `OutOfMemory`), with `pc`, `pos`, `want`, `text`
as its locals; everything else is one action. Nothing runs between the steps of
a walk; they are separate so that the walk itself can be reasoned about.

The caller is any program that keeps every pointer it was given, writes through
it at most the words it once asked for, and frees it at most once too often at
any time. So it may write into and free a block that was freed and granted to
someone else. It does not write past what it asked for: the interpreter bounds
accesses only by the buffer, and such a program breaks every promise. `reach`,
`owned` and `misused` record what the program was given, `heads` where headers
were put.

Byte offset 1, the pointer that `alloc(0)` returns, is `Sentinel`; freeing it is
`FreeSentinel`, with the outcome of a release build (a debug build panics and
the program is over).

### Interp

The interpreter recurses over the syntax tree. `stack` is that recursion: one
frame for the module, each call and each statement in progress, with the place
it has reached. The program is not fixed: a frame that runs statements may run
any, a condition may be true or false, a switch may match anywhere, and an
expression is any number of calls followed by a value or an error (`Call`,
`Fail`, `Assign` and the actions that end an expression). So TLC explores all
programs within the bounds, not some. `signal` is the `Err(Signal)` on its way
out; one `Unwind` action is one frame's handling of it. A scope is the set of
its names. `StartModule` to `EndModule` or `ModuleError` is one `exec_module`;
the session then goes on with the next input or `:reset`.

Of the history variables, `below` in a frame records the scopes it was started
on, and `due` says, when a signal is raised, how high the stack must be once it
has been dealt with, by a definition (`Landing`) that looks at the whole stack
rather than at one frame.

### Codegen

`emit_stmt` recurses over the tree as the interpreter does; `work` is that
recursion, a frame for the function and each compound statement, with the blocks
the statement has made (`own`). `ended` has one entry for each block of the
function, true once it has a terminator, and `cur` is where the builder stands,
`loops` is `loop_stack`, `locals` the table of slots, a declaration being its
number. The program is again any program. Expressions make no blocks, so what is
left of them (`Emit`) is where a call of `Exit` in them ends the block with
`unreachable`, and that the rest of the expression and of its statement, up to the
branch or the `ret` that it ends with, is emitted behind that: `return Exit(1);`,
`for (;;Exit(0))`, a condition with a call of `Exit`. `ended` says of a block what
`get_terminator` would, that its *last* instruction is a terminator; a block with an
addition behind its `unreachable` is open again. Where the blocks jump to is left out,
but for the targets of break and continue.

`scopes` and `late` are history: the table a name would have to have if blocks
restored it, and what was emitted right behind a terminator: the rest of the statement
that calls `Exit`, or anything else. `OnlyRestsLate` says that it is never anything else;
that it does happen is the code as it is (codegen.rs 538, 645, 673, 1341), and LLVM, which
refuses such a block, is never asked to verify it.

### Lexer, Tokenizer, Pratt, Formatter, Syntax

A text is a sequence of characters, of each class of characters a few members,
those among them that some test in `lexer.rs` names. `TokenAt` is `next_token` behind
the gap, with its loops; a token is its kind and where it stands in the text.
`Tokenizer` makes a machine of `tokenize`: one step is one round of
`skip_whitespace_and_comments` (`SkipBlank`, `SkipLine`, `SkipBlock`), one token, or one
round of `lex_string` (`OpenString` to `CloseString`; `quote` is its `start`). What a
lexeme is is said once more there, of a piece of the text and without a position that
goes forward (`IsNumber`, `IsQuoted`, `IsGap`), and compared: whether a quote counts is
the parity of the backslashes in front of it, and a gap is what can be cut into blanks
and whole comments.

`parse_pratt` and `parse_prefix` call each other. `Pratt` is that recursion with its stack:
`frames` has an entry for each expression that waits for an operand, with its operator and
what it has of operands, and `min`, `start` and `lhs` are the locals of the call that reads
the operand now. A step is one call (`Prefix`, `Group`, `Binary`, `Subscript`, ...), one leaf,
one postfix operator, or one return, which makes the expression of the innermost frame
(`EndLast`, `EndClosed`), asks for its next operand (`NextArgument`, `Otherwise`) or ends
`parse_expr` (`Return`). `nodes` has the expressions in the order in which they are made,
with the tokens they span, so that a later one names the earlier ones it is made of. The
grammar is said once more below it, without binding powers and without a parser: operators in
levels (`Grammar`, `Level`), the level an operand needs at least (`Least`), the words around the
operands (`Lead`, `Close`). `Derived` compares the two node by node.

`Expr` and its kin print a tree as `fmt.rs` does, character by character as far
as characters decide how the text reads back: spaces, parentheses, `- -x` against `--x`,
a float without its fraction. In `Syntax` the text is any of a set of texts, or printed
by the formatter, or printed by a reference (`Reference`) that puts parentheses where a
level requires them and nowhere else.

`Tame` is the formatter's real contract. It says, without the parser and the printer,
of which trees the printed text reads back as the same tree, and the run
shows that it is those and no others. `RoundTrip`, which the tests state, is every
tree, and is violated.

### Parser, Repl

The functions of parser.rs look one token ahead and call each other. `stack` is what
is left to do in all of them: a symbol is a token that is expected or the name of a
place in a function, and a step replaces the first symbol by what that place does next,
given the token `cur_tok()` is. `known` is `known_types`, which decides what a
statement is. Expressions come without binding powers here, since they change the tree
and not what is read.

A user types tokens and ends lines. In the code every line makes a new parser read the
kept text from its start. The new parser comes to where the last one was when its tokens
ended, so the model goes on from there: `buf` is the stack at the end of the line.
Answers are those of `step`: execute, keep, discard. `session` is what the interpreter
knows of types, and it is not what the next input's parser starts with.

### Types, Structs

`Types` takes the loop of `compute_layout` field by field, so that what the layout
of a class depends on (classes that come later, the class itself, a typedef defined
again) is what is known at that field. Primitive types are those of different size.
`Structs` is the interpreter on top: a declaration allocates what the layout says;
`p.f` is looked for in *all* structs by name, the first in the order of the map to
write and the last to read. `order` is that order, any one, drawn again when a struct
is added. An access is a path of up to `Depth` fields. The code does not ask whether a
field is one of the variable's struct, or whether it is a struct itself, and neither does
`Assign`: `v.f = w` for a struct `f` writes its whole size over the members in it, and a
name that only another struct has is written wherever that struct has it, as long as it is
in the buffer, be it over a header. A piece of memory holds what was last written there, by
value and index, so that a read that is shorter, longer or elsewhere is seen. Once a write
has left the block of its variable (`strayed`), headers may be anything: then the memory
is not followed, and `Places` lets `alloc` return any place a walk could come to.

`Clear` is the condition under which a program can rely on its variables: the struct
and what is in it, at any depth, are as they were when the variable was declared, and every
other struct with a field of the same name has it at the same place. `MemberOf` is what is
a member by the types. Under these `InsideBlock` says that all members, also those that
are structs, lie in the block, and `ReadBack` that a member that is no struct reads as it was
last written, until a write strays. `last` forgets a member when a struct around it is
written as a whole, and a variable when it is written by an ambiguous name or one that is no
member's: what the code does then is what the model does, but nothing is promised of it.
Pointers, blocks that a program allocates itself and assignments to whole variables are
left out.

### Files, Capture

The table of handles is the process's. `FileOpen` is three steps, as between opening the
host's file, taking a descriptor and entering it other threads may run; everything else
is one closure under the table's lock. Of a file only its length is kept, of
a handle its mode and position. `Capture` has a sink for each thread and the stack of
saved sinks that the nested calls of `with_capture` hold in their locals; `own`
records what each closure has output itself.

## Runs

| Run | Bounds | Shows |
|---|---|---|
| `heap` | 7 words, requests of 0, 8 and 9 bytes | all invariants and action properties of `Heap`, that `alloc` returns, that `Heap` implements `Allocator` |
| `heap_oom` | the same | violated: `MAlloc` never returns NULL |
| `interp` | one name, calls 2 deep, 5 frames, new inputs while at most 2 scopes are left | all properties of `Interp` |
| `interp_unwind` | the same | violated: a scope outlives a failing `for` header |
| `codegen` | 10 blocks, 5 frames, one name, 2 cases | terminators, loops, blocks: the properties of `Codegen` |
| `codegen_open` | 9 blocks, 4 frames | violated: a block stays without a terminator |
| `codegen_scope` | the same, two declarations of a name | violated: a block restores the names it hid |
| `syntax` | all texts of 3 to 6 characters over seven alphabets, all trees of two operators on a path, prefixes three | the lexer, the expression parser against the grammar, that it ends, what the formatter keeps |
| `format_roundtrip` | subtractions of subtractions | violated: a formatted expression reads back as it was |
| `repl` | two names, a stack of six symbols | brackets, what reaches the session, every line is answered, which unfinished inputs are kept |
| `structs` | two class or typedef names, two field names, two variables, two classes with three fields and typedefs in all, paths of two fields, 39 addresses | layouts, aliases, members stay in their block and read back |
| `stdlib` | two threads, one file, four descriptors, captures two deep | descriptors and captured output |

Seven words hold three blocks of one word or two blocks of different sizes with
room for neither a third nor a larger one, so reuse of an exact and of a larger
block, a walk past a block too small, growth, and refusal with and without free
blocks all happen; nine bytes need rounding. The one nonzero word stored,
a free header of one word, is the one a walk that reads data would take.
Word values beyond that and larger buffers change nothing in the control; the
proofs cover them.

Five frames hold a module, a call, a statement with an expression, a second call
out of it and a statement in that; depth two makes the third call fail. A signal
meets every kind of frame, alone and inside another statement. One name
distinguishes a scope with a definition from one without. With `MaxScopes` at two
a session goes on over stale scopes and then resets. The bounds are guards of
`Push` and `StartModule`; a program that would exceed them does something else.

Ten blocks and five frames hold the function, any compound statement in any
other and a third in that, with the jump out of each and statements after each;
two cases make a case that is not the last.

The alphabets of `syntax` are one for each decision of the lexer: radix prefixes,
fractions and exponents, quotes and escapes, comments, operators of up to three
characters, directives, and a mixture that parses. The longest lookahead is two
characters (`1e+`, `<<=`), an exponent needs four before it counts, so six are enough to
have a lexeme, its refusal and something behind it. Two operators on a path are what a
precedence or an associativity is about; a third prefix shows that gluing is a matter of
neighbours. All pairs of infix operators are among the trees. The texts that are not
printed have most of the wrong expressions: operands missing, brackets of the other kind, types
where there should be none, and an end of the file anywhere.

In `repl` the stack bounds how deep constructs may be inside one another; beyond six the
user only goes on with what closes something, so every input can be finished. Six hold
a function with a block in it and a statement in that with an expression in
parentheses, or a class with a field. A name is enough to tell a type from a variable,
the second one is a variable while the first is a type.

In `structs` two classes nest, share a field name, alias each other and are defined
again, with both orders of the map; types of one and four bytes leave a gap that an
alignment must fill. Two classes and three items are a class of two fields and one that
contains it, two with the same field at different places, a class defined again, or an alias
of one that is then used; a class without fields has no block. Thirty-nine addresses hold
two blocks of one word, or one of up to three, so a stray write may change the other variable
or its header, or go beyond the end of the buffer and fail.

In `stdlib` two threads are in the three steps of `FileOpen` at once while a third and
fourth descriptor are yet to come; two captures in one another are the least for which
the wrong buffer could be put back. Four descriptors stand in for 2^64.

Deadlock is not checked in `syntax`, `structs`, `repl` and `stdlib`: a text is read once,
a session's definitions run out, a user may stop, descriptors run out.

Fairness. `Heap` assumes that a walk goes on (`WF(Walk)`), `Interp` that a signal
on its way out goes on (`WF(Unwind)`), `Repl` that the parser and the answer to a line
go on (`WF(Work)`): all are straight-line Rust in one thread with nothing to wait for.
Nothing is assumed about the program, which may loop for ever, or about the user, who
may go away.

## Findings

- `heap_oom`: `docs/stdlib.md:32` says of `MAlloc` "returns pointer or NULL on
  OOM". `heap.rs:103` returns an error instead, which ends the program.
- `interp_unwind`: init, condition and step of a `for` leave by `?` after
  `push_scope` and before `pop_scope` (vm.rs 433-455). Each enclosing call or
  block then pops one scope as always, but not its own, and what stays is the
  outermost: after `U0 Main() { I64 x = 1; for (; 1/0;) {} }` fails, the scope
  of `Main` is still there, `x` is visible to the inputs that follow, and later
  globals are defined beside it.
  `StaleFromForHeader` shows that this is the only way a scope can stay.

- `codegen_open`: an arm of an `if` (codegen.rs 560, 568) and a case of a
  `switch` (719) get their closing jump only if the block they *began* in has not
  ended. A nested `if`, loop or switch ends that block and moves the builder on, so
  its last block gets no terminator; nothing verifies the module. Loops ask the
  block the builder is in, and the comment at line 590 says why. `OnlyArmsStrand` shows that
  arms and cases are the only places.
- `codegen_scope`: `locals` is one table for the function and a block restores
  nothing, so `tests/compat/scope.HC` would print `outer: 10`. It is run
  through the interpreter only; `ROADMAP.md:67` wants parity.

- `format_roundtrip`: the right operand is printed in parentheses only if its level is
  *below* that of its operator (fmt.rs:396), the left one if it is not above. So
  `a - (b - c)` is printed as `a - b - c` and read back as `(a - b) - c`, which is what the
  run finds. The same printer, by `FormatsTame` in `syntax`: operands of casts, calls,
  indices and fields, conditions and targets of assignments lose their parentheses,
  `-(-x)` becomes `--x`, and `1.0` becomes `1`. `fmt.rs:621` has a test helper that fails with "roundtrip
  changed AST"; its examples have only left-associated operands.

Seen on the way, with no text in the repository that says otherwise:

- A `#define NAME` without a value takes the expression on the line below for its value
  (parser.rs:143), because the end of a line is no token.
- An input knows no types of the inputs before it (repl.rs:118), though the interpreter
  does: `Point p;` begins an expression there, and is refused.
- The comment at vm.rs:611 says that a field is looked for in the most recent struct.
  The map has no order, and reading takes the last match where writing takes the first.
- Members are read back unsigned (vm.rs:626), and a float of four bytes is read as
  eight: `ReadBack` compares bytes and says nothing of this.
- After a panic through `with_capture` the thread's output is lost (capture.rs:58);
  `StdoutUntilPanic` states it as it is.

## Proofs

`HeapProofs` (TLAPS, all leaves checked) holds for every capacity, every set of
request sizes and every set of stored words, under the assumptions in `Heap`:
the capacity is positive, the words are headers in form, and a block's size fits
the 32 bits it is stored in (`SizeSpanAssumption`), which the code does not
check. The inductive invariant `IInv` is the conjunction of the invariants the
run checks and of `Asking` (a walk serves some request, hence one of at least one
word). No part is inductive alone: `BlocksTile` needs to know that stores stay
inside blocks (`ReachWithinBlock`), `WalkSound` that no header lies between one
header and the next (`BlocksTile`), `OwnedInUse` that the block a walk takes was
free. Each action's effect on the headers is one lemma (`ReuseEffect`,
`BumpEffect`, `ReleaseEffect`, `MemSetEffect`, ...), used for the invariant, for
the action properties and for the refinement. `ImplementsAllocator` maps a walk
to one step of `Allocator`: `Skip` stutters, and when `Reuse` or `Bump` happens
`WalkSound` says that every lower block could not serve, which is first fit.

`InterpProofs` (all leaves checked) holds for every program, every call limit of at
least one, every set of names and every bound on frames and scopes. `Interp` has
many actions and few ways to move its stack, so each action is first shown to be
one of nine moves (`ActionIsMove`: a frame moves on, opens or closes with its
scope, is put down or taken away without one, is abandoned by a failing `for`
header; the module enters and quits; the session is renewed), combined with what
happens to the signal (none, raised, passed on, landed). Each part of the
invariant is then proved once for each move. The inductive invariant adds two facts
to those the run checks. `Shaped`: the module is the first frame and no other,
and what it runs is a call; without it a `break` might find no frame it is for
and a frame that ends none to go back to. `Aimed`: while a signal is out there is a
frame it is for, and `due` is the height where that frame ends; this is what
`SignalsLand` compares with. Counting frames (`CountAppend`, `CountPop`) ties the
lengths of `stack` and `scopes` together: `InnerBalance` says that a frame and its
scope, a call and its depth, come and go together, and `Balance` that only a
failing `for` header breaks this, which gives `ScopesSuffice` and
`StaleFromForHeader`.

`CodegenProofs` (all leaves checked) holds for every program, every number of blocks,
frames, cases, names and declarations. As in `InterpProofs`, every action is first shown
to be one of a few moves (ten: a simple statement; a statement begins, with new blocks or
as a block; it turns to its next arm or case; it ends; the function returns, begins,
goes), and each part of the invariant is proved once for each move (`MoveKeeps`). `IInv`
adds to the invariants of the run: `Shaped`, that frames have the blocks that
their kind has, all distinct; `StillThere`, that as long as the block in which an arm or case
began is open, the builder is still in it, and nothing but blocks has been opened since.
This is why asking the *first* block of an arm, although it leaves blocks without a
terminator, never emits a second one: `OnlyRestsLate` rests on it. `Started`: an arm or
body begins in an open block. `Fresh` and `Apart` are `BlocksFresh` in two parts.
`ScopesMatch` keeps the history in step. The depth of a statement among the loops
is a cardinality, and `TallyNext` adds to it frame by frame. The action property
`OnlyArmsStrand` then follows move by move (`MoveStrands`).

`StructsProofs`: `LayoutsStaySound` for any names, fields and number of definitions, with
typedefs of any shape, by an invariant on the layout in progress (`Laid`: fields one behind
the other up to the offset reached, all alignments among 1, 2, 4 and 8).
`WritesStayInside` and `MembersReadBack` are about all variables and any order of the map.
A variable's block is as large as its struct was when it was declared (`BlockInv`). A path is
followed by a *track*: the structs it goes through and the address of each of its fields, with
the layouts taken as they were at the declaration, because `Clear` may come and go between
two writes while these stay. `MemberTracked` gives every member of a clear variable its
track, by induction along the path, and shows that reading and writing agree with it;
`TrackInBlock` keeps it in the block. `TracksApart` is the heart of reading back: where two
tracks part they are at two fields of one struct, which do not overlap, and all that follows
is inside these. `ReadInv` says, as long as no write has strayed, that blocks stand apart
and that each member that is remembered has a track that ends at its bytes; in `ReadAssign` a
write to another variable, to another member, or to the member itself keeps this, whatever
name it uses. When a write has strayed, nothing is remembered and there is nothing to show.
`AliasesAreExpanded` is a counting argument: a chain that goes on through more names than
there are typedefs meets one twice, and then its end is on a cycle; the iteration of
`resolve` is a recursive function over its steps. `Descent` has what this and the next
two need and the library states only with an operator for a parameter: a set of numbers
has a least, one that holds 0 and every successor holds all, and recursive functions over
`0 .. m` exist and agree.

`ReplProofs` holds for any names and any depth of nesting. The parser is a grammar: a step
puts a word of symbols in the place of one. Each word is shown once to be good in three
ways: it closes the brackets it opens; it has the shape a stack must keep (the tests for a
name stand where a name was read); and in front of the first token it expects it holds
nothing that asks for an operand, a type or a path, unless a token that is not calm was
read for it. `RewritesKeep` carries these over to the stack for all steps alike. `ReplInv`
says the same of the kept stack, because an input that is kept goes back to it, and knows
what a verdict has left behind. `BracketsAlwaysMatch` counts the brackets with a recursive
function along the stack, by induction over its positions. `NamesAssumption` says that a
program's names are none of the symbols of the model.

`SyntaxProofs` is about the lexer and the expression parser. Its first part holds for
every text, of any length and any characters, as sequences of which none is the mark for the
end (`TextsAssumption`). Of the classes of characters it uses
that they do not meet (`Marks`, `RadixMarks`, `WordMarks`, `QuoteMarks`, ...), so other
members would do. A loop of the lexer ends at the first character that is not of its class
(`AfterIsRun`), and a lexeme of the definition that reaches further would have that
character inside (`RunEnds`); numbers take most of the work, since `1.5e+3` has three such
places and `0x` none of them. `LexInv` adds to the two properties what holds in between:
the text up to here is cut into tokens and a gap (`GapSoFar`), and what was read of a string
could be its beginning, with the parity of backslashes at the position even
(`StringSoFar`). `Syntax` runs the same steps (`Lex`) on the texts of `Texts` and on those it
prints; the theorems are on `LexSpec`, which has any set of texts.

The second part is about `Pratt` on `ParseSpec`, where the tokens are any list that ends where
the file does, of any kinds and words, from this lexer or not. `ExpressionsAreDerived` is one
half of what is asked of a parser: it never makes an expression that the grammar does not
give to its tokens. `Derived` is not inductive. `ParseInv` has four parts. `Typed` is the shape of
the state. `Rules` is `Derived` for what was made. `Waits` says of each frame that the
operands it has are an expression begun as the grammar has it, up to the word in front of the
operand that is read now; frames lie one inside the next. `AtHand` says the same of `lhs`,
and compares two numbers. One is how strongly the token at hand takes hold of what is in front
of it (`Power`: a postfix operator or a bracket with 40, an infix operator with its `l_bp`); the
other is how strong a token may be that an expression has left alone (`Bound`: the level of
its operator for a binary one, 29 for a prefix, 0 for an assignment or a conditional, which end
with anything). `Power` never exceeds `Bound`, because the inner call that read the last operand
has left the token alone, and left it alone with a `min_bp` of one more; so whatever the
outer loop builds around `lhs` next may have it as its left operand. The binding power of each
call (`InnerBp`) is the level that the grammar asks of its right operand. Each action is one of five
moves: an expression is made at once (`YieldKeeps`), waits for an operand (`OpenKeeps`), ends
(`EndKeeps`), turns to its next operand (`AnotherKeeps`), or is refused (`RefuseKeeps`).
`TreesAreDerivations` says more of a tree that is returned: together with `nodes` it is a
derivation (`Derivation`), so no expression was made in vain and none was used twice, and
they stand in the order in which they end. Its invariant, `Found`, gives each expression
the place where its own operands begin in `nodes` (`low`), and lines up those that the
frames hold: each begins where the one before it ends (`InOrder`). `Rests` adds that the
token behind the tree has no power.

`DerivationsAreFound` is the other half: when the first tokens have a derivation `ns` and the
token behind them has no power, no step is a refusal, and what is returned is `ns`, the
cursor where it ends. With `TreesAreDerivations`: a run that returns has found a derivation of
the tokens it took, and there was no other. The invariant, `Reached`, says how far the parser has come in the
tree `ns` that it does not know (`Follows`): what is made so far is a beginning of `ns`. Each
call has an expression of `ns` to return, its goal, which is what a call with its binding power
reads, all of it and no more (`Fits`); each frame has the expression it will become, its
aim, which has its operands so far (`Pending`) and stands on the left edge of the goal
(`Spine`). The core is `HeldBinds`: the token at hand binds just when `lhs` is not yet the
goal. `BeginsOnce`, `GivenBehind` and `GivenNext` say that two rules which begin alike are told
apart by the token the parser looks at. The one hypothesis on the tokens, `Lexed`, is that those
called keywords are keywords and the operators are none; `TokensAreLexed` proves it of what
the lexer makes of any text. Not proved is that the parser returns at all:
`ParserComesToAnEnd` bounds its steps, but that there always is a next one is a matter of
`ENABLED`.

`ParserComesToAnEnd` follows from the same invariant as `ExpressionsAreDerived`,
with the measure `2 * at - Len(frames)`: a call takes a token for its frame, a return gives up the
frame, and the cursor cannot pass the token that ends the list, since every token taken is of
another kind.

`StdlibProofs`: any number of threads, files, captures. A descriptor in the table, taken
by a thread in the middle of `FileOpen`, or closed, is below `NEXT_FD` (`FilesInv`), which
gives both theorems on descriptors. `CaptureInv` adds to the two properties on capture
what every suspended closure's buffer holds: the saved sinks, each above the other,
are the outputs of the closures around it, and the outermost is stdout unless a panic
was there first.

Assumptions are those named in the modules (`ASSUME`), all on the constants. Nothing is
assumed about steps.

`TypeOK` of `Codegen` and of `Repl` is proved and not checked by a run (`TypeCorrect`,
`ReplTypes`); it is a conjunct of the inductive invariants.

Only model-checked: liveness (`AllocReturns`, `SignalsEnd`, `LinesAnswered`), which is out
of the prover's reach; `ReadsGrammar`, and the contract of the formatter (`FormatsTame`). What the
parser has to do for the first is proved (`DerivationsAreFound`); that the text `Reference`
prints for a tree is lexed into tokens of which that tree is the derivation is not. The
printers of these two and `Tree`, which takes an expression out of `nodes`, are recursive over
trees, and what they compute for every tree needs induction over trees.

## Not modelled, and the plan

What could be added, in this order:

1. `Interp` with values: lookups through the scopes, assignments, truth; on top of it
   string literals and struct variables as calls of `Heap` (`Heap`, `Structs` and `Interp`
   composed).
2. `Codegen` with expressions that have effects, and the meaning of its blocks against
   that of `Interp`: fall-through, `continue` in a switch, `&&` and `?:`, which the two back
   ends treat differently. Needs 1.
3. `Lsp`: the document store with its notifications, shutdown and the framing of messages.
4. Arithmetic on narrow integers: indices, `RandI64`, rounding near 2^64.
5. `ReadsGrammar` for trees of any depth: that the text `Reference` prints has a derivation,
   which `DerivationsAreFound` then finds. Needs the printer without recursion.

Not modelled:

- Values of expressions. Everything the interpreter does with control is there for any
  value; the numeric hazards in `PROJECT.json` that have no property are about values.
- Types, globals and intrinsics of the compiler, and what LLVM makes of its blocks.
- The language server (`holyc_lsp/src/main.rs`): one thread that answers messages in order.
- Statements in the formatter: they are printed line by line and depend on no state.
- Lines and columns of tokens, the values of literals and their overflow.
- Contents of files, errors of the host, and negative lengths: `FileRead` with one
  panics on the allocation of its buffer, which ends the thread.
- Math, string and random builtins, `printf` rendering, the TempleOS shims: functions of
  their arguments, or one generator.
- Argument parsing of the command lines, diagnostics text, editor grammars, CI: no state, or
  no property but their wording.
