---------------------------------- MODULE Heap ----------------------------------
(***************************************************************************)
(* The interpreter heap (holyc_interpreter/src/heap.rs): one byte buffer   *)
(* in which every block is an 8-byte header followed by its data.  A free  *)
(* block is found again by walking the headers from the bottom; a request  *)
(* no free block can serve is carved at the bump mark; nothing is ever     *)
(* split, merged or moved.                                                 *)
(*                                                                         *)
(* Memory is a function over 8-byte words: HEADER_SIZE and ALIGN are both  *)
(* 8, so headers and data regions start on word boundaries.  Sizes are in  *)
(* words, requests in bytes.  A word has no tag that says whether it is a  *)
(* header: read_from decodes whatever eight bytes it is pointed at, so a   *)
(* word is the pair a header decodes to, and the all-zero word is Zero.    *)
(*                                                                         *)
(* The program that calls the heap holds the pointers it was given and may *)
(* use each of them for ever, also after the block was freed and handed    *)
(* out again: through it, it writes the words it once asked for, and frees *)
(* it a second time.  It never writes past what it asked for.              *)
(***************************************************************************)
EXTENDS Integers, FiniteSets

CONSTANTS
  Capacity,      \* words in the buffer (buf.len() \div 8)
  RequestSizes,  \* the sizes, in bytes, that the program asks for
  SizeSpan,      \* header sizes are kept modulo this many words (u32 bytes)
  Junk           \* the nonzero words a program may store

ASSUME CapacityAssumption == Capacity \in Nat \ {0}
ASSUME RequestAssumption  == RequestSizes \subseteq Nat
\* A block larger than u32::MAX would be recorded with a truncated size.
ASSUME SizeSpanAssumption == SizeSpan \in Nat /\ Capacity < SizeSpan

\* What Header::read_from makes of eight bytes.
Header == [size : Nat, free : BOOLEAN]

ASSUME JunkAssumption == Junk \subseteq Header

VARIABLES
  mem,     \* the buffer: word -> decoded word
  bump,    \* first word never handed out (byte offset 1 before any block)
  live,    \* the counter behind live_allocs()
  pc,      \* "idle", or "walk" while alloc is inside find_free
  pos,     \* find_free: the header to look at next
  want,    \* alloc: the request, rounded up to words
  text,    \* alloc was called by intern_str, which stores a string next
  ret,     \* the result of the last call that returned
  heads,   \* history: where alloc has put a header
  reach,   \* history: the most words the program asked for at a pointer
  owned,   \* history: pointers granted and not freed since
  misused  \* history: a block was freed through a pointer already freed

heap   == <<mem, bump, live>>
call   == <<pc, pos, want, text>>
client == <<reach, owned, misused>>
vars   == <<mem, bump, live, pc, pos, want, text, ret, heads, reach, owned, misused>>

Words == 0 .. Capacity - 1
Zero  == [size |-> 0, free |-> FALSE]

\* align_up(size, ALIGN), in words.
AlignUp(bytes) == (bytes + 7) \div 8

\* The words of a data region.
Region(p, n) == p .. (p + n - 1)

\* Where the walk goes after the block whose header is at h.
NextHeader(h) == h + 1 + mem[h].size

\* Faults: the comparison made strict; the size not compared at all.
FaultFitsStrict(h, n)  == mem[h].free /\ mem[h].size > n
FaultFitsAnySize(h, n) == mem[h].free

\* find_free takes the block.
Fits(h, n) == mem[h].free /\ mem[h].size >= n

Granted == {p \in Words : reach[p] > 0}

\* Every way a call returns.
Done(result) == ret' = result
Ptr(p)   == [kind |-> "ptr", ptr |-> p]
Sentinel == [kind |-> "sentinel", ptr |-> 0]   \* byte offset 1, from MAlloc(0)
Ok       == [kind |-> "ok", ptr |-> 0]
Err      == [kind |-> "error", ptr |-> 0]
Oom      == [kind |-> "oom", ptr |-> 0]        \* the error "out of heap memory"

Results == [kind : {"ptr", "sentinel", "ok", "error", "oom"}, ptr : Words]

Init ==
  /\ mem = [i \in Words |-> Zero]
  /\ bump = 1 /\ live = 0
  /\ pc = "idle" /\ pos = 1 /\ want = 0 /\ text = FALSE
  /\ ret = Ok
  /\ heads = {}
  /\ reach = [i \in Words |-> 0] /\ owned = {} /\ misused = FALSE
-----------------------------------------------------------------------------
(* MAlloc, a struct variable or a string literal: alloc.                   *)

\* A request of no bytes is answered without looking at the heap.
AllocZero ==
  /\ pc = "idle" /\ 0 \in RequestSizes
  /\ Done(Sentinel)
  /\ UNCHANGED <<heap, call, client, heads>>

\* Fault: next-fit, the walk resumes where the last one stopped.
FaultResumeWalk(bytes, isText) ==
  /\ pc = "idle" /\ bytes > 0
  /\ pc' = "walk" /\ want' = AlignUp(bytes) /\ text' = isText
  /\ UNCHANGED <<heap, pos, ret, client, heads>>

AllocStart(bytes, isText) ==
  /\ pc = "idle" /\ bytes > 0
  /\ pc' = "walk" /\ pos' = 1 /\ want' = AlignUp(bytes) /\ text' = isText
  /\ UNCHANGED <<heap, ret, client, heads>>

\* Whether find_free has another header below the bump mark.
AtHeader == pos + 1 <= bump

\* Fault: the advance forgets the header.
FaultSkipNoHeader ==
  /\ pc = "walk" /\ AtHeader /\ ~Fits(pos, want)
  /\ pos' = pos + mem[pos].size
  /\ UNCHANGED <<heap, pc, want, text, ret, client, heads>>

Skip ==
  /\ pc = "walk" /\ AtHeader /\ ~Fits(pos, want)
  /\ pos' = NextHeader(pos)
  /\ UNCHANGED <<heap, pc, want, text, ret, client, heads>>

\* The caller gets p; intern_str stores its text before anything else runs.
Grant(p) ==
  /\ pc' = "idle" /\ Done(Ptr(p))
  /\ owned' = owned \cup {p}
  /\ reach' = [reach EXCEPT ![p] = IF @ > want THEN @ ELSE want]
  /\ UNCHANGED <<pos, want, text, misused>>

\* Fault: memory is handed out as it is.
FaultNotCleared(m, p, isText) ==
  IF isText
  THEN \E c \in Junk : mem' = [i \in Words |-> IF i \in Region(p, want) THEN c ELSE m[i]]
  ELSE mem' = m

\* The data words after the call: cleared, and for intern_str filled.
Filled(m, p, isText) ==
  IF isText
  THEN \E c \in Junk : mem' = [i \in Words |-> IF i \in Region(p, want) THEN c ELSE m[i]]
  ELSE mem' = [i \in Words |-> IF i \in Region(p, want) THEN Zero ELSE m[i]]

\* Faults: the header is cut down to the request; the block stays marked free.
FaultReuseShrinks ==
  /\ pc = "walk" /\ AtHeader /\ Fits(pos, want)
  /\ Filled([mem EXCEPT ![pos] = [size |-> want, free |-> FALSE]], pos + 1, text)
  /\ live' = live + 1
  /\ Grant(pos + 1)
  /\ UNCHANGED <<bump, heads>>

FaultReuseStaysFree ==
  /\ pc = "walk" /\ AtHeader /\ Fits(pos, want)
  /\ Filled(mem, pos + 1, text)
  /\ live' = live + 1
  /\ Grant(pos + 1)
  /\ UNCHANGED <<bump, heads>>

\* find_free hands out the first block that fits: whole, however large.
Reuse ==
  /\ pc = "walk" /\ AtHeader /\ Fits(pos, want)
  /\ Filled([mem EXCEPT ![pos].free = FALSE], pos + 1, text)
  /\ live' = live + 1
  /\ Grant(pos + 1)
  /\ UNCHANGED <<bump, heads>>

End == bump + 1 + want

\* Faults: the bound is not checked; the mark is left one word low.
FaultBumpUnchecked ==
  /\ pc = "walk" /\ ~AtHeader
  /\ Filled([mem EXCEPT ![bump] = [size |-> want % SizeSpan, free |-> FALSE]],
            bump + 1, text)
  /\ bump' = End /\ live' = live + 1
  /\ heads' = heads \cup {bump}
  /\ Grant(bump + 1)

FaultBumpLow ==
  /\ pc = "walk" /\ ~AtHeader /\ End <= Capacity
  /\ Filled([mem EXCEPT ![bump] = [size |-> want % SizeSpan, free |-> FALSE]],
            bump + 1, text)
  /\ bump' = End - 1 /\ live' = live + 1
  /\ heads' = heads \cup {bump}
  /\ Grant(bump + 1)

Bump ==
  /\ pc = "walk" /\ ~AtHeader /\ End <= Capacity
  /\ Filled([mem EXCEPT ![bump] = [size |-> want % SizeSpan, free |-> FALSE]],
            bump + 1, text)
  /\ bump' = End /\ live' = live + 1
  /\ heads' = heads \cup {bump}
  /\ Grant(bump + 1)

OutOfMemory ==
  /\ pc = "walk" /\ ~AtHeader /\ End > Capacity
  /\ pc' = "idle" /\ Done(Oom)
  /\ UNCHANGED <<heap, pos, want, text, client, heads>>
-----------------------------------------------------------------------------
(* Free.                                                                   *)

FreeNull ==
  /\ pc = "idle"
  /\ Done(Ok)
  /\ UNCHANGED <<heap, call, client, heads>>

\* ptr - HEADER_SIZE wraps below zero, past the end of the buffer.
FreeSentinel ==
  /\ pc = "idle" /\ 0 \in RequestSizes
  /\ Done(Err)
  /\ UNCHANGED <<heap, call, client, heads>>

\* Fault: a block already free is freed again.
FaultFreeTwice(p) ==
  /\ pc = "idle"
  /\ mem' = [mem EXCEPT ![p - 1].free = TRUE]
  /\ live' = IF live = 0 THEN 0 ELSE live - 1
  /\ owned' = owned \ {p}
  /\ misused' = (misused \/ p \notin owned)
  /\ Done(Ok)
  /\ UNCHANGED <<bump, reach, call, heads>>

Free(p) ==
  /\ pc = "idle"
  /\ IF mem[p - 1].free
     THEN Done(Err) /\ UNCHANGED <<heap, client>>
     ELSE /\ mem' = [mem EXCEPT ![p - 1].free = TRUE]
          /\ live' = IF live = 0 THEN 0 ELSE live - 1
          /\ owned' = owned \ {p}
          /\ misused' = (misused \/ p \notin owned)
          /\ Done(Ok)
          /\ UNCHANGED <<bump, reach>>
  /\ UNCHANGED <<call, heads>>
-----------------------------------------------------------------------------
(* Memory access.                                                          *)

CheckBounds(p, n) == p # 0 /\ (n = 0 \/ p + n <= Capacity)

\* Fault: the last word is included.
FaultMemSetInclusive(p, n, v) ==
  /\ pc = "idle"
  /\ IF CheckBounds(p, n)
     THEN /\ mem' = [i \in Words |-> IF i \in p .. p + n THEN v ELSE mem[i]]
          /\ Done(Ok)
     ELSE UNCHANGED mem /\ Done(Err)
  /\ UNCHANGED <<bump, live, call, client, heads>>

\* write_uint is MemSet of one word.
MemSet(p, n, v) ==
  /\ pc = "idle"
  /\ IF CheckBounds(p, n)
     THEN /\ mem' = [i \in Words |-> IF i \in Region(p, n) THEN v ELSE mem[i]]
          /\ Done(Ok)
     ELSE UNCHANGED mem /\ Done(Err)
  /\ UNCHANGED <<bump, live, call, client, heads>>

MemCpy(dst, src, n) ==
  /\ pc = "idle"
  /\ IF CheckBounds(src, n) /\ CheckBounds(dst, n)
     THEN /\ mem' = [i \in Words |->
                       IF i \in Region(dst, n) THEN mem[src + (i - dst)] ELSE mem[i]]
          /\ Done(Ok)
     ELSE UNCHANGED mem /\ Done(Err)
  /\ UNCHANGED <<bump, live, call, client, heads>>
-----------------------------------------------------------------------------
\* What a program may name: a part of a region it was given, or NULL.
Slice(p, n) == p = 0 \/ \E q \in Granted : q <= p /\ p + n <= q + reach[q]

Walk == Skip \/ Reuse \/ Bump \/ OutOfMemory

Next ==
  \/ AllocZero
  \/ \E bytes \in RequestSizes, isText \in BOOLEAN : AllocStart(bytes, isText)
  \/ Skip \/ Reuse \/ Bump \/ OutOfMemory
  \/ FreeNull
  \/ FreeSentinel
  \/ \E p \in Granted : Free(p)
  \/ \E p, n \in Words, v \in Junk \cup {Zero} : Slice(p, n) /\ MemSet(p, n, v)
  \/ \E d, s, n \in Words : Slice(d, n) /\ Slice(s, n) /\ MemCpy(d, s, n)

\* The walk is a loop inside one call: nothing preempts it.
Spec == Init /\ [][Next]_vars /\ WF_vars(Walk)
-----------------------------------------------------------------------------
(* What the heap promises.                                                 *)

\* The state has its shape.
TypeOK ==
  /\ mem \in [Words -> Header]
  /\ bump \in 1 .. Capacity
  /\ live \in Nat
  /\ pc \in {"idle", "walk"} /\ pos \in Nat /\ want \in Nat /\ text \in BOOLEAN
  /\ ret \in Results
  /\ heads \in SUBSET Words
  /\ reach \in [Words -> Nat] /\ owned \in SUBSET Words /\ misused \in BOOLEAN

\* The blocks tile the buffer from word 1 to the bump mark: each header's size
\* leads exactly to the next header or to the mark, so no two blocks overlap and
\* the walk of find_free never reads data as a header, whatever was freed, reused
\* for a smaller request, or written through a pointer already freed.
BlocksTile ==
  /\ 1 \in heads \cup {bump}
  /\ \A h \in heads : 0 < h /\ h < bump /\ mem[h].size > 0
  /\ \A h \in heads : NextHeader(h) \in heads \cup {bump}
  /\ \A g, h \in heads : g < h => NextHeader(g) <= h

\* The counter behind live_allocs() is the number of blocks not marked free, so
\* the saturating decrement in free never saturates.
LiveCounts == live = Cardinality({h \in heads : ~mem[h].free})

\* find_free stands on a header or at the mark, and every block it has left
\* behind could not serve the request: the free list is searched completely
\* before the heap grows or gives up.
WalkSound ==
  pc = "walk" =>
    /\ pos \in heads \cup {bump}
    /\ \A h \in heads : h < pos => ~Fits(h, want)

\* Pointers lead to blocks large enough for what was asked through them.
ReachWithinBlock ==
  /\ \A p \in Granted : p - 1 \in heads /\ reach[p] <= mem[p - 1].size
  /\ owned \subseteq Granted

\* As long as the program frees no pointer twice after its block was handed out
\* again, the blocks in use are exactly the ones it still owns: none is given to
\* two owners and none is lost.
OwnedInUse ==
  ~misused => {h \in heads : ~mem[h].free} = {p - 1 : p \in owned}

\* A call to alloc that returns a pointer.
Granting(p) == pc = "walk" /\ pc' = "idle" /\ ret' = Ptr(p)

\* A plain allocation is zero over every word asked for, in reused blocks too.
FreshZeroed ==
  [][\A p \in Words : Granting(p) /\ ~text =>
       \A i \in Region(p, want) : mem'[i] = Zero]_vars

\* Serving a request never changes a word, header or data, of a block the program
\* still owns, nor hands out such a block.
LiveDataKept ==
  [][pc = "walk" /\ ~misused =>
       \A p \in owned : /\ ~Granting(p)
                        /\ \A i \in Region(p - 1, mem[p - 1].size + 1) :
                             mem'[i] = mem[i]]_vars

\* Blocks are never split, merged, moved or resized, and only alloc and free touch
\* a header: a stray write through a freed pointer cannot.
BlocksPermanent ==
  [][/\ heads \subseteq heads'
     /\ \A h \in heads : mem'[h].size = mem[h].size
     /\ \A h \in heads : mem'[h].free # mem[h].free =>
          \/ pc = "walk" /\ Granting(h + 1)
          \/ pc = "idle" /\ live' = live - 1]_vars

\* find_free's loop ends: every call to alloc returns.
AllocReturns == pc = "walk" ~> pc = "idle"

Blocks    == {h + 1 : h \in heads}
BlockSize == [p \in Blocks |-> mem[p - 1].size]
InUse     == {p \in Blocks : ~mem[p - 1].free}
Requests  == {AlignUp(b) : b \in RequestSizes \ {0}}

Promise == INSTANCE Allocator WITH
  Sizes <- Requests, size <- BlockSize, used <- InUse, top <- bump, reply <- ret

\* The walk, step by step over real headers, serves every request as the abstract
\* allocator does in one step: lowest fitting block first, the heap grows only
\* when none fits, and a request is refused only when it cannot grow.
FirstFit == Promise!Spec

\* docs/stdlib.md:32 on MAlloc: "returns pointer or NULL on OOM".
NullOnOutOfMemory == [][pc = "walk" /\ ~text /\ pc' = "idle" => ret'.kind = "ptr"]_vars
=============================================================================
