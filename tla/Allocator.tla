-------------------------------- MODULE Allocator --------------------------------
(***************************************************************************)
(* What the interpreter heap promises its callers, with the walk, the      *)
(* headers and the contents of memory left out: a set of blocks, each used *)
(* or not; a request takes the lowest unused block that is large enough    *)
(* and a new block at the top only when there is none; it is refused only  *)
(* when the top has no room either; a block is released once.              *)
(***************************************************************************)
EXTENDS Integers

CONSTANTS
  Capacity,  \* words that blocks and their headers may take
  Sizes      \* the sizes, in words, of the requests

VARIABLES
  size,   \* block -> its size, a function on the blocks made so far
  used,   \* the blocks handed out
  top,    \* the first word above all blocks
  reply   \* the result of the last call

vars == <<size, used, top, reply>>

Init ==
  /\ size = [p \in {} |-> 0] /\ used = {} /\ top = 1
  /\ reply = [kind |-> "ok", ptr |-> 0]

Candidates(n) == {p \in DOMAIN size : p \notin used /\ size[p] >= n}

Hand(p) == used' = used \cup {p} /\ reply' = [kind |-> "ptr", ptr |-> p]

Reuse(n) ==
  \E p \in Candidates(n) :
    /\ \A q \in Candidates(n) : p <= q
    /\ Hand(p)
    /\ UNCHANGED <<size, top>>

Extend(n) ==
  /\ Candidates(n) = {} /\ top + 1 + n <= Capacity
  /\ size' = [p \in DOMAIN size \cup {top + 1} |-> IF p = top + 1 THEN n ELSE size[p]]
  /\ top' = top + 1 + n
  /\ Hand(top + 1)

Refuse(n) ==
  /\ Candidates(n) = {} /\ top + 1 + n > Capacity
  /\ reply' = [kind |-> "oom", ptr |-> 0]
  /\ UNCHANGED <<size, used, top>>

Release(p) ==
  /\ used' = used \ {p}
  /\ reply' = [kind |-> "ok", ptr |-> 0]
  /\ UNCHANGED <<size, top>>

\* Every other call, and a second release, leaves the blocks alone.
Other ==
  /\ reply' \in [kind : {"sentinel", "ok", "error"}, ptr : {0}]
  /\ UNCHANGED <<size, used, top>>

Next ==
  \/ \E n \in Sizes : Reuse(n) \/ Extend(n) \/ Refuse(n)
  \/ \E p \in used : Release(p)
  \/ Other

Spec == Init /\ [][Next]_vars
=============================================================================
