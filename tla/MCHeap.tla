--------------------------------- MODULE MCHeap ---------------------------------
(***************************************************************************)
(* The heap on a buffer of a few words.  The one nonzero word a program    *)
(* stores is the one that would do most harm if it were read as a header:  *)
(* a free block of one word.                                               *)
(***************************************************************************)
EXTENDS Heap

MCJunk == {[size |-> 1, free |-> TRUE]}
=============================================================================
