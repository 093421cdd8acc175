-------------------------------- MODULE MCStdlib --------------------------------
(***************************************************************************)
(* Two threads, which differ in nothing.                                   *)
(***************************************************************************)
EXTENDS Stdlib, TLC

Alike == Permutations(Threads)
=============================================================================
