--------------------------------- MODULE MCRepl ---------------------------------
(***************************************************************************)
(* Two names: one may become a type while the other is none.               *)
(***************************************************************************)
EXTENDS Repl
=============================================================================
