------------------------------- MODULE MCStructs -------------------------------
(***************************************************************************)
(* Two classes with three fields and typedefs in all, under two names:     *)
(* nested, redefined, empty, with a field of the same name, or in a cycle  *)
(* of typedefs.  Two variables, in a buffer that ends behind their blocks. *)
(* Neither names nor fields nor variables are compared but for equality.   *)
(***************************************************************************)
EXTENDS Structs, TLC

MCMemory == 1 .. 39
Alike == Permutations(Names) \cup Permutations(Fields) \cup Permutations(Vars)
=============================================================================
