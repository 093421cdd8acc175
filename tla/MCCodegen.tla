------------------------------- MODULE MCCodegen -------------------------------
(***************************************************************************)
(* The emitter on functions with one name, statements nested three deep    *)
(* and blocks enough for any statement to be inside any other.             *)
(***************************************************************************)
EXTENDS Codegen

MCNames == {"x"}
=============================================================================
