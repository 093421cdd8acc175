-------------------------------- MODULE MCInterp --------------------------------
(***************************************************************************)
(* The interpreter on programs with one name and calls two deep: enough    *)
(* for a call out of every kind of expression into every kind of           *)
(* statement, and for a session to carry stale scopes into later inputs.   *)
(***************************************************************************)
EXTENDS Interp

MCNames == {"x"}
=============================================================================
