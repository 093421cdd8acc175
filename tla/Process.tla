-------------------------------- MODULE Process --------------------------------
(***************************************************************************)
(* The threads of a process that runs HolyC programs: those of the test    *)
(* harness, each with interpreters of its own.                             *)
(***************************************************************************)
CONSTANT Threads
=============================================================================
