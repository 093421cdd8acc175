--------------------------------- MODULE Stdlib ---------------------------------
(***************************************************************************)
(* What the builtins keep outside the interpreter: a table of files for    *)
(* the process, and a sink of output for each thread.                      *)
(***************************************************************************)
EXTENDS Files, Capture

vars == <<fileVars, captureVars>>

Init == FilesInit /\ CaptureInit

Next == \E t \in Threads : \/ FileStep(t) /\ UNCHANGED captureVars
                           \/ CaptureStep(t) /\ UNCHANGED fileVars

Spec == Init /\ [][Next]_vars
=============================================================================
