-------------------------------- MODULE Capture --------------------------------
(***************************************************************************)
(* The capture of output (holyc_stdlib/src/capture.rs), for each thread:   *)
(* with_capture puts a new buffer into SINK, runs its closure, and puts    *)
(* back what was there, unless the closure panics.  Text is counted.       *)
(***************************************************************************)
EXTENDS Integers, Sequences, Process

CONSTANTS
  MaxDepth,  \* calls of with_capture in one another
  MaxText    \* pieces of text in a buffer

VARIABLES
  sink,     \* SINK of each thread: the length of its buffer, -1 for none
  saved,    \* prev of each call of with_capture, the outermost first
  own,      \* what was output inside each, but outside those inside it (history)
  lost      \* a panic went through with_capture in this thread (history)

captureVars == <<sink, saved, own, lost>>

Stdout == -1
CaptureInit ==
  /\ sink = [t \in Threads |-> Stdout] /\ saved = [t \in Threads |-> <<>>]
  /\ own = [t \in Threads |-> <<>>] /\ lost = [t \in Threads |-> FALSE]

Front(w)   == SubSeq(w, 1, Len(w) - 1)
Counted(w) == [w EXCEPT ![Len(w)] = @ + 1]

Output(t) ==
  /\ sink[t] < MaxText
  /\ sink' = [sink EXCEPT ![t] = IF @ = Stdout THEN Stdout ELSE @ + 1]
  /\ own' = [own EXCEPT ![t] = IF @ = <<>> THEN <<>> ELSE Counted(@)]
  /\ UNCHANGED <<saved, lost>>

EnterCapture(t) ==
  /\ Len(saved[t]) < MaxDepth
  /\ saved' = [saved EXCEPT ![t] = Append(@, sink[t])]
  /\ sink' = [sink EXCEPT ![t] = 0]
  /\ own' = [own EXCEPT ![t] = Append(@, 0)]
  /\ UNCHANGED lost

\* Fault: what was there before is not put back.
FaultLeaveCapture(t) ==
  /\ saved[t] # <<>>
  /\ sink' = [sink EXCEPT ![t] = Stdout]
  /\ saved' = [saved EXCEPT ![t] = Front(@)] /\ own' = [own EXCEPT ![t] = Front(@)]
  /\ UNCHANGED lost

LeaveCapture(t) ==
  /\ saved[t] # <<>>
  /\ sink' = [sink EXCEPT ![t] = saved[t][Len(saved[t])]]
  /\ saved' = [saved EXCEPT ![t] = Front(@)] /\ own' = [own EXCEPT ![t] = Front(@)]
  /\ UNCHANGED lost

\* A panic is caught outside all calls, as the test harness does; SINK stays as it is.
Panic(t) ==
  /\ saved[t] # <<>>
  /\ saved' = [saved EXCEPT ![t] = <<>>] /\ own' = [own EXCEPT ![t] = <<>>]
  /\ lost' = [lost EXCEPT ![t] = TRUE]
  /\ UNCHANGED sink

CaptureStep(t) == Output(t) \/ EnterCapture(t) \/ LeaveCapture(t) \/ Panic(t)
-----------------------------------------------------------------------------
\* Inside with_capture the buffer holds what its closure has output itself, whatever
\* the calls inside it and those of other threads did, and whatever panicked before.
OwnOutput == \A t \in Threads : saved[t] # <<>> => sink[t] = own[t][Len(own[t])]

\* Outside, output goes to stdout until a panic has passed through with_capture in the
\* thread; from then on it goes into a buffer nobody reads.
StdoutUntilPanic == \A t \in Threads : saved[t] = <<>> => (sink[t] = Stdout <=> ~ lost[t])
=============================================================================
