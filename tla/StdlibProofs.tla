------------------------------ MODULE StdlibProofs ------------------------------
(***************************************************************************)
(* The properties of the file table and of the capture of output, for any  *)
(* number of threads, files, descriptors and nested captures.              *)
(***************************************************************************)
EXTENDS Stdlib, SequenceTheorems, TLAPS

\* Files without their types: the three ways a FileOpen can stand, descriptors that were
\* never given out lie above all that were.
Openings == {NotOpening} \cup [at : {"file"}, path : Paths, flags : Flags]
                         \cup [at : {"fd"}, fd : Int, path : Paths, flags : Flags]

FilesInv ==
  /\ opening \in [Threads -> Openings]
  /\ nextFd \in Int
  /\ \A fd \in DOMAIN table \cup Taken \cup closed : fd \in Int /\ fd < nextFd
  /\ DescriptorsDistinct
  /\ ClosedStaysClosed

LEMMA FilesStart == Init => FilesInv
BY SMT DEF Init, FilesInit, FilesInv, Openings, NotOpening, DescriptorsDistinct, ClosedStaysClosed, Taken

\* A FileOpen takes the next number, which is above all that were given out.
LEMMA AllocFdKeeps == ASSUME FilesInv, NEW t \in Threads, AllocFd(t) PROVE FilesInv'
<1>1. opening[t] \in Openings /\ opening[t].at = "file"
  BY SMT DEF FilesInv, AllocFd
<1>2. opening[t] \in [at : {"file"}, path : Paths, flags : Flags]
  BY <1>1, SMT DEF Openings, NotOpening
<1>3. /\ opening' = [opening EXCEPT ![t] = [at |-> "fd", fd |-> nextFd, path |-> opening[t].path, flags |-> opening[t].flags]]
      /\ nextFd' = nextFd + 1 /\ table' = table /\ closed' = closed
  BY SMT DEF AllocFd, Take, FilesInv
<1>4. opening' \in [Threads -> Openings] /\ nextFd' \in Int
  BY <1>2, <1>3, SMT DEF FilesInv, Openings
<1>5. Taken' = Taken \cup {nextFd}
  BY <1>1, <1>3, SMT DEF Taken, FilesInv
<1>6. \A u \in Threads : u # t => opening'[u] = opening[u]
  BY <1>3, SMT DEF FilesInv
<1>7. \A u \in Threads : opening[u].at = "fd" => opening[u].fd # nextFd
  BY SMT DEF FilesInv, Taken
<1>8. opening'[t].fd = nextFd
  BY <1>3, SMT DEF FilesInv
<1>9. \A fd \in (DOMAIN table \cup Taken \cup closed)' : fd \in Int /\ fd < nextFd'
  BY <1>3, <1>5, SMT DEF FilesInv
<1>10. DescriptorsDistinct'
  <2>1. (Taken \cap DOMAIN table = {})'
    BY <1>3, <1>5, SMT DEF FilesInv, DescriptorsDistinct
  <2>2. ASSUME NEW u \in Threads, NEW v \in Threads,
               opening'[u].at = "fd", opening'[v].at = "fd", opening'[u].fd = opening'[v].fd
        PROVE  u = v
    BY <2>2, <1>6, <1>7, <1>8, SMT DEF FilesInv, DescriptorsDistinct
  <2> QED BY <2>1, <2>2 DEF DescriptorsDistinct
<1>11. ClosedStaysClosed'
  BY <1>3, <1>5, SMT DEF FilesInv, ClosedStaysClosed
<1> QED BY <1>4, <1>9, <1>10, <1>11 DEF FilesInv

LEMMA InsertKeeps == ASSUME FilesInv, NEW t \in Threads, Insert(t) PROVE FilesInv'
<1>1. opening[t] \in Openings /\ opening[t].at = "fd"
  BY SMT DEF FilesInv, Insert
<1> DEFINE f == opening[t].fd
<1>2. /\ opening' = [opening EXCEPT ![t] = NotOpening] /\ nextFd' = nextFd /\ closed' = closed
      /\ DOMAIN table' = DOMAIN table \cup {f}
  BY SMT DEF Insert
<1>3. opening' \in [Threads -> Openings]
  BY <1>2, SMT DEF FilesInv, Openings
<1>4. opening'[t] = NotOpening /\ \A u \in Threads : u # t => opening'[u] = opening[u]
  BY <1>2, SMT DEF FilesInv
<1>5. f \in Taken
  BY <1>1 DEF Taken
<1>6. Taken' \subseteq Taken \ {f}
  <2>1. ASSUME NEW u \in Threads, opening'[u].at = "fd" PROVE u # t
    BY <2>1, <1>4, SMT DEF NotOpening
  <2>2. ASSUME NEW u \in Threads, opening'[u].at = "fd" PROVE opening'[u].fd \in Taken \ {f}
    BY <2>1, <2>2, <1>1, <1>4, SMT DEF FilesInv, DescriptorsDistinct, Taken
  <2> QED BY <2>2 DEF Taken
<1>7. \A fd \in (DOMAIN table \cup Taken \cup closed)' : fd \in Int /\ fd < nextFd'
  BY <1>2, <1>5, <1>6, SMT DEF FilesInv
<1>8. DescriptorsDistinct'
  <2>1. (Taken \cap DOMAIN table = {})'
    BY <1>2, <1>6, SMT DEF FilesInv, DescriptorsDistinct
  <2>2. ASSUME NEW u \in Threads, NEW v \in Threads,
               opening'[u].at = "fd", opening'[v].at = "fd", opening'[u].fd = opening'[v].fd
        PROVE  u = v
    BY <2>2, <1>4, SMT DEF FilesInv, DescriptorsDistinct, NotOpening
  <2> QED BY <2>1, <2>2 DEF DescriptorsDistinct
<1>9. ClosedStaysClosed'
  BY <1>2, <1>5, <1>6, SMT DEF FilesInv, ClosedStaysClosed
<1> QED BY <1>2, <1>3, <1>7, <1>8, <1>9 DEF FilesInv

\* All other builtins give out nothing: what is taken, and what is in the table, only
\* moves to closed.
LEMMA OthersKeep ==
  ASSUME FilesInv, nextFd' = nextFd,
         opening' \in [Threads -> Openings],
         \A u \in Threads : opening'[u].at = "fd" <=> opening[u].at = "fd",
         \A u \in Threads : opening[u].at = "fd" => opening'[u] = opening[u],
         DOMAIN table' \subseteq DOMAIN table,
         closed' \subseteq closed \cup (DOMAIN table \ DOMAIN table')
  PROVE  FilesInv'
<1>1. Taken' = Taken
  BY SMT DEF Taken
<1>2. DescriptorsDistinct'
  <2>1. (Taken \cap DOMAIN table = {})'
    BY <1>1, SMT DEF FilesInv, DescriptorsDistinct
  <2>2. ASSUME NEW u \in Threads, NEW v \in Threads,
               opening'[u].at = "fd", opening'[v].at = "fd", opening'[u].fd = opening'[v].fd
        PROVE  u = v
    BY <2>2, SMT DEF FilesInv, DescriptorsDistinct
  <2> QED BY <2>1, <2>2 DEF DescriptorsDistinct
<1>3. ClosedStaysClosed'
  BY <1>1, SMT DEF FilesInv, ClosedStaysClosed, DescriptorsDistinct
<1>4. \A fd \in (DOMAIN table \cup Taken \cup closed)' : fd \in Int /\ fd < nextFd'
  BY <1>1, SMT DEF FilesInv
<1> QED BY <1>2, <1>3, <1>4 DEF FilesInv

LEMMA OpenFileKeeps ==
  ASSUME FilesInv, NEW t \in Threads, NEW p \in Paths, NEW flags \in Flags, OpenFile(t, p, flags) PROVE FilesInv'
<1>1. opening[t] = NotOpening /\ nextFd' = nextFd /\ table' = table /\ closed' = closed
  BY DEF OpenFile, Free
<1>2. \/ opening' = opening
      \/ opening' = [opening EXCEPT ![t] = [at |-> "file", path |-> p, flags |-> flags]]
  BY DEF OpenFile
<1>3. CASE opening' = opening
  BY <1>1, <1>3, OthersKeep, SMT DEF FilesInv
<1>4. CASE opening' = [opening EXCEPT ![t] = [at |-> "file", path |-> p, flags |-> flags]]
  <2>1. opening' \in [Threads -> Openings]
    BY <1>4, SMT DEF FilesInv, Openings
  <2>2. opening[t].at # "fd" /\ opening'[t].at # "fd"
    BY <1>1, <1>4, SMT DEF FilesInv, NotOpening
  <2>3. \A u \in Threads : u # t => opening'[u] = opening[u]
    BY <1>4, SMT DEF FilesInv
  <2> QED BY <1>1, <2>1, <2>2, <2>3, OthersKeep, SMT DEF FilesInv
<1> QED BY <1>2, <1>3, <1>4

LEMMA FilesKept == FilesInv /\ [Next]_vars => FilesInv'
<1> SUFFICES ASSUME FilesInv, [Next]_vars PROVE FilesInv'
  OBVIOUS
<1>1. CASE UNCHANGED fileVars
  BY <1>1, OthersKeep, SMT DEF fileVars, FilesInv
<1>2. ASSUME NEW t \in Threads, FileStep(t) PROVE FilesInv'
  <2>1. ASSUME NEW p \in Paths, NEW flags \in Flags, OpenFile(t, p, flags) PROVE FilesInv'
    BY <2>1, OpenFileKeeps
  <2>2. CASE AllocFd(t)
    BY <2>2, AllocFdKeeps
  <2>3. CASE Insert(t)
    BY <2>3, InsertKeeps
  <2>4. ASSUME NEW fd \in Fds, FileClose(t, fd) PROVE FilesInv'
    BY <2>4, OthersKeep, SMT DEF FileClose, FilesInv
  <2>5. ASSUME NEW fd \in Fds, NEW len \in Lengths, FileRead(t, fd, len) \/ FileWrite(t, fd, len) PROVE FilesInv'
    <3>1. DOMAIN table' = DOMAIN table /\ UNCHANGED <<nextFd, opening, closed>>
      BY <2>5, SMT DEF FileRead, FileWrite, Refuse, Move, fileVars
    <3> QED BY <3>1, OthersKeep, SMT DEF FilesInv
  <2>6. ASSUME NEW fd \in Fds, NEW n, NEW whence \in 0 .. 2, FileSeek(t, fd, n, whence) PROVE FilesInv'
    <3>1. DOMAIN table' = DOMAIN table /\ UNCHANGED <<nextFd, opening, closed>>
      BY <2>6, SMT DEF FileSeek, Refuse, Move, fileVars
    <3> QED BY <3>1, OthersKeep, SMT DEF FilesInv
  <2> QED BY <1>2, <2>1, <2>2, <2>3, <2>4, <2>5, <2>6 DEF FileStep
<1> QED BY <1>1, <1>2 DEF Next, vars

\* However many threads open files at the same time, no two FileOpens take one
\* descriptor, and none takes one that is in the table.
THEOREM DescriptorsStayDistinct == Spec => []DescriptorsDistinct
<1>1. FilesInv => DescriptorsDistinct
  BY DEF FilesInv
<1> QED BY <1>1, FilesStart, FilesKept, PTL DEF Spec

\* A descriptor that was closed is never given out again, whatever is opened later.
THEOREM ClosedForGood == Spec => []ClosedStaysClosed
<1>1. FilesInv => ClosedStaysClosed
  BY DEF FilesInv
<1> QED BY <1>1, FilesStart, FilesKept, PTL DEF Spec
-----------------------------------------------------------------------------
Sinks == Nat \cup {Stdout}

\* Of one thread: the buffer is the own one of the innermost call, each call has saved
\* the own buffer of the one around it, and the outermost what there was before.
Nested(k, s, o, l) ==
  /\ k \in Sinks /\ s \in Seq(Sinks) /\ o \in Seq(Nat) /\ l \in BOOLEAN
  /\ Len(o) = Len(s)
  /\ s # <<>> => k = o[Len(o)] /\ (s[1] = Stdout <=> l = FALSE)
  /\ s = <<>> => (k = Stdout <=> l = FALSE)
  /\ \A i \in 2 .. Len(s) : s[i] = o[i - 1]

CaptureInv ==
  /\ sink \in [Threads -> Sinks] /\ saved \in [Threads -> Seq(Sinks)]
  /\ own \in [Threads -> Seq(Nat)] /\ lost \in [Threads -> BOOLEAN]
  /\ \A t \in Threads : Nested(sink[t], saved[t], own[t], lost[t])

LEMMA CaptureStart == Init => CaptureInv
BY SMT DEF Init, CaptureInit, CaptureInv, Nested, Sinks, Stdout

\* The last piece is counted in the innermost buffer.
LEMMA Outputs ==
  ASSUME NEW k, NEW s, NEW o, NEW l, Nested(k, s, o, l)
  PROVE  Nested(IF k = Stdout THEN Stdout ELSE k + 1, s, IF o = <<>> THEN <<>> ELSE Counted(o), l)
<1>1. CASE s = <<>>
  <2>1. o = <<>>
    BY <1>1, EmptySeq, SMT DEF Nested
  <2> QED BY <1>1, <2>1, SMT DEF Nested, Sinks, Stdout
<1>2. CASE s # <<>>
  <2>1. o # <<>> /\ Len(o) \in DOMAIN o /\ o[Len(o)] \in Nat /\ k = o[Len(o)]
    BY <1>2, SMT DEF Nested
  <2> DEFINE p == Counted(o)
  <2>2. p \in Seq(Nat) /\ Len(p) = Len(o) /\ p[Len(o)] = o[Len(o)] + 1
        /\ \A i \in 1 .. Len(o) - 1 : p[i] = o[i]
    BY <2>1, SMT DEF Nested, Counted
  <2>3. k + 1 = p[Len(p)] /\ k # Stdout /\ k + 1 \in Sinks
    BY <2>1, <2>2, SMT DEF Sinks, Stdout, Nested
  <2>4. Nested(k + 1, s, p, l)
    BY <1>2, <2>1, <2>2, <2>3, SMT DEF Nested
  <2> QED BY <2>1, <2>3, <2>4
<1> QED BY <1>1, <1>2

LEMMA Enters ==
  ASSUME NEW k, NEW s, NEW o, NEW l, Nested(k, s, o, l)
  PROVE  Nested(0, Append(s, k), Append(o, 0), l)
<1> DEFINE q == Append(s, k)
           p == Append(o, 0)
<1> SUFFICES Nested(0, q, p, l)
  OBVIOUS
<1>1. /\ k \in Sinks /\ s \in Seq(Sinks) /\ o \in Seq(Nat) /\ l \in BOOLEAN
      /\ Len(o) = Len(s) /\ Len(s) \in Nat
  BY LenProperties DEF Nested
<1>2. /\ q \in Seq(Sinks) /\ q # <<>> /\ Len(q) = Len(s) + 1 /\ q[Len(s) + 1] = k
      /\ \A i \in 1 .. Len(s) : q[i] = s[i]
  BY <1>1, AppendProperties
<1>3. /\ p \in Seq(Nat) /\ Len(p) = Len(s) + 1 /\ p[Len(s) + 1] = 0
      /\ \A i \in 1 .. Len(s) : p[i] = o[i]
  BY <1>1, AppendProperties, SMT
<1> HIDE DEF q, p
<1>4. CASE s = <<>>
  <2>1. Len(s) = 0 /\ (k = Stdout <=> l = FALSE)
    BY <1>4, EmptySeq DEF Nested
  <2>2. q[1] = k /\ \A i \in 2 .. Len(q) : q[i] = p[i - 1]
    BY <1>2, <2>1, SMT
  <2>3. 0 \in Sinks /\ 0 = p[Len(p)] /\ Len(p) = Len(q)
    BY <1>1, <1>2, <1>3, SMT DEF Sinks
  <2> QED BY <1>1, <1>2, <1>3, <2>1, <2>2, <2>3 DEF Nested
<1>5. CASE s # <<>>
  <2>1. /\ Len(s) >= 1 /\ k = o[Len(s)] /\ (s[1] = Stdout <=> l = FALSE)
        /\ \A i \in 2 .. Len(s) : s[i] = o[i - 1]
    BY <1>1, <1>5, EmptySeq, SMT DEF Nested
  <2>2. q[1] = s[1]
    BY <1>1, <1>2, <2>1, SMT
  <2>3. \A i \in 2 .. Len(q) : q[i] = p[i - 1]
    <3> SUFFICES ASSUME NEW i \in 2 .. Len(q) PROVE q[i] = p[i - 1]
      OBVIOUS
    <3>1. CASE i = Len(s) + 1
      BY <1>1, <1>2, <1>3, <2>1, <3>1, SMT
    <3>2. CASE i # Len(s) + 1
      <4>1. i \in 2 .. Len(s) /\ i \in 1 .. Len(s) /\ i - 1 \in 1 .. Len(s)
        BY <1>1, <1>2, <3>2, SMT
      <4>2. q[i] = s[i] /\ p[i - 1] = o[i - 1]
        BY <1>2, <1>3, <4>1, Zenon
      <4> QED BY <2>1, <4>1, <4>2, Zenon
    <3> QED BY <3>1, <3>2
  <2>4. q[1] = Stdout <=> l = FALSE
    BY <2>1, <2>2
  <2>5. 0 \in Sinks /\ 0 = p[Len(p)] /\ Len(p) = Len(q)
    BY <1>1, <1>2, <1>3, SMT DEF Sinks
  <2>6. q # <<>>
    BY <1>2
  <2>7. /\ 0 \in Sinks /\ q \in Seq(Sinks) /\ p \in Seq(Nat) /\ l \in BOOLEAN
        /\ Len(p) = Len(q) /\ 0 = p[Len(p)]
    BY <1>1, <1>2, <1>3, <2>5
  <2> QED BY <2>3, <2>4, <2>6, <2>7, Zenon DEF Nested
<1> QED BY <1>4, <1>5

LEMMA Leaves ==
  ASSUME NEW k, NEW s, NEW o, NEW l, Nested(k, s, o, l), s # <<>>
  PROVE  Nested(s[Len(s)], Front(s), Front(o), l)
<1>1. Len(s) \in Nat /\ Len(s) >= 1 /\ Len(o) = Len(s)
  BY SMT DEF Nested
<1> DEFINE q == Front(s)
           p == Front(o)
<1>2. q \in Seq(Sinks) /\ p \in Seq(Nat) /\ Len(q) = Len(s) - 1 /\ Len(p) = Len(o) - 1
      /\ (\A i \in 1 .. Len(s) - 1 : q[i] = s[i]) /\ (\A i \in 1 .. Len(o) - 1 : p[i] = o[i])
  BY <1>1, SMT DEF Nested, Front
<1>3. CASE Len(s) = 1
  BY <1>1, <1>2, <1>3, SMT DEF Nested
<1>4. CASE Len(s) > 1
  <2>1. q # <<>> /\ s[Len(s)] = o[Len(s) - 1] /\ o[Len(s) - 1] = p[Len(p)] /\ q[1] = s[1]
    <3>1. q # <<>>
      BY <1>1, <1>2, <1>4, EmptySeq, SMT
    <3>2. s[Len(s)] = o[Len(s) - 1]
      BY <1>1, <1>4, SMT DEF Nested
    <3>3. o[Len(s) - 1] = p[Len(p)] /\ q[1] = s[1]
      BY <1>1, <1>2, <1>4, SMT
    <3> QED BY <3>1, <3>2, <3>3
  <2>2. \A i \in 2 .. Len(q) : q[i] = p[i - 1]
    BY <1>1, <1>2, SMT DEF Nested
  <2>3. s[Len(s)] \in Sinks
    BY <1>1, SMT DEF Nested
  <2> QED BY <1>1, <1>2, <1>4, <2>1, <2>2, <2>3, SMT DEF Nested
<1> QED BY <1>1, <1>3, <1>4

LEMMA Panics ==
  ASSUME NEW k, NEW s, NEW o, NEW l, Nested(k, s, o, l), s # <<>>
  PROVE  Nested(k, <<>>, <<>>, TRUE)
<1>1. o[Len(o)] \in Nat
  BY SMT DEF Nested
<1> QED BY <1>1, SMT DEF Nested, Sinks, Stdout

\* A thread's step leaves the other threads' sinks alone.
LEMMA CaptureKept == CaptureInv /\ [Next]_vars => CaptureInv'
<1> SUFFICES ASSUME CaptureInv, [Next]_vars PROVE CaptureInv'
  OBVIOUS
<1>1. CASE UNCHANGED captureVars
  BY <1>1, SMT DEF captureVars, CaptureInv
<1>2. ASSUME NEW t \in Threads, CaptureStep(t) PROVE CaptureInv'
  <2> SUFFICES ASSUME NEW k, NEW s, NEW o, NEW l, Nested(k, s, o, l),
                      sink' = [sink EXCEPT ![t] = k], saved' = [saved EXCEPT ![t] = s],
                      own' = [own EXCEPT ![t] = o], lost' = [lost EXCEPT ![t] = l]
               PROVE  CaptureInv'
    <3>1. Nested(sink[t], saved[t], own[t], lost[t])
      BY DEF CaptureInv
    <3>2. CASE Output(t)
      <4>1. Nested(IF sink[t] = Stdout THEN Stdout ELSE sink[t] + 1, saved[t],
                   IF own[t] = <<>> THEN <<>> ELSE Counted(own[t]), lost[t])
        BY <3>1, Outputs
      <4>2. saved' = [saved EXCEPT ![t] = saved[t]] /\ lost' = [lost EXCEPT ![t] = lost[t]]
        BY <3>2, SMT DEF Output, CaptureInv
      <4> QED BY <3>2, <4>1, <4>2 DEF Output
    <3>3. CASE EnterCapture(t)
      <4>1. Nested(0, Append(saved[t], sink[t]), Append(own[t], 0), lost[t])
        BY <3>1, Enters
      <4>2. lost' = [lost EXCEPT ![t] = lost[t]]
        BY <3>3, SMT DEF EnterCapture, CaptureInv
      <4> QED BY <3>3, <4>1, <4>2 DEF EnterCapture
    <3>4. CASE LeaveCapture(t)
      <4>1. Nested(saved[t][Len(saved[t])], Front(saved[t]), Front(own[t]), lost[t])
        BY <3>1, <3>4, Leaves DEF LeaveCapture
      <4>2. lost' = [lost EXCEPT ![t] = lost[t]]
        BY <3>4, SMT DEF LeaveCapture, CaptureInv
      <4> QED BY <3>4, <4>1, <4>2 DEF LeaveCapture
    <3>5. CASE Panic(t)
      <4>1. Nested(sink[t], <<>>, <<>>, TRUE)
        BY <3>1, <3>5, Panics DEF Panic
      <4>2. sink' = [sink EXCEPT ![t] = sink[t]]
        BY <3>5, SMT DEF Panic, CaptureInv
      <4> QED BY <3>5, <4>1, <4>2 DEF Panic
    <3> QED BY <1>2, <3>2, <3>3, <3>4, <3>5 DEF CaptureStep
  <2>1. ASSUME NEW u \in Threads PROVE Nested(sink'[u], saved'[u], own'[u], lost'[u])
    <3>1. CASE u = t
      BY <3>1, SMT DEF CaptureInv
    <3>2. CASE u # t
      BY <3>2, SMT DEF CaptureInv
    <3> QED BY <3>1, <3>2
  <2>2. k \in Sinks /\ s \in Seq(Sinks) /\ o \in Seq(Nat) /\ l \in BOOLEAN
    BY DEF Nested
  <2>3. sink' \in [Threads -> Sinks] /\ saved' \in [Threads -> Seq(Sinks)] /\ own' \in [Threads -> Seq(Nat)]
    BY <2>2, SMT DEF CaptureInv
  <2>4. lost' \in [Threads -> BOOLEAN]
    BY <2>2 DEF CaptureInv
  <2> QED BY <2>1, <2>3, <2>4 DEF CaptureInv
<1> QED BY <1>1, <1>2 DEF Next, vars

\* Every closure finds in its buffer what it output itself, at any depth of captures.
THEOREM OutputIsOwn == Spec => []OwnOutput
<1>1. CaptureInv => OwnOutput
  BY SMT DEF CaptureInv, Nested, OwnOutput
<1> QED BY <1>1, CaptureStart, CaptureKept, PTL DEF Spec

\* Only a panic through with_capture turns the output of a thread away from stdout.
THEOREM StdoutKeptUntilPanic == Spec => []StdoutUntilPanic
<1>1. CaptureInv => StdoutUntilPanic
  BY SMT DEF CaptureInv, Nested, Sinks, StdoutUntilPanic
<1> QED BY <1>1, CaptureStart, CaptureKept, PTL DEF Spec
=============================================================================
