--------------------------------- MODULE Files ---------------------------------
(***************************************************************************)
(* The file builtins (holyc_stdlib/src/builtins.rs).  The table of handles *)
(* and the counter of descriptors belong to the process: all threads and   *)
(* all interpreters, those before a :reset too, use them.  Every closure   *)
(* given to with_table is one step; FileOpen is three.                     *)
(*                                                                         *)
(* Files are those of the host: of one only its length is kept, and a read *)
(* is as long as it can be.  What a call returns follows from its case and *)
(* is not kept; a call with no effect is a step that changes nothing.      *)
(***************************************************************************)
EXTENDS Integers, FiniteSets, Process

CONSTANTS
  Paths,    \* names of files
  Lengths,  \* lengths and offsets that calls are made with
  MaxFd,    \* no file is opened once this descriptor is taken
  MaxLen    \* no file gets longer

VARIABLES
  files,    \* the length of each file, -1 when there is none
  nextFd,   \* NEXT_FD
  table,    \* FILE_TABLE
  opening,  \* of each thread: how far its FileOpen is
  closed    \* descriptors that FileClose took (history)

fileVars == <<files, nextFd, table, opening, closed>>

Flags == {"r", "w", "a", "r+", "other"}  \* all others are as r+, and create the file
Fds   == 3 .. MaxFd
NotOpening == [at |-> "idle"]

FilesInit ==
  /\ files = [p \in Paths |-> -1]
  /\ nextFd = 3 /\ table = [fd \in {} |-> 0]
  /\ opening = [t \in Threads |-> NotOpening]
  /\ closed = {}

Free(t) == opening[t] = NotOpening
-----------------------------------------------------------------------------
\* FileOpen: the file is opened, and with "w" emptied, before there is a descriptor.
OpenFile(t, p, flags) ==
  /\ Free(t)
  /\ IF flags \in {"r", "r+"} /\ files[p] = -1
     THEN UNCHANGED <<files, opening>>
     ELSE /\ nextFd <= MaxFd
          /\ files' = [files EXCEPT ![p] = IF flags = "w" \/ @ = -1 THEN 0 ELSE @]
          /\ opening' = [opening EXCEPT ![t] = [at |-> "file", path |-> p, flags |-> flags]]
  /\ UNCHANGED <<nextFd, table, closed>>

Take(t, fd) == opening' = [opening EXCEPT ![t] = [at |-> "fd", fd |-> fd, path |-> @.path, flags |-> @.flags]]

\* Fault: the lowest number that is not in the table.
FaultAllocFd(t) ==
  /\ opening[t].at = "file"
  /\ LET free == {fd \in Fds : fd \notin DOMAIN table}
     IN  free # {} /\ Take(t, CHOOSE fd \in free : \A e \in free : fd <= e)
  /\ UNCHANGED <<files, nextFd, table, closed>>

AllocFd(t) ==
  /\ opening[t].at = "file" /\ nextFd <= MaxFd
  /\ Take(t, nextFd) /\ nextFd' = nextFd + 1
  /\ UNCHANGED <<files, table, closed>>

Insert(t) ==
  /\ opening[t].at = "fd"
  /\ LET o == opening[t]
     IN  table' = [fd \in DOMAIN table \cup {o.fd} |->
                     IF fd = o.fd THEN [path |-> o.path, flags |-> o.flags, pos |-> 0] ELSE table[fd]]
  /\ opening' = [opening EXCEPT ![t] = NotOpening]
  /\ UNCHANGED <<files, nextFd, closed>>

FileClose(t, fd) ==
  /\ Free(t)
  /\ table' = [e \in DOMAIN table \ {fd} |-> table[e]]
  /\ closed' = IF fd \in DOMAIN table THEN closed \cup {fd} ELSE closed
  /\ UNCHANGED <<files, nextFd, opening>>

\* A descriptor that is not in the table is answered with -1.
Refuse(t, fd) == Free(t) /\ fd \notin DOMAIN table /\ UNCHANGED fileVars
Move(fd, pos) == table' = [table EXCEPT ![fd].pos = pos]

\* A handle that is not for reading reads nothing.
FileRead(t, fd, len) ==
  \/ Refuse(t, fd)
  \/ /\ Free(t) /\ fd \in DOMAIN table
     /\ LET h    == table[fd]
            left == IF h.flags \notin {"w", "a"} /\ h.pos < files[h.path] THEN files[h.path] - h.pos ELSE 0
            n    == IF len < left THEN len ELSE left
        IN  Move(fd, h.pos + n)
     /\ UNCHANGED <<files, nextFd, opening, closed>>

\* Nor does one for reading write; to append is to write at the end.
FileWrite(t, fd, len) ==
  \/ Refuse(t, fd)
  \/ /\ Free(t) /\ fd \in DOMAIN table
     /\ LET h  == table[fd]
            at == IF h.flags = "a" THEN files[h.path] ELSE h.pos
        IN  /\ at + len <= MaxLen
            /\ IF h.flags = "r" THEN UNCHANGED <<files, table>>
               ELSE /\ files' = [files EXCEPT ![h.path] = IF at + len > @ THEN at + len ELSE @]
                    /\ Move(fd, at + len)
     /\ UNCHANGED <<nextFd, opening, closed>>

\* A place before the start is an error and leaves the handle where it is.
FileSeek(t, fd, offset, whence) ==
  \/ Refuse(t, fd)
  \/ /\ Free(t) /\ fd \in DOMAIN table
     /\ LET h   == table[fd]
            pos == offset + CASE whence = 1 -> h.pos [] whence = 2 -> files[h.path] [] OTHER -> 0
        IN  /\ pos <= MaxLen
            /\ IF pos < 0 THEN UNCHANGED table ELSE Move(fd, pos)
     /\ UNCHANGED <<files, nextFd, opening, closed>>

FileStep(t) ==
  \/ \E p \in Paths, flags \in Flags : OpenFile(t, p, flags)
  \/ AllocFd(t)
  \/ Insert(t)
  \/ \E fd \in Fds : FileClose(t, fd)
  \/ \E fd \in Fds, len \in Lengths : FileRead(t, fd, len) \/ FileWrite(t, fd, len)
  \/ \E fd \in Fds, n \in Lengths, whence \in 0 .. 2 : FileSeek(t, fd, n, whence) \/ FileSeek(t, fd, -n, whence)
-----------------------------------------------------------------------------
Taken == {opening[t].fd : t \in {u \in Threads : opening[u].at = "fd"}}

\* Two FileOpens that run at the same time never end up with one descriptor, nor with
\* one that is in the table: no handle is overwritten.
DescriptorsDistinct ==
  /\ Taken \cap DOMAIN table = {}
  /\ \A t, u \in Threads : opening[t].at = "fd" /\ opening[u].at = "fd" /\ opening[t].fd = opening[u].fd => t = u

\* A descriptor that was closed is refused for good, in every thread and in every
\* later session: it never comes to name another file.
ClosedStaysClosed == closed \cap (DOMAIN table \cup Taken) = {}
=============================================================================
