------------------------------ MODULE WinPoll ------------------------------
(***************************************************************************)
(* Poll descriptors on Windows (os/poll_windows.c).  There is nothing to   *)
(* poll there but the event of an OVERLAPPED, so that every transfer, and  *)
(* the pipe of a context, has an entry of the table poll_fd.  Its number   *)
(* is the lowest that the C library has free.  Every operation holds the   *)
(* critical section of the entry it is about, so each is one step.         *)
(***************************************************************************)
EXTENDS Integers, FiniteSets, FiniteSetsExt

CONSTANTS
  Transfers, Pipe, Free,
  MAX_FDS,       (* entries of the table                                   *)
  MaxWait        (* MAXIMUM_WAIT_OBJECTS of Windows                        *)

Fds == 1 .. MAX_FDS
NoFd == 0        (* INVALID_WINFD                                          *)

ASSUME PollAssumption ==
  /\ MAX_FDS \in Nat \ {0} /\ MaxWait \in Nat \ {0}
  /\ Pipe \notin Transfers /\ Free \notin Transfers /\ Pipe # Free

VARIABLES
  poll_fd,       (* whose OVERLAPPED an entry has                          *)
  pipe           (* [high, event]: InternalHigh and hEvent of the pipe     *)

pollv == <<poll_fd, pipe>>

PollInit ==      \* usbi_pipe: both ends are the same descriptor
  /\ poll_fd = [f \in Fds |-> IF f = 1 THEN Pipe ELSE Free]
  /\ pipe = [high |-> 0, event |-> FALSE]

PipeFd == CHOOSE f \in Fds : poll_fd[f] = Pipe
FreeFds == {f \in Fds : poll_fd[f] = Free}

\* usbi_create_fd; there is none left if the table is full.
Created(x) == FreeFds # {} /\ poll_fd' = [poll_fd EXCEPT ![Min(FreeFds)] = x]

\* usbi_free_fd
Freed(table, f) == IF f = NoFd THEN table ELSE [table EXCEPT ![f] = Free]

\* usbi_write: as many reads are due as there were writes.
Written(p) == [high |-> p.high + 1, event |-> TRUE]

\* Mutant: one read takes what all the writes have left.
ReadAll(p) == [high |-> 0, event |-> FALSE]

\* usbi_read, when the event is set
Read(p) == [high |-> p.high - 1, event |-> p.high > 1]

(* usbi_poll.  First it looks at the entries: what has completed is        *)
(* reported at once.  Only if nothing has, it waits, for one.              *)
Complete(f, io) == IF poll_fd[f] = Pipe THEN pipe.event ELSE io[poll_fd[f]] # "pending"
Triggered(fds, io) == {f \in fds : Complete(f, io)}
Invalid(fds) == \E f \in fds : poll_fd[f] = Free
CannotWait(fds) == Cardinality(fds) > MaxWait

PollTypeOK ==
  /\ poll_fd \in [Fds -> Transfers \cup {Pipe, Free}]
  /\ pipe \in [high : Nat, event : BOOLEAN]
=============================================================================
