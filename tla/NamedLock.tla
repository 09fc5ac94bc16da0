------------------------------ MODULE NamedLock ------------------------------
(***************************************************************************)
(* The advisory lock every process of agent-archive takes on a named file  *)
(* of the archive home (internal/local/files.go, files_unix.go).  The lock *)
(* is a flock on the INODE a process opened, while the name it opened may  *)
(* be unlinked by a holder (a forgotten session's lock file goes with the  *)
(* session) and created again by a newcomer.  Two processes could then     *)
(* hold flocks on two inodes that had the same name.  NamedLock therefore  *)
(* checks, once the flock is taken, that the path still names the inode it *)
(* locked, and starts over when it does not.                               *)
(*                                                                         *)
(* Each action is one system call of one process, so every interleaving of *)
(* open, flock, stat, unlink and close is explored.                        *)
(***************************************************************************)
EXTENDS Naturals

CONSTANTS
  Procs,         \* processes that take the lock
  LockAttempts,  \* NamedLock's tries on a file that keeps being replaced
  Polls,         \* NamedLock calls NamedLockWait makes before its deadline
  Calls          \* bound: NamedLockWait calls made by each process

ASSUME BoundsAssumption ==
  /\ LockAttempts \in Nat \ {0}
  /\ Polls \in Nat \ {0}
  /\ Calls \in Nat

NoFile == 0      \* the path names no file; a closed descriptor

VARIABLES
  path,      \* the inode the lock path names, or NoFile
  created,   \* inodes created so far; the next one is created + 1
  fd,        \* fd[p]: the inode p has open, or NoFile
  flocked,   \* the processes that have a flock on the inode they have open
  pc,        \* where p is in NamedLockWait, NamedLock or lockOpened
  attempts,  \* attempts[p]: files p found replaced in this NamedLock call
  polls,     \* polls[p]: busy NamedLock calls of this NamedLockWait call
  calls      \* calls[p]: NamedLockWait calls p has made

vars == <<path, created, fd, flocked, pc, attempts, polls, calls>>

\* "idle"     between calls                 "open"     about to open the path
\* "opened"   the file is open, not locked  "locked"   flock taken, not verified
\* "held"     the lock was granted          "unlinked" the holder removed the file
\* "busy"     ErrBusy, about to sleep       "failed"   the call returned an error
Steps == {"idle", "open", "opened", "locked", "held", "unlinked", "busy", "failed"}

\* Types of the file, the descriptors and the bounded counters: a NamedLock
\* call stops after LockAttempts replaced files, NamedLockWait after Polls.
TypeOK ==
  /\ path \in Nat
  /\ created \in Nat
  /\ fd \in [Procs -> Nat]
  /\ flocked \in SUBSET Procs
  /\ pc \in [Procs -> Steps]
  /\ attempts \in [Procs -> 0 .. LockAttempts]
  /\ polls \in [Procs -> 0 .. Polls]
  /\ calls \in [Procs -> 0 .. Calls]

Init ==
  /\ path = NoFile
  /\ created = 0
  /\ fd = [p \in Procs |-> NoFile]
  /\ flocked = {}
  /\ pc = [p \in Procs |-> "idle"]
  /\ attempts = [p \in Procs |-> 0]
  /\ polls = [p \in Procs |-> 0]
  /\ calls = [p \in Procs |-> 0]

Goto(p, step) == pc' = [pc EXCEPT ![p] = step]

\* Closing a descriptor drops the flock taken through it.
Close(p) ==
  /\ fd' = [fd EXCEPT ![p] = NoFile]
  /\ flocked' = flocked \ {p}

\* Some process has a flock on inode i.
Locked(i) == \E q \in flocked : fd[q] = i

-----------------------------------------------------------------------------
(* NamedLockWait and NamedLock                                             *)

\* NamedLockWait is called.
Call(p) ==
  /\ pc[p] \in {"idle", "failed"}
  /\ calls[p] < Calls
  /\ calls' = [calls EXCEPT ![p] = @ + 1]
  /\ polls' = [polls EXCEPT ![p] = 0]
  /\ attempts' = [attempts EXCEPT ![p] = 0]
  /\ Goto(p, "open")
  /\ UNCHANGED <<path, created, fd, flocked>>

\* open(path, O_CREATE): the file the path names, or a new one.
Open(p) ==
  /\ pc[p] = "open"
  /\ IF path = NoFile
     THEN /\ created' = created + 1
          /\ path' = created + 1
     ELSE UNCHANGED <<created, path>>
  /\ fd' = [fd EXCEPT ![p] = path']
  /\ Goto(p, "opened")
  /\ UNCHANGED <<flocked, attempts, polls, calls>>

\* flock(LOCK_EX | LOCK_NB) succeeds.
FlockTaken(p) ==
  /\ pc[p] = "opened"
  /\ ~Locked(fd[p])
  /\ flocked' = flocked \union {p}
  /\ Goto(p, "locked")
  /\ UNCHANGED <<path, created, fd, attempts, polls, calls>>

\* flock fails with EWOULDBLOCK: the file is closed, NamedLock returns ErrBusy.
FlockBusy(p) ==
  /\ pc[p] = "opened"
  /\ Locked(fd[p])
  /\ Close(p)
  /\ Goto(p, "busy")
  /\ UNCHANGED <<path, created, attempts, polls, calls>>

\* Fault: the flock alone grants the lock.
CurrentUnchecked(p) == TRUE

\* os.SameFile(locked, named): the path still names the file p locked.
Current(p) == path = fd[p]

\* The path still names the locked file: the lock is granted.
VerifyCurrent(p) ==
  /\ pc[p] = "locked"
  /\ Current(p)
  /\ Goto(p, "held")
  /\ UNCHANGED <<path, created, fd, flocked, attempts, polls, calls>>

\* Fault: a replaced file is tried for ever.
VerifyReplacedForever(p) ==
  /\ pc[p] = "locked"
  /\ ~Current(p)
  /\ Close(p)
  /\ attempts' = [attempts EXCEPT ![p] = @ + 1]
  /\ Goto(p, "open")
  /\ UNCHANGED <<path, created, polls, calls>>

\* Fault: a replaced file is left open and locked.
VerifyReplacedKeepsFile(p) ==
  /\ pc[p] = "locked"
  /\ ~Current(p)
  /\ attempts' = [attempts EXCEPT ![p] = @ + 1]
  /\ Goto(p, IF attempts[p] + 1 < LockAttempts THEN "open" ELSE "failed")
  /\ UNCHANGED <<path, created, fd, flocked, polls, calls>>

\* The path names another file or none: unlock, close, and open again, up to
\* LockAttempts times.
VerifyReplaced(p) ==
  /\ pc[p] = "locked"
  /\ ~Current(p)
  /\ Close(p)
  /\ attempts' = [attempts EXCEPT ![p] = @ + 1]
  /\ Goto(p, IF attempts[p] + 1 < LockAttempts THEN "open" ELSE "failed")
  /\ UNCHANGED <<path, created, polls, calls>>

\* Fault: the deadline is never reached.
WaitWithoutDeadline(p) ==
  /\ pc[p] = "busy"
  /\ attempts' = [attempts EXCEPT ![p] = 0]
  /\ Goto(p, "open")
  /\ UNCHANGED <<path, created, fd, flocked, polls, calls>>

\* NamedLockWait after ErrBusy: poll again, or give up at the deadline.
Wait(p) ==
  /\ pc[p] = "busy"
  /\ polls' = [polls EXCEPT ![p] = @ + 1]
  /\ attempts' = [attempts EXCEPT ![p] = 0]
  /\ Goto(p, IF polls[p] + 1 < Polls THEN "open" ELSE "failed")
  /\ UNCHANGED <<path, created, fd, flocked, calls>>

-----------------------------------------------------------------------------
(* The holder                                                              *)

\* A holder removes the lock file: forgetSession as its last removal,
\* saveRequest for a session that is not registered, RemoveOrphanedLocks.
Unlink(p) ==
  /\ pc[p] = "held"
  /\ path' = NoFile
  /\ Goto(p, "unlinked")
  /\ UNCHANGED <<created, fd, flocked, attempts, polls, calls>>

Release(p) ==
  /\ pc[p] \in {"held", "unlinked"}
  /\ Close(p)
  /\ Goto(p, "idle")
  /\ UNCHANGED <<path, created, attempts, polls, calls>>

\* The process dies: the kernel closes its descriptors.
Crash(p) ==
  /\ pc[p] \notin {"idle", "failed"}
  /\ Close(p)
  /\ Goto(p, "idle")
  /\ UNCHANGED <<path, created, attempts, polls, calls>>

-----------------------------------------------------------------------------

Acquire(p) ==
  \/ Open(p)
  \/ FlockTaken(p) \/ FlockBusy(p)
  \/ VerifyCurrent(p) \/ VerifyReplaced(p)
  \/ Wait(p)

Next == \E p \in Procs :
  Call(p) \/ Acquire(p) \/ Unlink(p) \/ Release(p) \/ Crash(p)

\* A process inside a call executes its next system call.  Nothing forces a
\* holder to release, a crash, or a new call.
Fairness == \A p \in Procs : WF_vars(Acquire(p))

Spec == Init /\ [][Next]_vars

FairSpec == Spec /\ Fairness

-----------------------------------------------------------------------------
(* Properties                                                              *)

\* No two processes hold the lock at once, however the file was unlinked and
\* created again between their opens and their flocks (NamedLock's comment:
\* otherwise "both would believe they hold the lock").  A holder that has
\* unlinked the file no longer counts: forgetSession removes it last.
MutualExclusion ==
  \A p, q \in Procs : pc[p] = "held" /\ pc[q] = "held" => p = q

\* A call that returned an error, and a process that released, left no open
\* file and no flock behind, so no later call can find the lock held by
\* nobody who will release it.
NoLeakedLock ==
  \A p \in Procs :
    pc[p] \in {"idle", "failed", "open", "busy"} =>
      fd[p] = NoFile /\ p \notin flocked

\* Every NamedLockWait call returns: with the lock, or with an error once its
\* polls or its attempts are used up.  Nobody waits on anybody for good.
EveryCallReturns ==
  \A p \in Procs : pc[p] = "open" ~> pc[p] \in {"held", "failed", "idle"}
=============================================================================
