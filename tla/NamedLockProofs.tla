-------------------------- MODULE NamedLockProofs --------------------------
(***************************************************************************)
(* NamedLock for any number of processes, calls and retries: two processes *)
(* never hold the lock together and no call leaks a flock.                 *)
(***************************************************************************)
EXTENDS NamedLock, TLAPS

\* A process that has taken the flock.
Owners == {"locked", "held", "unlinked"}

\* A process has an open file exactly in the steps between its open and its
\* close, and a flock on it from FlockTaken on.
Descriptors ==
  \A p \in Procs :
    /\ pc[p] \notin Owners \union {"opened"} => fd[p] = NoFile
    /\ pc[p] \in Owners \union {"opened"} => fd[p] # NoFile
    /\ p \in flocked <=> pc[p] \in Owners

\* The kernel grants one flock per inode.
OneFlockPerInode == \A p, q \in flocked : fd[p] = fd[q] => p = q

\* What the check after the flock establishes, and what no other process can
\* undo while the lock is held.
HeldFileIsNamed == \A p \in Procs : pc[p] = "held" => path = fd[p]

\* A call that is still trying has attempts and polls left.
Budgets ==
  \A p \in Procs :
    /\ pc[p] \in {"open", "opened", "locked", "busy"} => polls[p] < Polls
    /\ pc[p] \in {"open", "opened", "locked"} => attempts[p] < LockAttempts

IInv == TypeOK /\ Budgets /\ Descriptors /\ OneFlockPerInode /\ HeldFileIsNamed

\* No file, no call under way.
LEMMA InitIInv == Init => IInv
BY BoundsAssumption
DEF Init, IInv, TypeOK, Budgets, Descriptors, OneFlockPerInode, HeldFileIsNamed, Owners, Steps, NoFile

\* The inductive invariant implies that one process at most is in "held".
LEMMA IInvExclusion == IInv => MutualExclusion
BY DEF IInv, MutualExclusion, Descriptors, OneFlockPerInode, HeldFileIsNamed, Owners

\* Only Unlink needs more than the invariant's own parts: nobody else holds
\* the lock whose file the holder removes.
LEMMA IInvStep == IInv /\ [Next]_vars => IInv'
<1> SUFFICES ASSUME IInv, [Next]_vars PROVE IInv'
  OBVIOUS
<1> USE BoundsAssumption DEF IInv, TypeOK, Budgets, Steps, Owners, NoFile, Goto, Close
<1>1. ASSUME NEW p \in Procs, Call(p) PROVE IInv'
  BY <1>1 DEF Call, Descriptors, OneFlockPerInode, HeldFileIsNamed
<1>2. ASSUME NEW p \in Procs, Open(p) PROVE IInv'
  <2>1. TypeOK' /\ Budgets' /\ Descriptors'
    BY <1>2 DEF Open, Descriptors
  <2>2. OneFlockPerInode'
    BY <1>2 DEF Open, Descriptors, OneFlockPerInode
  <2>3. HeldFileIsNamed'
    BY <1>2 DEF Open, Descriptors, HeldFileIsNamed
  <2> QED BY <2>1, <2>2, <2>3
<1>3. ASSUME NEW p \in Procs, FlockTaken(p) PROVE IInv'
  BY <1>3 DEF FlockTaken, Locked, Descriptors, OneFlockPerInode, HeldFileIsNamed
<1>4. ASSUME NEW p \in Procs, FlockBusy(p) PROVE IInv'
  BY <1>4 DEF FlockBusy, Descriptors, OneFlockPerInode, HeldFileIsNamed
<1>5. ASSUME NEW p \in Procs, VerifyCurrent(p) PROVE IInv'
  BY <1>5 DEF VerifyCurrent, Current, Descriptors, OneFlockPerInode, HeldFileIsNamed
<1>6. ASSUME NEW p \in Procs, VerifyReplaced(p) PROVE IInv'
  BY <1>6 DEF VerifyReplaced, Current, Descriptors, OneFlockPerInode, HeldFileIsNamed
<1>7. ASSUME NEW p \in Procs, Wait(p) PROVE IInv'
  BY <1>7 DEF Wait, Descriptors, OneFlockPerInode, HeldFileIsNamed
<1>8. ASSUME NEW p \in Procs, Unlink(p) PROVE IInv'
  <2>1. \A q \in Procs : pc[q] = "held" => q = p
    BY <1>8, IInvExclusion DEF Unlink, MutualExclusion
  <2> QED BY <1>8, <2>1 DEF Unlink, Descriptors, OneFlockPerInode, HeldFileIsNamed
<1>9. ASSUME NEW p \in Procs, Release(p) PROVE IInv'
  BY <1>9 DEF Release, Descriptors, OneFlockPerInode, HeldFileIsNamed
<1>10. ASSUME NEW p \in Procs, Crash(p) PROVE IInv'
  BY <1>10 DEF Crash, Descriptors, OneFlockPerInode, HeldFileIsNamed
<1>11. CASE UNCHANGED vars
  BY <1>11 DEF vars, Descriptors, OneFlockPerInode, HeldFileIsNamed
<1> QED
  BY <1>1, <1>2, <1>3, <1>4, <1>5, <1>6, <1>7, <1>8, <1>9, <1>10, <1>11
  DEF Next, Acquire

\* The variables keep their types: in particular the retries and the polls of
\* a call never pass LockAttempts and Polls (NamedLock, NamedLockWait).
THEOREM TypeCorrect == Spec => []TypeOK
<1>1. IInv => TypeOK
  BY DEF IInv
<1> QED BY InitIInv, IInvStep, <1>1, PTL DEF Spec

\* The lock of local.NamedLock excludes, whatever the number of processes
\* and however often its file is removed and created again.
THEOREM LockExcludes == Spec => []MutualExclusion
BY InitIInv, IInvStep, IInvExclusion, PTL DEF Spec

\* No call of NamedLock leaves a flock behind when it fails or is released.
THEOREM LockNeverLeaks == Spec => []NoLeakedLock
<1>1. IInv => NoLeakedLock
  BY DEF IInv, NoLeakedLock, TypeOK, Descriptors, Owners
<1> QED BY InitIInv, IInvStep, <1>1, PTL DEF Spec
=============================================================================
