--------------------------- MODULE MCPublication ---------------------------
(* TLC instances of Publication: how often each outside event happens.     *)
EXTENDS Publication

Events(save, grow, remove, rewrite, crash, fault, interval) ==
  [save |-> save, grow |-> grow, remove |-> remove, rewrite |-> rewrite,
   crash |-> crash, fault |-> fault, interval |-> interval]

\* Hooks, a growing and once truncated transcript, a crash, a store failure and
\* the upload interval; or hooks and a crash around a transcript that goes away
\* and comes back, every candidate due at once.
FaultsOrMissing == {Events(2, 1, 0, 1, 1, 1, 1), Events(2, 1, 2, 0, 1, 0, 0)}

\* The transcript goes away and comes back, with the upload interval.
HeldBack == {Events(3, 1, 2, 0, 1, 0, 1)}

\* The transcript is truncated, and goes away and comes back.
RewriteMissing == {Events(0, 2, 1, 1, 0, 0, 0)}
=============================================================================
