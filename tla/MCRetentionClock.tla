-------------------------- MODULE MCRetentionClock --------------------------
(* One session and one superseded source under two histories of faults: a   *)
(* clock set twice, or set once beside one failure.  The four thresholds    *)
(* keep their order in the code: the skew is the smallest, the gap between  *)
(* passes is longer than a reading is reused, the ages are the longest.     *)
EXTENDS RetentionClock
MCAge == [e \in Evidence |-> 5]
Bound(set, fail, capture, replace) ==
  [set |-> set, fail |-> fail, capture |-> capture, replace |-> replace]
MCLimits == {Bound(2, 0, 1, 0), Bound(1, 1, 0, 1)}
=============================================================================
