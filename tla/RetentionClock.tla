--------------------------- MODULE RetentionClock ---------------------------
(***************************************************************************)
(* When retention may delete by age (retention/clock.go).  An age is the   *)
(* difference of two readings of this machine's clock, which may be set    *)
(* ahead or back at any time.  A sweep therefore compares its clock with   *)
(* the storage service's, by a probe or by a saved reading of it, and with *)
(* the time of the pass before.                                            *)
(*                                                                         *)
(* Times are whole numbers of some unit.  A published session, and an      *)
(* entry of the ledger of superseded sources, is reduced to the time it    *)
(* ages from: stamped by a pass, clamped or deleted by a sweep.            *)
(***************************************************************************)
EXTENDS Integers

CONSTANTS
  Captures,   \* published sessions
  Entries,    \* superseded sources, of one session
  Age,        \* Age[e]: SessionMaxAge of a session, GracePeriod of an entry
  Skew,       \* MaxClockSkew
  Gap,        \* MaxPassGap
  Agreeing,   \* agreeingReadingReuse
  Holding,    \* holdingReadingReuse
  NoReading,  \* no reading of the storage clock is saved
  Start,      \* the time a behaviour begins at
  Settings,   \* bound: what this machine's clock may be set to
  Quiet,      \* bound: from then on the clock is not set, nothing fails, and a
              \* pass runs within each unit of time
  Horizon,    \* bound: time stops
  Limits      \* bounds: how often each of Kinds happens

Evidence == Captures \union Entries
Kinds == {"set", "fail", "capture", "replace"}
Never == -1

ASSUME NumbersAssumption ==
  /\ Age \in [Evidence -> Nat]
  /\ Skew \in Nat /\ Gap \in Nat /\ Agreeing \in Nat \ {0} /\ Holding \in Nat
  /\ Start \in Nat /\ Quiet \in Nat /\ Horizon \in Nat
  /\ Settings \subseteq Nat
  /\ Limits \subseteq [Kinds -> Nat]
  /\ NoReading \notin [at : Nat, server : Nat, failed : BOOLEAN]

VARIABLES
  now,       \* the true time
  clock,     \* what this machine's clock shows
  shared,    \* the storage service runs on this machine and shares its clock
  scanned,   \* Status.LastScanAt, or Never
  reading,   \* the saved StorageClockReading: [at, server, failed], or NoReading
  stamp,     \* stamp[e]: what e ages from, or Never when there is no e
  pc,        \* the pass: "idle", "collected", "sweep"
  work,      \* its memory: now, previous (PreviousScanAt) and verdict; and, as
             \* history, back: the clock was set back between now, or the reading
             \* in its place, and the verdict; and leap: as below, when now was read
  captured,  \* history: captured[e]: the true time e was stamped at
  low,       \* history: low[e]: the earliest e may be taken to date from
  back,      \* history: the clock was set back since the saved reading's sweep
  leap,      \* history, where shared: how far the clock was set ahead since scanned
  left       \* how often each of Kinds may still happen

files == <<scanned, reading, stamp>>
history == <<captured, low>>
vars == <<now, clock, shared, files, pc, work, history, back, leap, left>>

Idle == [now |-> Never, previous |-> Never, verdict |-> "unread", back |-> FALSE, leap |-> 0]

Init ==
  /\ now = Start
  /\ clock = Start
  /\ shared \in BOOLEAN
  /\ scanned = Never
  /\ reading = NoReading
  /\ stamp = [e \in Evidence |-> Never]
  /\ pc = "idle"
  /\ work = Idle
  /\ captured = [e \in Evidence |-> Start]
  /\ low = [e \in Evidence |-> Start]
  /\ back = FALSE
  /\ leap = 0
  /\ left \in Limits

-----------------------------------------------------------------------------
(* The world                                                               *)

Earlier(a, b) == IF a < b THEN a ELSE b

SpendAll(kinds) ==
  /\ \A k \in kinds : left[k] > 0
  /\ left' = [k \in Kinds |-> IF k \in kinds THEN left[k] - 1 ELSE left[k]]

Fault == now < Quiet /\ SpendAll({"fail"})

Tick ==
  /\ now < Horizon
  /\ now >= Quiet => pc = "idle" /\ scanned = clock
  /\ now' = now + 1
  /\ clock' = clock + 1
  /\ UNCHANGED <<shared, files, pc, work, history, back, leap, left>>

\* The user, or a time service, sets this machine's clock.
SetClock(c) ==
  /\ now < Quiet
  /\ SpendAll({"set"})
  /\ clock' = c
  /\ back' = IF c < clock THEN TRUE ELSE back
  /\ work' = [work EXCEPT !.back =
                IF pc = "sweep" /\ work.verdict = "unread" /\ c < clock THEN TRUE ELSE @]
  /\ leap' = IF shared THEN leap + (c - clock) ELSE leap
  /\ UNCHANGED <<now, shared, files, pc, history>>

-----------------------------------------------------------------------------
(* A pass                                                                  *)

\* Fault: the status is read after this pass has saved its own.
PreviousAfterSave == clock

\* The status is read before this pass overwrites it.
Previous == scanned

\* What the collection publishes and replaces is stamped with its own time.
Collect(S) ==
  /\ pc = "idle"
  /\ \A e \in S \intersect Entries : stamp[e] = Never
  /\ SpendAll({k \in {"capture", "replace"} :
                 S \intersect (IF k = "capture" THEN Captures ELSE Entries) # {}})
  /\ pc' = "collected"
  /\ work' = [Idle EXCEPT !.previous = Previous, !.leap = leap]
  /\ scanned' = clock
  /\ leap' = 0
  /\ stamp' = [e \in Evidence |-> IF e \in S THEN clock ELSE stamp[e]]
  /\ captured' = [e \in Evidence |-> IF e \in S THEN now ELSE captured[e]]
  /\ low' = [e \in Evidence |-> IF e \in S THEN Earlier(now, clock) ELSE low[e]]
  /\ UNCHANGED <<now, clock, shared, reading, back>>

\* Sweep reads its clock once.
StartSweep ==
  /\ pc = "collected"
  /\ pc' = "sweep"
  /\ work' = [work EXCEPT !.now = clock, !.leap = @ + leap]
  /\ UNCHANGED <<now, clock, shared, files, history, back, leap, left>>

Present(e) == stamp[e] # Never
FromFuture(e) == Present(e) /\ stamp[e] > work.now + Skew
Expired(e) == Present(e) /\ work.now - stamp[e] >= Age[e]

\* Fault: the storage service's time is only used for clamping.
VerdictOfGap(server) ==
  IF work.previous # Never /\ work.now - work.previous > Gap
  THEN "held"
  ELSE IF server - work.now <= Skew THEN "agrees" ELSE "behind"

\* readClock, once it has the storage service's time.
Verdict(server) ==
  IF \/ work.now - server > Skew
     \/ work.previous # Never /\ work.now - work.previous > Gap
  THEN "held"
  ELSE IF server - work.now <= Skew THEN "agrees" ELSE "behind"

\* How long a reading stands in for a new one.
Window(r) == IF r.failed \/ r.at - r.server > Skew THEN Holding ELSE Agreeing

\* Fault: a clock set back since does not matter.
ReusableEver(r) ==
  /\ r # NoReading
  /\ work.now - r.at < Window(r)

\* reuseReading
Reusable(r) ==
  /\ r # NoReading
  /\ work.now >= r.at
  /\ work.now - r.at < Window(r)

\* The clock is read when something is due, or stamped in the future.
ReadsClock ==
  /\ pc = "sweep"
  /\ work.verdict = "unread"
  /\ \E e \in Evidence : FromFuture(e) \/ Expired(e)

Judge(verdict, past) == work' = [work EXCEPT !.verdict = verdict, !.back = past]

Reuse ==
  /\ ReadsClock
  /\ Reusable(reading)
  /\ Judge(IF reading.failed THEN "held"
           ELSE Verdict(reading.server + (work.now - reading.at)), back)
  /\ UNCHANGED <<now, clock, shared, files, pc, history, back, leap, left>>

\* ProbeServerClock: the service stamps an object with its own time.
ServerTime == IF shared THEN clock ELSE now

\* Saving a reading is best effort.
SaveReading(r) == reading' = r /\ back' = work.back

Probe ==
  /\ ReadsClock
  /\ ~Reusable(reading)
  /\ Judge(Verdict(ServerTime), FALSE)
  /\ \/ SaveReading([at |-> work.now, server |-> ServerTime, failed |-> FALSE]) /\ UNCHANGED left
     \/ Fault /\ UNCHANGED <<reading, back>>
  /\ UNCHANGED <<now, clock, shared, scanned, stamp, pc, history, leap>>

ProbeFails ==
  /\ Fault
  /\ ReadsClock
  /\ ~Reusable(reading)
  /\ Judge("held", FALSE)
  /\ \/ SaveReading([at |-> work.now, server |-> 0, failed |-> TRUE])
     \/ UNCHANGED <<reading, back>>
  /\ UNCHANGED <<now, clock, shared, scanned, stamp, pc, history, leap>>

\* Fault: a clock that is behind clamps too.
ClockAgreesBehind == pc = "sweep" /\ work.verdict \in {"agrees", "behind"}

ClockAgrees == pc = "sweep" /\ work.verdict = "agrees"
ClockAllowsDeletion == pc = "sweep" /\ work.verdict \in {"agrees", "behind"}

\* What S ages from becomes this sweep's time.  The time is right up to Skew,
\* unless the clock was set back since the reading was taken that says so.
ClampTo(S) ==
  /\ stamp' = [e \in Evidence |-> IF e \in S THEN work.now ELSE stamp[e]]
  /\ low' = [e \in Evidence |->
               IF e \notin S THEN low[e]
               ELSE IF work.back THEN Earlier(captured[e], work.now)
               ELSE captured[e] - Skew]
  /\ UNCHANGED <<now, clock, shared, scanned, reading, pc, work, captured, back, leap, left>>

\* captureAge
ClampCapture(e) ==
  /\ ClockAgrees
  /\ FromFuture(e)
  /\ ClampTo({e})

\* supersededLedger: one entry beyond the skew clamps every later one.
ClampLedger ==
  /\ ClockAgrees
  /\ \E e \in Entries : FromFuture(e)
  /\ ClampTo({e \in Entries : Present(e) /\ stamp[e] > work.now})

Delete(e) ==
  /\ ClockAllowsDeletion
  /\ Expired(e)
  /\ stamp' = [stamp EXCEPT ![e] = Never]
  /\ captured' = [captured EXCEPT ![e] = Start]
  /\ low' = [low EXCEPT ![e] = Start]
  /\ UNCHANGED <<now, clock, shared, scanned, reading, pc, work, back, leap, left>>

EndPass ==
  /\ pc' = "idle"
  /\ work' = Idle
  /\ UNCHANGED <<now, clock, shared, files, history, back, leap>>

\* Nothing is left to do that the clock allows.
Finish ==
  /\ pc = "sweep"
  /\ ~ReadsClock
  /\ \A e \in Evidence : ~(ClockAgrees /\ FromFuture(e)) /\ ~(ClockAllowsDeletion /\ Expired(e))
  /\ EndPass
  /\ UNCHANGED left

\* A crash, a collection that fails, or a sweep whose time is up.
Interrupted ==
  /\ Fault
  /\ pc # "idle"
  /\ EndPass

PassStep ==
  \/ \E S \in SUBSET Evidence : Collect(S)
  \/ StartSweep \/ Reuse \/ Probe
  \/ \E e \in Captures : ClampCapture(e)
  \/ ClampLedger
  \/ \E e \in Evidence : Delete(e)
  \/ Finish

Next ==
  \/ Tick
  \/ \E c \in Settings : SetClock(c)
  \/ PassStep
  \/ ProbeFails
  \/ Interrupted

Spec == Init /\ [][Next]_vars

\* Time goes on, and the service manager starts a pass every minute.
FairSpec == Spec /\ SF_vars(Tick) /\ WF_vars(PassStep)

-----------------------------------------------------------------------------
(* Properties                                                              *)

Readings == [at : Nat, server : Nat, failed : BOOLEAN]
Works ==
  [now : Nat \union {Never}, previous : Nat \union {Never},
   verdict : {"unread", "held", "behind", "agrees"}, back : BOOLEAN, leap : Int]

\* Types; a pass in its sweep has read its clock.
TypeOK ==
  /\ now \in Nat
  /\ clock \in Nat
  /\ shared \in BOOLEAN
  /\ scanned \in Nat \union {Never}
  /\ reading \in Readings \union {NoReading}
  /\ stamp \in [Evidence -> Nat \union {Never}]
  /\ pc \in {"idle", "collected", "sweep"}
  /\ work \in Works
  /\ pc = "sweep" => work.now \in Nat
  /\ captured \in [Evidence -> Nat]
  /\ low \in [Evidence -> Int]
  /\ back \in BOOLEAN
  /\ leap \in Int
  /\ left \in [Kinds -> Nat]

\* What a sweep deletes is as old as it has to be in true time, up to the skew
\* a reading tolerates and what a reused reading cannot see, whatever the clock
\* was set to ("a clock set a year ahead would otherwise expire every session
\* in the bucket"); a stamp made while the clock was behind counts as made then.
\* Where the storage service shares the clock, nothing goes in the first pass
\* after a leap: a clock set ahead is noticed for one pass.
KeptItsTime ==
  [][\A e \in Evidence :
       Present(e) /\ stamp'[e] = Never =>
         IF shared
         THEN work.previous # Never => work.leap <= Gap
         ELSE now + Skew + Agreeing > low[e] + Age[e]]_vars

Overdue(e) == Present(e) /\ (stamp[e] > clock + Skew \/ clock - stamp[e] >= Age[e])

\* Once the clock is right, no hold and no stamp from the future lasts: what is
\* due goes, and a stamp from the future becomes the present.
HoldEnds ==
  \A e \in Evidence :
    Overdue(e) /\ now >= Quiet /\ clock - now \in -Skew .. Skew ~> ~Overdue(e)
=============================================================================
