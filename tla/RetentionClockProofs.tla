----------------------- MODULE RetentionClockProofs -----------------------
(***************************************************************************)
(* Theorems of RetentionClock: types, and that nothing is deleted before   *)
(* its time.  The argument follows the storage clock's reading.  A reading *)
(* never says more than the true time, so a sweep that may delete is ahead *)
(* of it by less than Skew + Agreeing (NotAhead); and as long as the clock *)
(* is not set back it gains on a reading only, so a sweep that agrees with *)
(* the storage clock is not behind what it clamps (Agreed).                *)
(***************************************************************************)
EXTENDS RetentionClock, TLAPS

Answered == reading # NoReading /\ ~reading.failed

\* Only a sweep has a verdict.
Unread == pc # "sweep" => work.verdict = "unread"

\* Nothing is stamped before it is there.
Stamped ==
  \A e \in Evidence : Present(e) => captured[e] <= now

\* The storage service's clock is never ahead of the true time.
PastReading ==
  ~shared /\ Answered => reading.server <= now

\* The clock is at least as far ahead as when the reading was taken.
Gained ==
  ~shared /\ Answered /\ ~back => clock - now >= reading.at - reading.server

\* A sweep's time is past.
SweepPast ==
  pc = "sweep" /\ work.verdict = "unread" /\ ~work.back => clock >= work.now

\* What a sweep may judge by the saved reading was there when it began.
ReadingCovers ==
  ~shared /\ pc = "sweep" /\ work.verdict = "unread" /\ Answered /\ ~back =>
    \A e \in Evidence : Present(e) => captured[e] - work.now <= reading.server - reading.at

\* A sweep that clamps is not behind the evidence by more than the skew.
Agreed ==
  ~shared /\ ClockAgrees /\ ~work.back =>
    \A e \in Evidence : Present(e) => captured[e] <= work.now + Skew

\* A sweep that deletes is not ahead by more than readings may miss.
NotAhead ==
  ~shared /\ ClockAllowsDeletion => work.now < now + Skew + Agreeing

\* No stamp is earlier than it is taken to be.
LowFits ==
  ~shared => \A e \in Evidence : Present(e) => low[e] <= stamp[e]

\* How far the clock leapt shows in the time since the previous pass.
LeapShows ==
  shared =>
    /\ scanned # Never => clock - scanned >= leap
    /\ pc = "collected" => /\ scanned # Never
                           /\ work.previous # Never => scanned - work.previous >= work.leap
    /\ pc = "sweep" /\ work.previous # Never => work.now - work.previous >= work.leap

\* A sweep that deletes is close to the previous pass.
GapKept ==
  ClockAllowsDeletion /\ work.previous # Never => work.now - work.previous <= Gap

\* The inductive invariant.
IInv ==
  /\ TypeOK /\ Unread /\ Stamped /\ PastReading /\ Gained /\ SweepPast /\ ReadingCovers
  /\ Agreed /\ NotAhead /\ LowFits /\ LeapShows /\ GapKept

-----------------------------------------------------------------------------
(* Every action keeps the invariant                                        *)

\* Nothing is published and no reading saved when a behaviour begins.
LEMMA InitInv == Init => IInv
<1> SUFFICES ASSUME Init
             PROVE  IInv
  OBVIOUS
<1>1. TypeOK
  <2>1. work \in Works /\ pc # "sweep"
    BY DEF Init, Idle, Works, Never
  <2>2. left \in [Kinds -> Nat]
    BY NumbersAssumption DEF Init
  <2>3. stamp \in [Evidence -> Nat \union {Never}]
    BY DEF Init
  <2>4. captured \in [Evidence -> Nat] /\ low \in [Evidence -> Int]
    BY NumbersAssumption DEF Init
  <2>5. now \in Nat /\ clock \in Nat /\ scanned \in Nat \union {Never} /\ leap \in Int
    BY NumbersAssumption DEF Init
  <2>6. shared \in BOOLEAN /\ back \in BOOLEAN /\ reading \in Readings \union {NoReading}
    BY DEF Init
  <2> QED  BY <2>1, <2>2, <2>3, <2>4, <2>5, <2>6 DEF Init, TypeOK
<1>2. \A e \in Evidence : ~Present(e)
  BY DEF Init, Present
<1>3. Unread /\ Stamped /\ PastReading /\ Gained /\ SweepPast /\ ReadingCovers
  BY <1>2 DEF Init, Idle, Unread, Stamped, PastReading, Gained, SweepPast, ReadingCovers, Answered
<1>4. Agreed /\ NotAhead /\ LowFits /\ LeapShows /\ GapKept
  BY <1>2 DEF Init, Agreed, NotAhead, LowFits, LeapShows, GapKept, ClockAgrees, ClockAllowsDeletion
<1> QED  BY <1>1, <1>3, <1>4 DEF IInv

\* A bound that is spent stays a number.
LEMMA SpentTyped ==
  ASSUME NEW kinds \in SUBSET Kinds, left \in [Kinds -> Nat], SpendAll(kinds)
  PROVE  left' \in [Kinds -> Nat]
BY DEF SpendAll

\* Both clocks go on alike, so what they differ by stays what it was.
LEMMA TickInv ==
  ASSUME IInv, Tick
  PROVE  IInv'
<1>1. TypeOK'
  BY NumbersAssumption DEF IInv, TypeOK, Tick, files, history, Never, Readings, Works,
     Kinds
<1>2. Stamped'
  BY NumbersAssumption DEF IInv, TypeOK, Stamped, Present, Tick, files, history,
     Never, Readings, Works
<1>3. PastReading'
  BY NumbersAssumption DEF IInv, TypeOK, PastReading, Answered, Tick, files, history,
     Never, Readings, Works
<1>4. Gained'
  BY NumbersAssumption DEF IInv, TypeOK, Gained, Answered, Tick, files, history,
     Never, Readings, Works
<1>5. SweepPast'
  BY NumbersAssumption DEF IInv, TypeOK, SweepPast, Tick, files, history, Never,
     Readings, Works
<1>6. NotAhead'
  BY NumbersAssumption DEF IInv, TypeOK, NotAhead, ClockAllowsDeletion, Tick, files,
     history, Never, Readings, Works
<1>7. LeapShows'
  BY NumbersAssumption DEF IInv, TypeOK, LeapShows, Tick, files, history, Never,
     Readings, Works
<1>8. Unread' /\ ReadingCovers' /\ Agreed' /\ LowFits' /\ GapKept'
  BY NumbersAssumption DEF IInv, TypeOK, Unread, ReadingCovers, Answered, Present,
     Agreed, ClockAgrees, LowFits, GapKept, ClockAllowsDeletion, Tick, files, history,
     Never, Readings, Works
<1> QED  BY <1>1, <1>2, <1>3, <1>4, <1>5, <1>6, <1>7, <1>8 DEF IInv

\* A clock set ahead gains on the reading; one set back is remembered in back.
LEMMA SetClockInv ==
  ASSUME IInv, NEW c \in Settings, SetClock(c)
  PROVE  IInv'
<1>1. left' \in [Kinds -> Nat]
  BY SpentTyped DEF IInv, TypeOK, SetClock, Kinds
<1>2. c \in Nat /\ clock' = c
  BY NumbersAssumption DEF SetClock
<1>3. leap' \in Int
  BY <1>2 DEF IInv, TypeOK, SetClock
<1>4. back' \in BOOLEAN
  BY DEF IInv, TypeOK, SetClock
<1>5. ~back' => ~back /\ ~(c < clock)
  BY DEF SetClock
<1>6. work' \in Works
  BY <1>2 DEF IInv, TypeOK, SetClock, Never, Works
<1>7. /\ work'.now = work.now /\ work'.previous = work.previous /\ work'.leap = work.leap
      /\ work'.verdict = work.verdict
      /\ ~work'.back => ~work.back /\ (pc = "sweep" /\ work.verdict = "unread" => c >= clock)
  BY <1>2 DEF IInv, TypeOK, SetClock, Never, Works
<1>8. TypeOK'
  BY NumbersAssumption, <1>1, <1>2, <1>3, <1>4, <1>5, <1>6, <1>7 DEF IInv, TypeOK,
     SetClock, files, history, Never, Readings, Works
<1>9. Gained'
  BY NumbersAssumption, <1>1, <1>2, <1>3, <1>4, <1>5, <1>6, <1>7 DEF IInv, TypeOK,
     Gained, Answered, SetClock, files, history, Never, Readings, Works
<1>10. SweepPast'
  BY NumbersAssumption, <1>1, <1>2, <1>3, <1>4, <1>5, <1>6, <1>7 DEF IInv, TypeOK,
     SweepPast, SetClock, files, history, Never, Readings, Works
<1>11. ReadingCovers'
  BY NumbersAssumption, <1>1, <1>2, <1>3, <1>4, <1>5, <1>6, <1>7 DEF IInv, TypeOK,
     ReadingCovers, Answered, Present, SetClock, files, history, Never, Readings,
     Works
<1>12. Agreed'
  BY NumbersAssumption, <1>1, <1>2, <1>3, <1>4, <1>5, <1>6, <1>7 DEF IInv, TypeOK,
     Agreed, Present, ClockAgrees, SetClock, files, history, Never, Readings, Works
<1>13. LeapShows'
  BY NumbersAssumption, <1>1, <1>2, <1>3, <1>4, <1>5, <1>6, <1>7 DEF IInv, TypeOK,
     LeapShows, SetClock, files, history, Never, Readings, Works
<1>14. Unread' /\ Stamped' /\ PastReading' /\ NotAhead' /\ LowFits' /\ GapKept'
  BY NumbersAssumption, <1>1, <1>2, <1>3, <1>4, <1>5, <1>6, <1>7 DEF IInv, TypeOK,
     Unread, Stamped, Present, PastReading, Answered, NotAhead, ClockAllowsDeletion,
     LowFits, GapKept, SetClock, files, history, Never, Readings, Works
<1> QED  BY <1>8, <1>9, <1>10, <1>11, <1>12, <1>13, <1>14 DEF IInv

\* A pass reads the previous time before it saves its own.
LEMMA CollectInv ==
  ASSUME IInv, NEW S \in SUBSET Evidence, Collect(S)
  PROVE  IInv'
<1>1. left' \in [Kinds -> Nat]
  BY SpentTyped DEF IInv, TypeOK, Collect, Kinds
<1>2. /\ stamp' \in [Evidence -> Nat \union {Never}]
      /\ captured' \in [Evidence -> Nat]
      /\ low' \in [Evidence -> Int]
  BY DEF IInv, TypeOK, Collect, Earlier, Never
<1>3. work' = [now |-> Never, previous |-> scanned, verdict |-> "unread", back |-> FALSE, leap |-> leap]
  BY DEF Collect, Idle, Previous
<1>4. work' \in Works
  BY <1>3 DEF IInv, TypeOK, Works
<1>5. TypeOK'
  BY NumbersAssumption, <1>1, <1>2, <1>3, <1>4 DEF IInv, TypeOK, Collect, Idle,
     Previous, Earlier, files, history, Never, Readings, Works
<1>6. Stamped'
  BY NumbersAssumption, <1>1, <1>2, <1>3, <1>4 DEF IInv, TypeOK, Stamped, Present,
     Collect, Idle, Previous, Earlier, files, history, Never, Readings, Works
<1>7. LowFits'
  BY NumbersAssumption, <1>1, <1>2, <1>3, <1>4 DEF IInv, TypeOK, LowFits, Present,
     Collect, Idle, Previous, Earlier, files, history, Never, Readings, Works
<1>8. LeapShows'
  BY NumbersAssumption, <1>1, <1>2, <1>3, <1>4 DEF IInv, TypeOK, LeapShows, Collect,
     Idle, Previous, Earlier, files, history, Never, Readings, Works
<1>9. Unread' /\ PastReading' /\ Gained' /\ SweepPast' /\ ReadingCovers' /\ Agreed' /\ NotAhead' /\ GapKept'
  BY NumbersAssumption, <1>1, <1>2, <1>3, <1>4 DEF IInv, TypeOK, Unread, PastReading,
     Answered, Gained, SweepPast, ReadingCovers, Present, Agreed, ClockAgrees,
     NotAhead, ClockAllowsDeletion, GapKept, Collect, Idle, Previous, Earlier, files,
     history, Never, Readings, Works
<1> QED  BY <1>5, <1>6, <1>7, <1>8, <1>9 DEF IInv

\* The sweep takes over the clock, and with it what the reading covers.
LEMMA StartSweepInv ==
  ASSUME IInv, StartSweep
  PROVE  IInv'
<1>1. work \in Works /\ clock \in Nat /\ leap \in Int /\ work.leap \in Int
  BY DEF IInv, TypeOK, Works
<1>2. work' = [now |-> clock, previous |-> work.previous, verdict |-> work.verdict, back |-> work.back, leap |-> work.leap + leap]
  BY <1>1 DEF StartSweep, Works
<1>3. work' \in Works /\ work'.now \in Nat
  BY <1>1, <1>2 DEF Works, Never
<1>4. TypeOK'
  BY NumbersAssumption, <1>1, <1>2, <1>3 DEF IInv, TypeOK, StartSweep, files, history,
     Never, Readings, Works
<1>5. SweepPast'
  BY NumbersAssumption, <1>1, <1>2, <1>3 DEF IInv, TypeOK, SweepPast, StartSweep,
     files, history, Never, Readings, Works
<1>6. ReadingCovers'
  BY NumbersAssumption, <1>1, <1>2, <1>3 DEF IInv, TypeOK, ReadingCovers, Answered,
     Present, Gained, Stamped, StartSweep, files, history, Never, Readings, Works
<1>7. LeapShows'
  BY NumbersAssumption, <1>1, <1>2, <1>3 DEF IInv, TypeOK, LeapShows, StartSweep,
     files, history, Never, Readings, Works
<1>8. Agreed'
  BY NumbersAssumption, <1>1, <1>2, <1>3 DEF IInv, TypeOK, Agreed, Present,
     ClockAgrees, Unread, StartSweep, files, history, Never, Readings, Works
<1>9. NotAhead'
  BY NumbersAssumption, <1>1, <1>2, <1>3 DEF IInv, TypeOK, NotAhead,
     ClockAllowsDeletion, Unread, StartSweep, files, history, Never, Readings, Works
<1>10. GapKept'
  BY NumbersAssumption, <1>1, <1>2, <1>3 DEF IInv, TypeOK, GapKept,
     ClockAllowsDeletion, Unread, StartSweep, files, history, Never, Readings, Works
<1>11. Unread' /\ Stamped' /\ PastReading' /\ Gained' /\ LowFits'
  BY NumbersAssumption, <1>1, <1>2, <1>3 DEF IInv, TypeOK, Unread, Stamped, Present,
     PastReading, Answered, Gained, LowFits, StartSweep, files, history, Never,
     Readings, Works
<1> QED  BY <1>4, <1>5, <1>6, <1>7, <1>8, <1>9, <1>10, <1>11 DEF IInv

\* A reading moved on by the clock is late by less than its window.
LEMMA ReuseInv ==
  ASSUME IInv, Reuse
  PROVE  IInv'
<1>1. TypeOK'
  BY NumbersAssumption DEF IInv, TypeOK, Reuse, ReadsClock, Reusable, Judge, Verdict,
     Window, files, history, Never, Readings, Works, Kinds
<1>2. Agreed'
  BY NumbersAssumption DEF IInv, TypeOK, Agreed, Present, ClockAgrees, ReadingCovers,
     Answered, Reuse, ReadsClock, Reusable, Judge, Verdict, Window, files, history,
     Never, Readings, Works
<1>3. NotAhead'
  BY NumbersAssumption DEF IInv, TypeOK, NotAhead, ClockAllowsDeletion, PastReading,
     Answered, Reuse, ReadsClock, Reusable, Judge, Verdict, Window, files, history,
     Never, Readings, Works
<1>4. LeapShows'
  BY NumbersAssumption DEF IInv, TypeOK, LeapShows, Reuse, ReadsClock, Reusable,
     Judge, Verdict, Window, files, history, Never, Readings, Works
<1>5. GapKept'
  BY NumbersAssumption DEF IInv, TypeOK, GapKept, ClockAllowsDeletion, Reuse,
     ReadsClock, Reusable, Judge, Verdict, Window, files, history, Never, Readings,
     Works
<1>6. Unread' /\ Stamped' /\ PastReading' /\ Gained' /\ SweepPast' /\ ReadingCovers' /\ LowFits'
  BY NumbersAssumption DEF IInv, TypeOK, Unread, Stamped, Present, PastReading,
     Answered, Gained, SweepPast, ReadingCovers, LowFits, Reuse, ReadsClock, Reusable,
     Judge, Verdict, Window, files, history, Never, Readings, Works
<1> QED  BY <1>1, <1>2, <1>3, <1>4, <1>5, <1>6 DEF IInv

\* A new reading is the true time, which no evidence is later than.
LEMMA ProbeInv ==
  ASSUME IInv, Probe
  PROVE  IInv'
<1>1. left' \in [Kinds -> Nat]
  BY SpentTyped DEF IInv, TypeOK, Probe, Fault, Kinds
<1>2. work.now \in Nat /\ ServerTime \in Nat
  BY DEF IInv, TypeOK, Probe, ReadsClock, ServerTime
<1>3. [at |-> work.now, server |-> ServerTime, failed |-> FALSE] \in Readings
  BY <1>2 DEF Readings
<1>4. reading' \in Readings \union {NoReading}
  BY <1>3 DEF IInv, TypeOK, Probe, SaveReading
<1>5. back' \in BOOLEAN
  BY DEF IInv, TypeOK, Probe, SaveReading, Works
<1>6. work' \in Works
  BY DEF IInv, TypeOK, Probe, Judge, Verdict, Works, Never
<1>7. TypeOK'
  BY NumbersAssumption, <1>1, <1>2, <1>3, <1>4, <1>5, <1>6 DEF IInv, TypeOK, Probe,
     ReadsClock, Judge, Verdict, ServerTime, SaveReading, files, history, Never,
     Readings, Works
<1>8. PastReading'
  BY NumbersAssumption, <1>1, <1>2, <1>3, <1>4, <1>5, <1>6 DEF IInv, TypeOK,
     PastReading, Answered, Probe, ReadsClock, Judge, Verdict, ServerTime,
     SaveReading, files, history, Never, Readings, Works
<1>9. Gained'
  BY NumbersAssumption, <1>1, <1>2, <1>3, <1>4, <1>5, <1>6 DEF IInv, TypeOK, Gained,
     Answered, SweepPast, Probe, ReadsClock, Judge, Verdict, ServerTime, SaveReading,
     files, history, Never, Readings, Works
<1>10. Agreed'
  BY NumbersAssumption, <1>1, <1>2, <1>3, <1>4, <1>5, <1>6 DEF IInv, TypeOK, Agreed,
     Present, ClockAgrees, Stamped, Probe, ReadsClock, Judge, Verdict, ServerTime,
     SaveReading, files, history, Never, Readings, Works
<1>11. NotAhead'
  BY NumbersAssumption, <1>1, <1>2, <1>3, <1>4, <1>5, <1>6 DEF IInv, TypeOK, NotAhead,
     ClockAllowsDeletion, Probe, ReadsClock, Judge, Verdict, ServerTime, SaveReading,
     files, history, Never, Readings, Works
<1>12. LeapShows'
  BY NumbersAssumption, <1>1, <1>2, <1>3, <1>4, <1>5, <1>6 DEF IInv, TypeOK,
     LeapShows, Probe, ReadsClock, Judge, Verdict, ServerTime, SaveReading, files,
     history, Never, Readings, Works
<1>13. GapKept'
  BY NumbersAssumption, <1>1, <1>2, <1>3, <1>4, <1>5, <1>6 DEF IInv, TypeOK, GapKept,
     ClockAllowsDeletion, Probe, ReadsClock, Judge, Verdict, ServerTime, SaveReading,
     files, history, Never, Readings, Works
<1>14. Unread' /\ Stamped' /\ SweepPast' /\ ReadingCovers' /\ LowFits'
  BY NumbersAssumption, <1>1, <1>2, <1>3, <1>4, <1>5, <1>6 DEF IInv, TypeOK, Unread,
     Stamped, Present, SweepPast, ReadingCovers, Answered, LowFits, Probe, ReadsClock,
     Judge, Verdict, ServerTime, SaveReading, files, history, Never, Readings, Works
<1> QED  BY <1>7, <1>8, <1>9, <1>10, <1>11, <1>12, <1>13, <1>14 DEF IInv

\* A failed probe holds deletions back.
LEMMA ProbeFailsInv ==
  ASSUME IInv, ProbeFails
  PROVE  IInv'
<1>1. left' \in [Kinds -> Nat]
  BY SpentTyped DEF IInv, TypeOK, ProbeFails, Fault, Kinds
<1>2. work.now \in Nat
  BY DEF IInv, TypeOK, ProbeFails, ReadsClock
<1>3. [at |-> work.now, server |-> 0, failed |-> TRUE] \in Readings
  BY <1>2 DEF Readings
<1>4. reading' \in Readings \union {NoReading}
  BY <1>3 DEF IInv, TypeOK, ProbeFails, SaveReading
<1>5. back' \in BOOLEAN
  BY DEF IInv, TypeOK, ProbeFails, SaveReading, Works
<1>6. TypeOK'
  BY NumbersAssumption, <1>1, <1>2, <1>3, <1>4, <1>5 DEF IInv, TypeOK, ProbeFails,
     ReadsClock, Judge, SaveReading, files, history, Never, Readings, Works
<1>7. PastReading'
  BY NumbersAssumption, <1>1, <1>2, <1>3, <1>4, <1>5 DEF IInv, TypeOK, PastReading,
     Answered, ProbeFails, ReadsClock, Judge, SaveReading, files, history, Never,
     Readings, Works
<1>8. Gained'
  BY NumbersAssumption, <1>1, <1>2, <1>3, <1>4, <1>5 DEF IInv, TypeOK, Gained,
     Answered, ProbeFails, ReadsClock, Judge, SaveReading, files, history, Never,
     Readings, Works
<1>9. LeapShows'
  BY NumbersAssumption, <1>1, <1>2, <1>3, <1>4, <1>5 DEF IInv, TypeOK, LeapShows,
     ProbeFails, ReadsClock, Judge, SaveReading, files, history, Never, Readings,
     Works
<1>10. Unread' /\ Stamped' /\ SweepPast' /\ ReadingCovers' /\ Agreed' /\ NotAhead' /\ LowFits' /\ GapKept'
  BY NumbersAssumption, <1>1, <1>2, <1>3, <1>4, <1>5 DEF IInv, TypeOK, Unread,
     Stamped, Present, SweepPast, ReadingCovers, Answered, Agreed, ClockAgrees,
     NotAhead, ClockAllowsDeletion, LowFits, GapKept, ProbeFails, ReadsClock, Judge,
     SaveReading, files, history, Never, Readings, Works
<1> QED  BY <1>6, <1>7, <1>8, <1>9, <1>10 DEF IInv

\* A clamp, of a session or of the ledger, keeps the skew.
LEMMA ClampToInv ==
  ASSUME IInv, NEW S \in SUBSET Evidence, ClockAgrees, \A e \in S : Present(e), ClampTo(S)
  PROVE  IInv'
<1>1. TypeOK'
  BY NumbersAssumption DEF IInv, TypeOK, ClampTo, Earlier, ClockAgrees, files,
     history, Never, Readings, Works, Kinds
<1>2. Stamped'
  BY NumbersAssumption DEF IInv, TypeOK, Stamped, Present, ClampTo, Earlier,
     ClockAgrees, files, history, Never, Readings, Works
<1>3. Agreed'
  BY NumbersAssumption DEF IInv, TypeOK, Agreed, Present, ClockAgrees, ClampTo,
     Earlier, files, history, Never, Readings, Works
<1>4. LowFits'
  BY NumbersAssumption DEF IInv, TypeOK, LowFits, Present, Agreed, ClockAgrees,
     ClampTo, Earlier, files, history, Never, Readings, Works
<1>5. Unread' /\ PastReading' /\ Gained' /\ SweepPast' /\ ReadingCovers' /\ NotAhead' /\ LeapShows' /\ GapKept'
  BY NumbersAssumption DEF IInv, TypeOK, Unread, PastReading, Answered, Gained,
     SweepPast, ReadingCovers, Present, NotAhead, ClockAllowsDeletion, LeapShows,
     GapKept, ClampTo, Earlier, ClockAgrees, files, history, Never, Readings, Works
<1> QED  BY <1>1, <1>2, <1>3, <1>4, <1>5 DEF IInv

\* What is deleted is not there to be early.
LEMMA DeleteInv ==
  ASSUME IInv, NEW e \in Evidence, Delete(e)
  PROVE  IInv'
<1>1. TypeOK'
  BY NumbersAssumption DEF IInv, TypeOK, Delete, files, history, Never, Readings,
     Works, Kinds
<1>2. Stamped'
  BY NumbersAssumption DEF IInv, TypeOK, Stamped, Present, Delete, files, history,
     Never, Readings, Works
<1>3. Agreed'
  BY NumbersAssumption DEF IInv, TypeOK, Agreed, Present, ClockAgrees, Delete, files,
     history, Never, Readings, Works
<1>4. LowFits'
  BY NumbersAssumption DEF IInv, TypeOK, LowFits, Present, Delete, files, history,
     Never, Readings, Works
<1>5. Unread' /\ PastReading' /\ Gained' /\ SweepPast' /\ ReadingCovers' /\ NotAhead' /\ LeapShows' /\ GapKept'
  BY NumbersAssumption DEF IInv, TypeOK, Unread, PastReading, Answered, Gained,
     SweepPast, ReadingCovers, Present, NotAhead, ClockAllowsDeletion, LeapShows,
     GapKept, Delete, files, history, Never, Readings, Works
<1> QED  BY <1>1, <1>2, <1>3, <1>4, <1>5 DEF IInv

\* A pass that ends leaves its verdict behind.
LEMMA EndPassInv ==
  ASSUME IInv, EndPass, left' \in [Kinds -> Nat]
  PROVE  IInv'
<1>1. TypeOK'
  BY NumbersAssumption DEF IInv, TypeOK, EndPass, Idle, files, history, Never,
     Readings, Works, Kinds
<1>2. Unread' /\ Stamped' /\ PastReading' /\ Gained' /\ SweepPast' /\ ReadingCovers' /\ Agreed' /\ NotAhead' /\ LowFits' /\ LeapShows' /\ GapKept'
  BY NumbersAssumption DEF IInv, TypeOK, Unread, Stamped, Present, PastReading,
     Answered, Gained, SweepPast, ReadingCovers, Agreed, ClockAgrees, NotAhead,
     ClockAllowsDeletion, LowFits, LeapShows, GapKept, EndPass, Idle, files, history,
     Never, Readings, Works
<1> QED  BY <1>1, <1>2 DEF IInv

\* A step of the specification is one of the above.
LEMMA NextInv ==
  ASSUME IInv, [Next]_vars
  PROVE  IInv'
<1>1. CASE Tick
  BY <1>1, TickInv
<1>2. ASSUME NEW c \in Settings, SetClock(c)
      PROVE  IInv'
  BY <1>2, SetClockInv
<1>3. CASE PassStep
  <2>1. ASSUME NEW S \in SUBSET Evidence, Collect(S)
        PROVE  IInv'
    BY <2>1, CollectInv
  <2>2. CASE StartSweep
    BY <2>2, StartSweepInv
  <2>3. CASE Reuse
    BY <2>3, ReuseInv
  <2>4. CASE Probe
    BY <2>4, ProbeInv
  <2>5. ASSUME NEW e \in Captures, ClampCapture(e)
        PROVE  IInv'
    <3>1. {e} \in SUBSET Evidence
      BY DEF Evidence
    <3>2. ClockAgrees /\ (\A x \in {e} : Present(x)) /\ ClampTo({e})
      BY <2>5 DEF ClampCapture, FromFuture
    <3> QED  BY <3>1, <3>2, ClampToInv
  <2>6. CASE ClampLedger
    <3> DEFINE S == {e \in Entries : Present(e) /\ stamp[e] > work.now}
    <3>1. S \in SUBSET Evidence
      BY DEF Evidence
    <3>2. ClockAgrees /\ (\A x \in S : Present(x)) /\ ClampTo(S)
      BY <2>6 DEF ClampLedger
    <3> HIDE DEF S
    <3> QED  BY <3>1, <3>2, ClampToInv
  <2>7. ASSUME NEW e \in Evidence, Delete(e)
        PROVE  IInv'
    BY <2>7, DeleteInv
  <2>8. CASE Finish
    <3>1. EndPass /\ left' \in [Kinds -> Nat]
      BY <2>8 DEF Finish, IInv, TypeOK
    <3> QED  BY <3>1, EndPassInv
  <2> QED  BY <1>3, <2>1, <2>2, <2>3, <2>4, <2>5, <2>6, <2>7, <2>8 DEF PassStep
<1>4. CASE ProbeFails
  BY <1>4, ProbeFailsInv
<1>5. CASE Interrupted
  <2>1. left' \in [Kinds -> Nat]
    BY <1>5, SpentTyped DEF Interrupted, Fault, IInv, TypeOK, Kinds
  <2> QED  BY <1>5, <2>1, EndPassInv DEF Interrupted
<1>6. CASE UNCHANGED vars
  BY <1>6 DEF vars, files, history, IInv, TypeOK, Unread, Stamped, Present, PastReading,
     Answered, Gained, SweepPast, ReadingCovers, Agreed, ClockAgrees, NotAhead,
     ClockAllowsDeletion, LowFits, LeapShows, GapKept
<1> QED  BY <1>1, <1>2, <1>3, <1>4, <1>5, <1>6 DEF Next

-----------------------------------------------------------------------------
(* Theorems                                                                *)

\* However the clock is set, and whatever fails, a reading never says more than
\* the true time and a verdict fits the readings it was taken from.
THEOREM Invariance == Spec => []IInv
<1>1. Init => IInv
  BY InitInv
<1>2. IInv /\ [Next]_vars => IInv'
  BY NextInv
<1> QED  BY <1>1, <1>2, PTL DEF Spec

\* Status, saved reading, stamps and the pass's memory keep their types, and a
\* sweep has read its clock.
THEOREM TypeCorrect == Spec => []TypeOK
<1>1. IInv => TypeOK
  BY DEF IInv
<1> QED  BY <1>1, Invariance, PTL

\* Only a deletion takes evidence away, so what is to show is about a deletion.
LEMMA OnlyDeleteTakes ==
  ASSUME IInv, [Next]_vars, NEW e \in Evidence, Present(e), stamp'[e] = Never
  PROVE  Delete(e)
<1>1. ASSUME NEW S \in SUBSET Evidence, Collect(S)
      PROVE  FALSE
  BY <1>1 DEF IInv, TypeOK, Collect, Present, Never
<1>2. ASSUME NEW S \in SUBSET Evidence, ClockAgrees, ClampTo(S)
      PROVE  FALSE
  BY <1>2 DEF IInv, TypeOK, ClampTo, ClockAgrees, Present, Never
<1>3. ASSUME NEW x \in Evidence, Delete(x), x # e
      PROVE  FALSE
  BY <1>3 DEF IInv, TypeOK, Delete, Present
<1>4. ASSUME UNCHANGED stamp
      PROVE  FALSE
  BY <1>4 DEF Present
<1>5. ASSUME NEW x \in Captures, ClampCapture(x)
      PROVE  FALSE
  BY <1>5, <1>2 DEF ClampCapture, Evidence
<1>6. ASSUME ClampLedger
      PROVE  FALSE
  BY <1>6, <1>2 DEF ClampLedger, Evidence
<1>7. Tick \/ StartSweep \/ Reuse \/ Probe \/ Finish \/ ProbeFails \/ Interrupted \/ UNCHANGED vars
        => UNCHANGED stamp
  BY DEF Tick, StartSweep, Reuse, Probe, Finish, ProbeFails, Interrupted, EndPass, vars, files
<1>8. \A c \in Settings : SetClock(c) => UNCHANGED stamp
  BY DEF SetClock, files
<1> QED  BY <1>1, <1>3, <1>4, <1>5, <1>6, <1>7, <1>8 DEF Next, PassStep

\* No setting of the clock, at any step of any pass, has a sweep delete what is
\* not old enough in true time, up to the skew and a reading's age; and where
\* the storage service shares the clock, none deletes in the pass after a leap.
THEOREM NothingDeletedEarly == Spec => KeptItsTime
<1> DEFINE InTime(e) ==
             IF shared
             THEN work.previous # Never => work.leap <= Gap
             ELSE now + Skew + Agreeing > low[e] + Age[e]
<1>1. ASSUME IInv, NEW e \in Evidence, Delete(e)
      PROVE  InTime(e)
  <2>1. ClockAllowsDeletion /\ Present(e) /\ work.now - stamp[e] >= Age[e] /\ pc = "sweep"
    BY <1>1 DEF Delete, Expired, ClockAllowsDeletion
  <2>2. /\ work.now \in Nat /\ now \in Nat /\ stamp[e] \in Nat /\ low[e] \in Int /\ Age[e] \in Nat
        /\ Skew \in Nat /\ Gap \in Nat /\ Agreeing \in Nat
    BY <1>1, <2>1, NumbersAssumption DEF IInv, TypeOK, Present
  <2>3. CASE shared
    <3>1. work.leap \in Int /\ work.previous \in Nat \union {Never}
      BY <1>1 DEF IInv, TypeOK, Works
    <3>2. work.previous # Never => work.now - work.previous >= work.leap /\ work.now - work.previous <= Gap
      BY <1>1, <2>1, <2>3 DEF IInv, LeapShows, GapKept
    <3> QED  BY <2>2, <2>3, <3>1, <3>2
  <2>4. CASE ~shared
    <3>1. work.now < now + Skew + Agreeing /\ low[e] <= stamp[e]
      BY <1>1, <2>1, <2>4 DEF IInv, NotAhead, LowFits
    <3> QED  BY <2>1, <2>2, <2>4, <3>1
  <2> QED  BY <2>3, <2>4
<1>2. IInv /\ [Next]_vars =>
        [\A e \in Evidence : Present(e) /\ stamp'[e] = Never => InTime(e)]_vars
  BY <1>1, OnlyDeleteTakes
<1> QED  BY <1>2, Invariance, PTL DEF Spec, KeptItsTime
=============================================================================
