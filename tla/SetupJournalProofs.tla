------------------------- MODULE SetupJournalProofs -------------------------
(***************************************************************************)
(* SetupJournal for any files, jobs, plans and bounds: no hook or pass runs *)
(* on half of a setup, a record that is removed leaves all of the setup or *)
(* none of it, and nothing the user wrote is lost but in the moment of     *)
(* setup's own write.                                                      *)
(***************************************************************************)
EXTENDS SetupJournal, TLAPS

\* The places where the file at hand was read and is about to be written.
Writing == {"replace", "readback", "unwrite", "rewrite"}

\* Commit once every file is as setup leaves it.
Applied == {"retire", "retire_stop", "remove", "start", "committed"}

\* Commit while the jobs it manages are stopped.
Stopped == {"apply", "replace", "readback", "retire", "retire_stop", "remove"}

\* Restore once no file is as setup left it, and once every job is back.
RolledBackTo == {"reload", "old_check", "old_write", "old_load", "restored"}
Reloaded == RolledBackTo \ {"reload"}

\* The types of TypeOK, part by part, and where in the order of files each step is.
PlaceTyped ==
  /\ pc \in Steps
  /\ tx \in Records \union {NoJournal} /\ (tx = NoJournal <=> pc = "idle")
  /\ journal \in Records \union {NoJournal}
  /\ passing \in BOOLEAN /\ abandoned \in BOOLEAN

IndexTyped ==
  /\ at \in 0 .. Len(FileOrder) + 1
  /\ pc \in Writing => at \in 1 .. Len(FileOrder)
  /\ pc = "apply" => at \in 1 .. Len(FileOrder) + 1
  /\ pc \in {"unapply", "rollback"} => at \in 0 .. Len(FileOrder)

FilesTyped ==
  /\ file \in [Files -> Contents]
  /\ changed \subseteq Files
  /\ failed \in BOOLEAN /\ late \in BOOLEAN

JobsTyped ==
  /\ job \in [Roles -> JobStates] /\ seen \in [Roles -> JobStates]
  /\ todo \subseteq Roles

OldTyped == old \in [file : {"before", "gone", "edited"}, job : {"loaded", "missing", "other"}]

BudgetTyped == left \in [Kinds -> Nat]

Types ==
  PlaceTyped /\ IndexTyped /\ FilesTyped /\ JobsTyped /\ OldTyped /\ BudgetTyped

\* A hook or pass runs when no setup does, and none is recorded; what is recorded
\* while one runs is what it has in memory.
Recorded ==
  /\ passing => pc = "idle" /\ journal = NoJournal
  /\ pc = "journal" => journal = NoJournal
  /\ pc \notin {"idle", "journal"} => journal = tx

\* With no setup running or recorded, the files are of one side.
OneSided ==
  pc = "idle" /\ journal = NoJournal /\ ~abandoned =>
    \/ \A f \in Files : file[f] # "after"
    \/ \A f \in Files : file[f] # "before"

\* How far Commit and Restore have come with the files.
Progress ==
  /\ pc = "journal" => \A f \in Files : file[f] # "after"
  /\ pc \in {"apply", "replace", "readback"} =>
       \A i \in 1 .. at - 1 : file[FileOrder[i]] # "before"
  /\ pc \in Applied => \A f \in Files : file[f] # "before"
  /\ pc \in {"unload", "rollback", "rewrite"} =>
       \A f \in Files : file[f] = "after" => f \in changed
  /\ pc = "rollback" =>
       failed \/ \A i \in at + 1 .. Len(FileOrder) : file[FileOrder[i]] # "after"
  /\ pc = "rewrite" =>
       failed \/ \A i \in at + 1 .. Len(FileOrder) : file[FileOrder[i]] # "after"
  /\ pc \in RolledBackTo => \A f \in Files : file[f] # "after"

\* How far Commit has come with the jobs it manages: those that are loaded are
\* stopped, and started again from what setup wrote.
Started ==
  /\ pc = "journal" => \A r \in Managed : tx.was[r] \/ ~Active(job[r])
  /\ pc = "stop" => \A r \in Managed \ todo : ~Active(job[r])
  /\ pc \in Stopped => \A r \in Managed : ~Active(job[r])
  /\ pc \in {"start", "committed"} =>
       \A r \in Managed : IF r \in Starting \ todo
                          THEN job[r] \in {"after", "edited"}
                          ELSE ~Active(job[r])
  /\ pc = "start" => todo \subseteq Starting
  /\ pc = "committed" => todo = {}

\* How far Restore has: they are stopped, and those that were loaded are loaded
\* again from what setup found, or have become another installation's.
Restarted ==
  /\ pc = "unload" => \A r \in Managed \ todo : ~Active(job[r])
  /\ pc \in {"rollback", "rewrite"} => \A r \in Managed : ~Active(job[r])
  /\ pc \in {"unload", "rollback", "rewrite"} =>
       \A r \in Roles : seen[r] = "other" => job[r] = "other"
  /\ pc \in RolledBackTo =>
       \A r \in Managed :
         IF tx.was[r] THEN r \in todo \/ job[r] \in {"before", "edited", "other"}
                      ELSE ~Active(job[r])
  /\ pc = "reload" => todo \subseteq WereLoaded
  /\ pc \in Reloaded => todo = {}

\* How far the retired job is gone, and back.
Retired ==
  tx # NoJournal /\ tx.plan.retires =>
    /\ pc \in Stopped \union {"journal", "stop"} => tx.wasOld \/ old.job # "loaded"
    /\ pc \in {"remove", "start", "committed"} => old.job # "loaded"
    /\ pc \in {"start", "committed"} => old.file # "before"
    /\ pc \in {"old_load", "restored"} => old.file # "gone"
    /\ pc = "restored" /\ tx.wasOld => old.job # "missing"

\* An edited file that is about to be written was edited since it was read.
ReadFirst ==
  /\ pc \in Writing => (file[Current] = "edited" => late)
  /\ ReplacingOld => (old.file = "edited" => late)

\* The inductive invariant.
IInv ==
  /\ Types
  /\ Recorded /\ OneSided /\ Progress
  /\ Started /\ Restarted /\ Retired
  /\ ReadFirst

-----------------------------------------------------------------------------
(* Facts about the plan and the steps                                      *)

\* FileOrder has a length, and its members are the files.
LEMMA Ordered ==
  /\ Len(FileOrder) \in Nat /\ DOMAIN FileOrder = 1 .. Len(FileOrder)
  /\ \A f \in Files : \E i \in 1 .. Len(FileOrder) : f = FileOrder[i]
  /\ \A i \in 1 .. Len(FileOrder) : FileOrder[i] \in Files
BY OrderAssumption DEF Files

\* A running setup has a record in memory, and on disk once it is past writing it.
LEMMA HasRecord ==
  ASSUME IInv
  PROVE  /\ pc # "idle" => tx \in Records /\ tx # NoJournal
         /\ pc \notin {"idle", "journal"} => journal \in Records /\ journal # NoJournal
BY DEF IInv, Types, PlaceTyped, Recorded

\* A plan is a record of what is loaded.
LEMMA PlanTyped ==
  ASSUME IInv, Plan
  PROVE  /\ tx' \in Records /\ tx' # NoJournal
         /\ \A r \in Roles : tx'.was[r] <=> Active(job[r])
         /\ tx'.wasOld <=> old.job = "loaded"
<1>1. PICK p \in Plans :
        tx' = [plan |-> p, was |-> [r \in Roles |-> Active(job[r])],
               wasOld |-> old.job = "loaded"]
  BY DEF Plan
<1>2. tx' \in Records
  BY <1>1 DEF Records, Active
<1> QED  BY <1>1, <1>2, PlansAssumption DEF Records

\* A call of the job manager leaves jobs, and takes a fault from the bound at most.
LEMMA JobsMoved ==
  ASSUME IInv, NEW r \in Roles,
         UnloadSucceeds(r) \/ UnloadFails(r) \/ LoadSucceeds(r) \/ LoadFails(r)
  PROVE  job' \in [Roles -> JobStates] /\ left' \in [Kinds -> Nat]
<1>1. Definition[r] \in Files
  BY PlansAssumption
<1> QED  BY <1>1
         DEF IInv, Types, FilesTyped, JobsTyped, BudgetTyped, JobStates, Contents, Spend,
             Unloaded, UnloadSucceeds, UnloadFails, Loaded, LoadSucceeds, LoadFails

\* A job that is started runs what the file that defines it holds.
LEMMA LoadedFrom ==
  ASSUME IInv, NEW r \in Roles, LoadSucceeds(r)
  PROVE  /\ Definition[r] \in Files /\ file[Definition[r]] \in Contents
         /\ \A q \in Roles : job'[q] = IF q = r THEN file[Definition[r]] ELSE job[q]
<1>1. Definition[r] \in Files
  BY PlansAssumption
<1> QED  BY <1>1 DEF IInv, Types, FilesTyped, JobsTyped, LoadSucceeds, Loaded

-----------------------------------------------------------------------------
(* The invariant is inductive                                              *)

\* Where setup is, and the plan it has in memory and on disk.
LEMMA PlaceTypedKept ==
  ASSUME IInv, Next
  PROVE  PlaceTyped'
<1> USE HasRecord DEF IInv, Goto, Then, Spend, Leave, Blocked, Outside, machine, memory,
          DoneWith, At, Turn, Types, PlaceTyped, Steps
<1>1. CASE Plan
  BY <1>1, PlanTyped DEF Plan
<1>2. CASE \/ WriteJournal \/ StopJob \/ StoppedAll \/ ApplyCheck \/ ApplyReplace
           \/ ApplyReadBack \/ AppliedAll \/ UnapplyCheck
  BY <1>2
  DEF WriteJournal, StopJob, StoppedAll, ApplyCheck, ApplyReplace, ApplyReadBack,
      AppliedAll, UnapplyCheck
<1>3. CASE \/ UnapplyWrite \/ UnappliedAll \/ RetireCheck \/ RetireStop \/ RetireRemove
           \/ StartJob \/ StartedAll \/ CommitDone
  BY <1>3
  DEF UnapplyWrite, UnappliedAll, RetireCheck, RetireStop, RetireRemove, StartJob,
      StartedAll, CommitDone
<1>4. CASE \/ RestoreCheck \/ RestoreStop \/ RestoreStopped \/ RollbackCheck
           \/ RollbackWrite \/ RolledBack \/ RestoreStart \/ RestoreStarted
  BY <1>4
  DEF RestoreCheck, RestoreStop, RestoreStopped, RollbackCheck, RollbackWrite, RolledBack,
      RestoreStart, RestoreStarted
<1>5. CASE \/ OldCheck \/ OldWrite \/ OldLoad \/ RestoreDone \/ Recover \/ Abandon
           \/ PassBegins \/ PassEnds
  BY <1>5
  DEF OldCheck, OldWrite, OldLoad, RestoreDone, Recover, Abandon, PassBegins, PassEnds
<1>6. CASE Crash
  BY <1>6 DEF Crash
<1>7. CASE Relogin
  BY <1>7 DEF Relogin
<1>8. CASE \/ EditFile \/ EditOld \/ TakeName
  BY <1>8 DEF EditFile, EditOld, TakeName
<1> QED  BY <1>1, <1>2, <1>3, <1>4, <1>5, <1>6, <1>7, <1>8 DEF Next, Commit, Restore

\* The next file is one of the plan's, or past one of its ends.
LEMMA IndexTypedKept ==
  ASSUME IInv, Next
  PROVE  IndexTyped'
<1> USE Ordered DEF IInv, Goto, Then, Spend, Leave, Blocked, Outside, machine, memory,
          DoneWith, At, Turn, Types, IndexTyped, Writing, InFiles
<1>1. CASE \/ Plan \/ WriteJournal \/ StopJob \/ StoppedAll \/ ApplyCheck \/ ApplyReplace
           \/ ApplyReadBack \/ AppliedAll
  BY <1>1
  DEF Plan, WriteJournal, StopJob, StoppedAll, ApplyCheck, ApplyReplace, ApplyReadBack,
      AppliedAll
<1>2. CASE \/ UnapplyCheck \/ UnapplyWrite \/ UnappliedAll \/ RetireCheck \/ RetireStop
           \/ RetireRemove \/ StartJob \/ StartedAll
  BY <1>2
  DEF UnapplyCheck, UnapplyWrite, UnappliedAll, RetireCheck, RetireStop, RetireRemove,
      StartJob, StartedAll
<1>3. CASE \/ CommitDone \/ RestoreCheck \/ RestoreStop \/ RestoreStopped \/ RollbackCheck
           \/ RollbackWrite \/ RolledBack \/ RestoreStart
  BY <1>3
  DEF CommitDone, RestoreCheck, RestoreStop, RestoreStopped, RollbackCheck, RollbackWrite,
      RolledBack, RestoreStart
<1>4. CASE \/ RestoreStarted \/ OldCheck \/ OldWrite \/ OldLoad \/ RestoreDone \/ Recover
           \/ Abandon \/ PassBegins
  BY <1>4
  DEF RestoreStarted, OldCheck, OldWrite, OldLoad, RestoreDone, Recover, Abandon, PassBegins
<1>5. CASE \/ PassEnds \/ Crash
  BY <1>5 DEF PassEnds, Crash
<1>6. CASE Relogin
  BY <1>6 DEF Relogin
<1>7. CASE \/ EditFile \/ EditOld \/ TakeName
  BY <1>7 DEF EditFile, EditOld, TakeName
<1> QED  BY <1>1, <1>2, <1>3, <1>4, <1>5, <1>6, <1>7 DEF Next, Commit, Restore

\* What files hold, and what Restore has found about them.
LEMMA FilesTypedKept ==
  ASSUME IInv, Next
  PROVE  FilesTyped'
<1> USE Ordered DEF IInv, Goto, Then, Spend, Leave, Blocked, Outside, machine, memory,
          DoneWith, At, Turn, Types, FilesTyped, IndexTyped, Contents, Current, Writing,
          PutBack
<1>1. CASE \/ Plan \/ WriteJournal \/ StopJob \/ StoppedAll \/ ApplyCheck
  BY <1>1
  DEF Plan, WriteJournal, StopJob, StoppedAll, ApplyCheck
<1>2. CASE ApplyReplace
  BY <1>2 DEF ApplyReplace
<1>3. CASE ApplyReadBack
  BY <1>3 DEF ApplyReadBack
<1>4. CASE \/ AppliedAll \/ UnapplyCheck
  BY <1>4 DEF AppliedAll, UnapplyCheck
<1>5. CASE UnapplyWrite
  BY <1>5 DEF UnapplyWrite
<1>6. CASE \/ UnappliedAll \/ RetireCheck \/ RetireStop \/ RetireRemove \/ StartJob
           \/ StartedAll \/ CommitDone
  BY <1>6
  DEF UnappliedAll, RetireCheck, RetireStop, RetireRemove, StartJob, StartedAll, CommitDone
<1>7. CASE RestoreCheck
  BY <1>7 DEF RestoreCheck
<1>8. CASE \/ RestoreStop \/ RestoreStopped \/ RollbackCheck
  BY <1>8 DEF RestoreStop, RestoreStopped, RollbackCheck
<1>9. CASE RollbackWrite
  BY <1>9 DEF RollbackWrite
<1>10. CASE \/ RolledBack \/ RestoreStart \/ RestoreStarted \/ OldCheck \/ OldWrite
            \/ OldLoad \/ RestoreDone \/ Recover
  BY <1>10
  DEF RolledBack, RestoreStart, RestoreStarted, OldCheck, OldWrite, OldLoad, RestoreDone,
      Recover
<1>11. CASE \/ Abandon \/ PassBegins \/ PassEnds \/ Crash
  BY <1>11
  DEF Abandon, PassBegins, PassEnds, Crash
<1>12. CASE Relogin
  BY <1>12 DEF Relogin
<1>13. CASE EditFile
  BY <1>13 DEF EditFile
<1>14. CASE EditOld
  BY <1>14 DEF EditOld
<1>15. CASE TakeName
  BY <1>15 DEF TakeName
<1> QED  BY <1>1, <1>2, <1>3, <1>4, <1>5, <1>6, <1>7, <1>8, <1>9, <1>10, <1>11, <1>12,
            <1>13, <1>14, <1>15 DEF Next, Commit, Restore

\* What jobs run, and which are still to be stopped or started.
LEMMA JobsTypedKept ==
  ASSUME IInv, Next
  PROVE  JobsTyped'
<1> USE DEF IInv, Goto, Then, Spend, Leave, Blocked, Outside, machine, memory, DoneWith, At,
          Turn, Types, JobsTyped, JobStates, Managed, Starting, WereLoaded
<1>1. CASE \/ Plan \/ WriteJournal
  BY <1>1 DEF Plan, WriteJournal
<1>2. CASE StopJob
  BY <1>2, JobsMoved DEF StopJob
<1>3. CASE \/ StoppedAll \/ ApplyCheck \/ ApplyReplace \/ ApplyReadBack \/ AppliedAll
           \/ UnapplyCheck \/ UnapplyWrite \/ UnappliedAll
  BY <1>3
  DEF StoppedAll, ApplyCheck, ApplyReplace, ApplyReadBack, AppliedAll, UnapplyCheck,
      UnapplyWrite, UnappliedAll
<1>4. CASE \/ RetireCheck \/ RetireStop \/ RetireRemove
  BY <1>4 DEF RetireCheck, RetireStop, RetireRemove
<1>5. CASE StartJob
  BY <1>5, JobsMoved DEF StartJob
<1>6. CASE \/ StartedAll \/ CommitDone
  BY <1>6 DEF StartedAll, CommitDone
<1>7. CASE RestoreCheck
  BY <1>7 DEF RestoreCheck
<1>8. CASE RestoreStop
  BY <1>8, JobsMoved DEF RestoreStop
<1>9. CASE \/ RestoreStopped \/ RollbackCheck \/ RollbackWrite \/ RolledBack
  BY <1>9
  DEF RestoreStopped, RollbackCheck, RollbackWrite, RolledBack
<1>10. CASE RestoreStart
  BY <1>10, JobsMoved DEF RestoreStart
<1>11. CASE \/ RestoreStarted \/ OldCheck \/ OldWrite \/ OldLoad \/ RestoreDone \/ Recover
            \/ Abandon \/ PassBegins
  BY <1>11
  DEF RestoreStarted, OldCheck, OldWrite, OldLoad, RestoreDone, Recover, Abandon, PassBegins
<1>12. CASE \/ PassEnds \/ Crash
  BY <1>12 DEF PassEnds, Crash
<1>13. CASE Relogin
  <2>1. PICK loads \in SUBSET {r \in Roles : job[r] # "other" /\ Defined(r)} :
          job' = [r \in Roles |-> IF r \in loads THEN file[Definition[r]]
                                  ELSE IF job[r] = "other" THEN "other" ELSE "missing"]
    BY <1>13 DEF Relogin
  <2>2. \A r \in Roles : file[Definition[r]] \in Contents
    BY PlansAssumption DEF FilesTyped
  <2>3. job' \in [Roles -> JobStates]
    BY <2>1, <2>2
  <2> QED  BY <1>13, <2>3 DEF Relogin
<1>14. CASE \/ EditFile \/ EditOld
  BY <1>14 DEF EditFile, EditOld
<1>15. CASE TakeName
  BY <1>15 DEF TakeName
<1> QED  BY <1>1, <1>2, <1>3, <1>4, <1>5, <1>6, <1>7, <1>8, <1>9, <1>10, <1>11, <1>12,
            <1>13, <1>14, <1>15 DEF Next, Commit, Restore

\* What the retired job's file holds and whether it is loaded.
LEMMA OldTypedKept ==
  ASSUME IInv, Next
  PROVE  OldTyped'
<1> USE DEF IInv, Goto, Then, Spend, Leave, Blocked, Outside, machine, memory, DoneWith, At,
          Turn, Types, OldTyped, OldStopped, OldStarted
<1>1. CASE \/ Plan \/ WriteJournal \/ StopJob \/ StoppedAll \/ ApplyCheck \/ ApplyReplace
           \/ ApplyReadBack \/ AppliedAll
  BY <1>1
  DEF Plan, WriteJournal, StopJob, StoppedAll, ApplyCheck, ApplyReplace, ApplyReadBack,
      AppliedAll
<1>2. CASE \/ UnapplyCheck \/ UnapplyWrite \/ UnappliedAll \/ RetireCheck
  BY <1>2
  DEF UnapplyCheck, UnapplyWrite, UnappliedAll, RetireCheck
<1>3. CASE RetireStop
  BY <1>3 DEF RetireStop
<1>4. CASE RetireRemove
  BY <1>4 DEF RetireRemove
<1>5. CASE \/ StartJob \/ StartedAll \/ CommitDone \/ RestoreCheck \/ RestoreStop
           \/ RestoreStopped \/ RollbackCheck \/ RollbackWrite
  BY <1>5
  DEF StartJob, StartedAll, CommitDone, RestoreCheck, RestoreStop, RestoreStopped,
      RollbackCheck, RollbackWrite
<1>6. CASE \/ RolledBack \/ RestoreStart \/ RestoreStarted \/ OldCheck
  BY <1>6
  DEF RolledBack, RestoreStart, RestoreStarted, OldCheck
<1>7. CASE OldWrite
  BY <1>7 DEF OldWrite
<1>8. CASE OldLoad
  BY <1>8 DEF OldLoad
<1>9. CASE \/ RestoreDone \/ Recover \/ Abandon \/ PassBegins \/ PassEnds \/ Crash
  BY <1>9
  DEF RestoreDone, Recover, Abandon, PassBegins, PassEnds, Crash
<1>10. CASE Relogin
  BY <1>10 DEF Relogin
<1>11. CASE EditFile
  BY <1>11 DEF EditFile
<1>12. CASE EditOld
  BY <1>12 DEF EditOld
<1>13. CASE TakeName
  BY <1>13 DEF TakeName
<1> QED  BY <1>1, <1>2, <1>3, <1>4, <1>5, <1>6, <1>7, <1>8, <1>9, <1>10, <1>11, <1>12, <1>13
         DEF Next, Commit, Restore

\* No outside event happens more often than the bound says.
LEMMA BudgetTypedKept ==
  ASSUME IInv, Next
  PROVE  BudgetTyped'
<1> USE DEF IInv, Goto, Then, Spend, Leave, Blocked, Outside, machine, memory, DoneWith, At,
          Turn, Types, BudgetTyped, JobsTyped, PutBack
<1>1. CASE \/ Plan \/ WriteJournal
  BY <1>1 DEF Plan, WriteJournal
<1>2. CASE StopJob
  BY <1>2, JobsMoved DEF StopJob
<1>3. CASE \/ StoppedAll \/ ApplyCheck \/ ApplyReplace \/ ApplyReadBack \/ AppliedAll
           \/ UnapplyCheck \/ UnapplyWrite \/ UnappliedAll
  BY <1>3
  DEF StoppedAll, ApplyCheck, ApplyReplace, ApplyReadBack, AppliedAll, UnapplyCheck,
      UnapplyWrite, UnappliedAll
<1>4. CASE \/ RetireCheck \/ RetireStop \/ RetireRemove
  BY <1>4 DEF RetireCheck, RetireStop, RetireRemove
<1>5. CASE StartJob
  BY <1>5, JobsMoved DEF StartJob
<1>6. CASE \/ StartedAll \/ CommitDone \/ RestoreCheck
  BY <1>6 DEF StartedAll, CommitDone, RestoreCheck
<1>7. CASE RestoreStop
  BY <1>7, JobsMoved DEF RestoreStop
<1>8. CASE \/ RestoreStopped \/ RollbackCheck \/ RollbackWrite \/ RolledBack
  BY <1>8
  DEF RestoreStopped, RollbackCheck, RollbackWrite, RolledBack
<1>9. CASE RestoreStart
  BY <1>9, JobsMoved DEF RestoreStart
<1>10. CASE \/ RestoreStarted \/ OldCheck \/ OldWrite \/ OldLoad \/ RestoreDone \/ Recover
            \/ Abandon \/ PassBegins
  BY <1>10
  DEF RestoreStarted, OldCheck, OldWrite, OldLoad, RestoreDone, Recover, Abandon, PassBegins
<1>11. CASE \/ PassEnds \/ Crash \/ Relogin \/ EditFile \/ EditOld \/ TakeName
  BY <1>11
  DEF PassEnds, Crash, Relogin, EditFile, EditOld, TakeName
<1> QED  BY <1>1, <1>2, <1>3, <1>4, <1>5, <1>6, <1>7, <1>8, <1>9, <1>10, <1>11
         DEF Next, Commit, Restore

\* Setup runs without hooks and passes, and what it runs on is recorded.
LEMMA RecordedKept ==
  ASSUME IInv, Next
  PROVE  Recorded'
<1> USE DEF IInv, Goto, Then, Spend, Leave, Blocked, Outside, machine, memory, DoneWith, At,
          Turn, Recorded
<1>1. CASE \/ Plan \/ WriteJournal \/ StopJob \/ StoppedAll \/ ApplyCheck \/ ApplyReplace
           \/ ApplyReadBack \/ AppliedAll
  BY <1>1
  DEF Plan, WriteJournal, StopJob, StoppedAll, ApplyCheck, ApplyReplace, ApplyReadBack,
      AppliedAll
<1>2. CASE \/ UnapplyCheck \/ UnapplyWrite \/ UnappliedAll \/ RetireCheck \/ RetireStop
           \/ RetireRemove \/ StartJob \/ StartedAll
  BY <1>2
  DEF UnapplyCheck, UnapplyWrite, UnappliedAll, RetireCheck, RetireStop, RetireRemove,
      StartJob, StartedAll
<1>3. CASE \/ CommitDone \/ RestoreCheck \/ RestoreStop \/ RestoreStopped \/ RollbackCheck
           \/ RollbackWrite \/ RolledBack \/ RestoreStart
  BY <1>3
  DEF CommitDone, RestoreCheck, RestoreStop, RestoreStopped, RollbackCheck, RollbackWrite,
      RolledBack, RestoreStart
<1>4. CASE \/ RestoreStarted \/ OldCheck \/ OldWrite \/ OldLoad \/ RestoreDone \/ Recover
           \/ Abandon \/ PassBegins
  BY <1>4
  DEF RestoreStarted, OldCheck, OldWrite, OldLoad, RestoreDone, Recover, Abandon, PassBegins
<1>5. CASE \/ PassEnds \/ Crash
  BY <1>5 DEF PassEnds, Crash
<1>6. CASE Relogin
  BY <1>6 DEF Relogin
<1>7. CASE \/ EditFile \/ EditOld \/ TakeName
  BY <1>7 DEF EditFile, EditOld, TakeName
<1> QED  BY <1>1, <1>2, <1>3, <1>4, <1>5, <1>6, <1>7 DEF Next, Commit, Restore

\* No setup ends, dies or is given up on halfway without a record.
LEMMA OneSidedKept ==
  ASSUME IInv, Next
  PROVE  OneSided'
<1> USE HasRecord DEF IInv, Goto, Then, Spend, Leave, Blocked, Outside, machine, memory,
          DoneWith, At, Turn, OneSided, Recorded, Progress, Applied, RolledBackTo
<1>1. CASE Plan
  BY <1>1 DEF Plan
<1>2. CASE WriteJournal
  BY <1>2 DEF WriteJournal
<1>3. CASE \/ StopJob \/ StoppedAll \/ ApplyCheck
  BY <1>3 DEF StopJob, StoppedAll, ApplyCheck
<1>4. CASE ApplyReplace
  BY <1>4 DEF ApplyReplace
<1>5. CASE ApplyReadBack
  BY <1>5 DEF ApplyReadBack
<1>6. CASE \/ AppliedAll \/ UnapplyCheck
  BY <1>6 DEF AppliedAll, UnapplyCheck
<1>7. CASE UnapplyWrite
  BY <1>7 DEF UnapplyWrite
<1>8. CASE \/ UnappliedAll \/ RetireCheck \/ RetireStop \/ RetireRemove \/ StartJob
           \/ StartedAll
  BY <1>8
  DEF UnappliedAll, RetireCheck, RetireStop, RetireRemove, StartJob, StartedAll
<1>9. CASE CommitDone
  BY <1>9 DEF CommitDone
<1>10. CASE \/ RestoreCheck \/ RestoreStop \/ RestoreStopped \/ RollbackCheck
  BY <1>10
  DEF RestoreCheck, RestoreStop, RestoreStopped, RollbackCheck
<1>11. CASE RollbackWrite
  BY <1>11 DEF RollbackWrite
<1>12. CASE \/ RolledBack \/ RestoreStart \/ RestoreStarted \/ OldCheck \/ OldWrite
            \/ OldLoad
  BY <1>12
  DEF RolledBack, RestoreStart, RestoreStarted, OldCheck, OldWrite, OldLoad
<1>13. CASE RestoreDone
  BY <1>13 DEF RestoreDone
<1>14. CASE Recover
  BY <1>14 DEF Recover
<1>15. CASE Abandon
  BY <1>15 DEF Abandon
<1>16. CASE \/ PassBegins \/ PassEnds
  BY <1>16 DEF PassBegins, PassEnds
<1>17. CASE Crash
  BY <1>17 DEF Crash
<1>18. CASE Relogin
  BY <1>18 DEF Relogin
<1>19. CASE EditFile
  BY <1>19 DEF EditFile
<1>20. CASE \/ EditOld \/ TakeName
  BY <1>20 DEF EditOld, TakeName
<1> QED  BY <1>1, <1>2, <1>3, <1>4, <1>5, <1>6, <1>7, <1>8, <1>9, <1>10, <1>11, <1>12,
            <1>13, <1>14, <1>15, <1>16, <1>17, <1>18, <1>19, <1>20 DEF Next, Commit, Restore

\* Commit applies the files in their order, and Restore takes back in the other
\* order those it finds applied.
LEMMA ProgressKept ==
  ASSUME IInv, Next
  PROVE  Progress'
<1> USE Ordered DEF IInv, Goto, Then, Spend, Leave, Blocked, Outside, machine, memory,
          DoneWith, At, Turn, Progress, Types, IndexTyped, FilesTyped, Contents, Applied,
          RolledBackTo, PutBack, Current, InFiles, Writing
<1>1. CASE Plan
  BY <1>1 DEF Plan
<1>2. CASE WriteJournal
  BY <1>2 DEF WriteJournal
<1>3. CASE \/ StopJob \/ StoppedAll
  BY <1>3 DEF StopJob, StoppedAll
<1>4. CASE ApplyCheck
  BY <1>4 DEF ApplyCheck
<1>5. CASE ApplyReplace
  BY <1>5 DEF ApplyReplace
<1>6. CASE ApplyReadBack
  BY <1>6 DEF ApplyReadBack
<1>7. CASE AppliedAll
  BY <1>7 DEF AppliedAll
<1>8. CASE UnapplyCheck
  BY <1>8 DEF UnapplyCheck
<1>9. CASE UnapplyWrite
  BY <1>9 DEF UnapplyWrite
<1>10. CASE \/ UnappliedAll \/ RetireCheck \/ RetireStop \/ RetireRemove \/ StartJob
            \/ StartedAll
  BY <1>10
  DEF UnappliedAll, RetireCheck, RetireStop, RetireRemove, StartJob, StartedAll
<1>11. CASE CommitDone
  BY <1>11 DEF CommitDone
<1>12. CASE RestoreCheck
  BY <1>12 DEF RestoreCheck
<1>13. CASE RestoreStop
  BY <1>13 DEF RestoreStop
<1>14. CASE RestoreStopped
  BY <1>14 DEF RestoreStopped
<1>15. CASE RollbackCheck
  BY <1>15 DEF RollbackCheck
<1>16. CASE RollbackWrite
  <2>1. at \in 1 .. Len(FileOrder) /\ Current \in Files
    BY <1>16 DEF RollbackWrite
  <2>2. file' = [file EXCEPT ![Current] = "before"] \/ file' = file
    BY <1>16 DEF RollbackWrite
  <2>3. \A f \in Files : file'[f] \in {file[f], "before"}
    BY <2>1, <2>2
  <2>4. \A f \in Files : file'[f] = "after" => f \in changed'
    BY <1>16, <2>3 DEF RollbackWrite
  <2>5. failed' \/ \A i \in at .. Len(FileOrder) : file'[FileOrder[i]] # "after"
    <3> SUFFICES ASSUME ~failed', NEW i \in at .. Len(FileOrder)
                 PROVE  file'[FileOrder[i]] # "after"
      OBVIOUS
    <3>1. CASE i = at
      BY <1>16, <3>1 DEF RollbackWrite
    <3>2. CASE i # at
      BY <1>16, <2>1, <2>3, <3>2 DEF RollbackWrite
    <3> QED  BY <3>1, <3>2
  <2>6. pc' = "rollback" /\ at' = at - 1
    BY <1>16 DEF RollbackWrite
  <2> QED  BY <2>1, <2>4, <2>5, <2>6
<1>17. CASE RolledBack
  BY <1>17 DEF RolledBack
<1>18. CASE \/ RestoreStart \/ RestoreStarted \/ OldCheck \/ OldWrite \/ OldLoad
  BY <1>18
  DEF RestoreStart, RestoreStarted, OldCheck, OldWrite, OldLoad
<1>19. CASE RestoreDone
  BY <1>19 DEF RestoreDone
<1>20. CASE Recover
  BY <1>20 DEF Recover
<1>21. CASE Abandon
  BY <1>21 DEF Abandon
<1>22. CASE \/ PassBegins \/ PassEnds
  BY <1>22 DEF PassBegins, PassEnds
<1>23. CASE Crash
  BY <1>23 DEF Crash
<1>24. CASE Relogin
  BY <1>24 DEF Relogin
<1>25. CASE EditFile
  BY <1>25 DEF EditFile
<1>26. CASE \/ EditOld \/ TakeName
  BY <1>26 DEF EditOld, TakeName
<1> QED  BY <1>1, <1>2, <1>3, <1>4, <1>5, <1>6, <1>7, <1>8, <1>9, <1>10, <1>11, <1>12,
            <1>13, <1>14, <1>15, <1>16, <1>17, <1>18, <1>19, <1>20, <1>21, <1>22, <1>23,
            <1>24, <1>25, <1>26 DEF Next, Commit, Restore

\* Commit stops what is loaded, and starts it from what it has applied.
LEMMA StartedKept ==
  ASSUME IInv, Next
  PROVE  Started'
<1> USE HasRecord DEF IInv, Goto, Then, Spend, Leave, Blocked, Outside, machine, memory,
          DoneWith, At, Turn, Started, Progress, Applied, Stopped, Starting, Starts, Types,
          PlaceTyped, FilesTyped, JobsTyped, Contents, JobStates, Managed, WereLoaded,
          Mutates, Active, Unloaded, UnloadSucceeds, UnloadFails, Loaded, Loadable,
          LoadSucceeds, LoadFails
<1>1. CASE Plan
  BY <1>1, PlanTyped DEF Plan
<1>2. CASE WriteJournal
  BY <1>2 DEF WriteJournal
<1>3. CASE StopJob
  BY <1>3 DEF StopJob
<1>4. CASE StoppedAll
  BY <1>4 DEF StoppedAll
<1>5. CASE \/ ApplyCheck \/ ApplyReplace \/ ApplyReadBack
  BY <1>5 DEF ApplyCheck, ApplyReplace, ApplyReadBack
<1>6. CASE AppliedAll
  BY <1>6 DEF AppliedAll
<1>7. CASE \/ UnapplyCheck \/ UnapplyWrite \/ UnappliedAll \/ RetireCheck \/ RetireStop
           \/ RetireRemove
  BY <1>7
  DEF UnapplyCheck, UnapplyWrite, UnappliedAll, RetireCheck, RetireStop, RetireRemove
<1>8. CASE StartJob
  <2>1. CASE pc' = "restore"
    BY <1>8, <2>1 DEF StartJob
  <2>2. CASE pc' # "restore"
    <3>1. PICK r \in todo : LoadSucceeds(r) /\ DoneWith(r)
      BY <1>8, <2>2 DEF StartJob
    <3>2. r \in Roles /\ \A f \in Files : file[f] # "before"
      BY <1>8, <3>1 DEF StartJob
    <3>3. file[Definition[r]] \in {"after", "edited"}
      BY <3>1, <3>2, LoadedFrom
    <3>4. \A q \in Roles : job'[q] = IF q = r THEN file[Definition[r]] ELSE job[q]
      BY <3>1, <3>2, LoadedFrom
    <3>5. pc' = "start" /\ todo' = todo \ {r} /\ tx' = tx
      BY <1>8, <3>1 DEF StartJob
    <3>6. Managed' = Managed /\ Starting' = Starting
      BY <3>5
    <3>7. \A q \in Managed :
            IF q \in Starting \ todo THEN job[q] \in {"after", "edited"}
            ELSE ~Active(job[q])
      BY <1>8 DEF StartJob
    <3>8. \A q \in Managed' :
            IF q \in Starting' \ todo' THEN job'[q] \in {"after", "edited"}
            ELSE ~Active(job'[q])
      <4> TAKE q \in Managed'
      <4>1. q \in Managed /\ q \in Roles
        BY <3>6
      <4>2. CASE q = r
        BY <3>1, <3>3, <3>4, <3>5, <3>7, <4>1, <4>2 DEF StartJob
      <4>3. CASE q # r
        BY <3>4, <3>5, <3>7, <4>1, <4>3
      <4> QED  BY <4>2, <4>3
    <3>9. todo' \subseteq Starting'
      BY <1>8, <3>5 DEF StartJob
    <3> QED  BY <3>5, <3>8, <3>9
  <2> QED  BY <2>1, <2>2
<1>9. CASE StartedAll
  BY <1>9 DEF StartedAll
<1>10. CASE CommitDone
  BY <1>10 DEF CommitDone
<1>11. CASE RestoreCheck
  BY <1>11 DEF RestoreCheck
<1>12. CASE RestoreStop
  BY <1>12 DEF RestoreStop
<1>13. CASE \/ RestoreStopped \/ RollbackCheck \/ RollbackWrite \/ RolledBack
  BY <1>13
  DEF RestoreStopped, RollbackCheck, RollbackWrite, RolledBack
<1>14. CASE RestoreStart
  BY <1>14 DEF RestoreStart
<1>15. CASE \/ RestoreStarted \/ OldCheck \/ OldWrite \/ OldLoad \/ RestoreDone \/ Recover
            \/ Abandon \/ PassBegins
  BY <1>15
  DEF RestoreStarted, OldCheck, OldWrite, OldLoad, RestoreDone, Recover, Abandon, PassBegins
<1>16. CASE \/ PassEnds \/ Crash
  BY <1>16 DEF PassEnds, Crash
<1>17. CASE Relogin
  BY <1>17 DEF Relogin
<1>18. CASE \/ EditFile \/ EditOld
  BY <1>18 DEF EditFile, EditOld
<1>19. CASE TakeName
  BY <1>19 DEF TakeName
<1> QED  BY <1>1, <1>2, <1>3, <1>4, <1>5, <1>6, <1>7, <1>8, <1>9, <1>10, <1>11, <1>12,
            <1>13, <1>14, <1>15, <1>16, <1>17, <1>18, <1>19 DEF Next, Commit, Restore

\* Restore stops what Commit may have started, and starts what was loaded from
\* what it has put back.
LEMMA RestartedKept ==
  ASSUME IInv, Next
  PROVE  Restarted'
<1> USE HasRecord DEF IInv, Goto, Then, Spend, Leave, Blocked, Outside, machine, memory,
          DoneWith, At, Turn, Restarted, Progress, RolledBackTo, Reloaded, Types,
          PlaceTyped, FilesTyped, JobsTyped, Contents, JobStates, Managed, WereLoaded,
          Mutates, Active, Unloaded, UnloadSucceeds, UnloadFails, Loaded, Loadable,
          LoadSucceeds, LoadFails
<1>1. CASE \/ Plan \/ WriteJournal
  BY <1>1 DEF Plan, WriteJournal
<1>2. CASE StopJob
  BY <1>2 DEF StopJob
<1>3. CASE \/ StoppedAll \/ ApplyCheck \/ ApplyReplace \/ ApplyReadBack \/ AppliedAll
           \/ UnapplyCheck \/ UnapplyWrite \/ UnappliedAll
  BY <1>3
  DEF StoppedAll, ApplyCheck, ApplyReplace, ApplyReadBack, AppliedAll, UnapplyCheck,
      UnapplyWrite, UnappliedAll
<1>4. CASE \/ RetireCheck \/ RetireStop \/ RetireRemove
  BY <1>4 DEF RetireCheck, RetireStop, RetireRemove
<1>5. CASE StartJob
  BY <1>5 DEF StartJob
<1>6. CASE \/ StartedAll \/ CommitDone
  BY <1>6 DEF StartedAll, CommitDone
<1>7. CASE RestoreCheck
  BY <1>7 DEF RestoreCheck
<1>8. CASE RestoreStop
  BY <1>8 DEF RestoreStop
<1>9. CASE \/ RestoreStopped \/ RollbackCheck \/ RollbackWrite
  BY <1>9 DEF RestoreStopped, RollbackCheck, RollbackWrite
<1>10. CASE RolledBack
  BY <1>10 DEF RolledBack
<1>11. CASE RestoreStart
  <2>1. CASE pc' = "idle"
    BY <1>11, <2>1 DEF RestoreStart
  <2>2. CASE pc' # "idle"
    <3>1. PICK r \in todo : LoadSucceeds(r) /\ DoneWith(r)
      BY <1>11, <2>2 DEF RestoreStart
    <3>2. r \in Roles /\ \A f \in Files : file[f] # "after"
      BY <1>11, <3>1 DEF RestoreStart
    <3>3. file[Definition[r]] \in {"before", "edited"}
      BY <3>1, <3>2, LoadedFrom
    <3>4. \A q \in Roles : job'[q] = IF q = r THEN file[Definition[r]] ELSE job[q]
      BY <3>1, <3>2, LoadedFrom
    <3>5. pc' = "reload" /\ todo' = todo \ {r} /\ tx' = tx
      BY <1>11, <3>1 DEF RestoreStart
    <3>6. Managed' = Managed
      BY <3>5
    <3>7. \A q \in Managed :
            IF tx.was[q] THEN q \in todo \/ job[q] \in {"before", "edited", "other"}
            ELSE ~Active(job[q])
      BY <1>11 DEF RestoreStart
    <3>8. \A q \in Managed' :
            IF tx'.was[q] THEN q \in todo' \/ job'[q] \in {"before", "edited", "other"}
            ELSE ~Active(job'[q])
      <4> TAKE q \in Managed'
      <4>1. q \in Managed /\ q \in Roles
        BY <3>6
      <4>2. CASE q = r
        BY <3>1, <3>3, <3>4, <3>5, <3>7, <4>1, <4>2 DEF RestoreStart
      <4>3. CASE q # r
        BY <3>4, <3>5, <3>7, <4>1, <4>3
      <4> QED  BY <4>2, <4>3
    <3>9. todo' \subseteq WereLoaded'
      BY <1>11, <3>5 DEF RestoreStart
    <3> QED  BY <3>5, <3>8, <3>9
  <2> QED  BY <2>1, <2>2
<1>12. CASE RestoreStarted
  BY <1>12 DEF RestoreStarted
<1>13. CASE \/ OldCheck \/ OldWrite \/ OldLoad \/ RestoreDone \/ Recover \/ Abandon
            \/ PassBegins \/ PassEnds
  BY <1>13
  DEF OldCheck, OldWrite, OldLoad, RestoreDone, Recover, Abandon, PassBegins, PassEnds
<1>14. CASE Crash
  BY <1>14 DEF Crash
<1>15. CASE Relogin
  BY <1>15 DEF Relogin
<1>16. CASE \/ EditFile \/ EditOld
  BY <1>16 DEF EditFile, EditOld
<1>17. CASE TakeName
  BY <1>17 DEF TakeName
<1> QED  BY <1>1, <1>2, <1>3, <1>4, <1>5, <1>6, <1>7, <1>8, <1>9, <1>10, <1>11, <1>12,
            <1>13, <1>14, <1>15, <1>16, <1>17 DEF Next, Commit, Restore

\* The retired job is stopped before its definition goes, and its definition is
\* back before it is started.
LEMMA RetiredKept ==
  ASSUME IInv, Next
  PROVE  Retired'
<1> USE HasRecord DEF IInv, Goto, Then, Spend, Leave, Blocked, Outside, machine, memory,
          DoneWith, At, Turn, Retired, Types, PlaceTyped, OldTyped, Stopped, OldStopped,
          OldStarted, Active
<1>1. CASE Plan
  BY <1>1, PlanTyped DEF Plan
<1>2. CASE \/ WriteJournal \/ StopJob \/ StoppedAll \/ ApplyCheck \/ ApplyReplace
           \/ ApplyReadBack \/ AppliedAll \/ UnapplyCheck
  BY <1>2
  DEF WriteJournal, StopJob, StoppedAll, ApplyCheck, ApplyReplace, ApplyReadBack,
      AppliedAll, UnapplyCheck
<1>3. CASE \/ UnapplyWrite \/ UnappliedAll \/ RetireCheck
  BY <1>3 DEF UnapplyWrite, UnappliedAll, RetireCheck
<1>4. CASE RetireStop
  BY <1>4 DEF RetireStop
<1>5. CASE RetireRemove
  BY <1>5 DEF RetireRemove
<1>6. CASE \/ StartJob \/ StartedAll \/ CommitDone \/ RestoreCheck \/ RestoreStop
           \/ RestoreStopped \/ RollbackCheck \/ RollbackWrite
  BY <1>6
  DEF StartJob, StartedAll, CommitDone, RestoreCheck, RestoreStop, RestoreStopped,
      RollbackCheck, RollbackWrite
<1>7. CASE \/ RolledBack \/ RestoreStart \/ RestoreStarted
  BY <1>7 DEF RolledBack, RestoreStart, RestoreStarted
<1>8. CASE OldCheck
  BY <1>8 DEF OldCheck
<1>9. CASE OldWrite
  BY <1>9 DEF OldWrite
<1>10. CASE OldLoad
  BY <1>10 DEF OldLoad
<1>11. CASE \/ RestoreDone \/ Recover \/ Abandon \/ PassBegins \/ PassEnds \/ Crash
  BY <1>11
  DEF RestoreDone, Recover, Abandon, PassBegins, PassEnds, Crash
<1>12. CASE Relogin
  BY <1>12 DEF Relogin
<1>13. CASE EditFile
  BY <1>13 DEF EditFile
<1>14. CASE EditOld
  BY <1>14 DEF EditOld
<1>15. CASE TakeName
  BY <1>15 DEF TakeName
<1> QED  BY <1>1, <1>2, <1>3, <1>4, <1>5, <1>6, <1>7, <1>8, <1>9, <1>10, <1>11, <1>12,
            <1>13, <1>14, <1>15 DEF Next, Commit, Restore

\* Whatever is about to be written was read first.
LEMMA ReadFirstKept ==
  ASSUME IInv, Next
  PROVE  ReadFirst'
<1> USE DEF IInv, Goto, Then, Spend, Leave, Blocked, Outside, machine, memory, DoneWith, At,
          Turn, ReadFirst, Types, IndexTyped, FilesTyped, OldTyped, Contents, Current,
          InFiles, Writing, Replacing, ReplacingOld, PutBack, OldStopped
<1>1. CASE \/ Plan \/ WriteJournal \/ StopJob \/ StoppedAll
  BY <1>1
  DEF Plan, WriteJournal, StopJob, StoppedAll
<1>2. CASE ApplyCheck
  BY <1>2 DEF ApplyCheck
<1>3. CASE ApplyReplace
  BY <1>3 DEF ApplyReplace
<1>4. CASE \/ ApplyReadBack \/ AppliedAll
  BY <1>4 DEF ApplyReadBack, AppliedAll
<1>5. CASE UnapplyCheck
  BY <1>5 DEF UnapplyCheck
<1>6. CASE \/ UnapplyWrite \/ UnappliedAll
  BY <1>6 DEF UnapplyWrite, UnappliedAll
<1>7. CASE RetireCheck
  BY <1>7 DEF RetireCheck
<1>8. CASE RetireStop
  BY <1>8 DEF RetireStop
<1>9. CASE \/ RetireRemove \/ StartJob \/ StartedAll \/ CommitDone \/ RestoreCheck
           \/ RestoreStop \/ RestoreStopped
  BY <1>9
  DEF RetireRemove, StartJob, StartedAll, CommitDone, RestoreCheck, RestoreStop,
      RestoreStopped
<1>10. CASE RollbackCheck
  BY <1>10 DEF RollbackCheck
<1>11. CASE \/ RollbackWrite \/ RolledBack \/ RestoreStart \/ RestoreStarted
  BY <1>11
  DEF RollbackWrite, RolledBack, RestoreStart, RestoreStarted
<1>12. CASE OldCheck
  BY <1>12 DEF OldCheck
<1>13. CASE \/ OldWrite \/ OldLoad \/ RestoreDone \/ Recover \/ Abandon \/ PassBegins
            \/ PassEnds \/ Crash
  BY <1>13
  DEF OldWrite, OldLoad, RestoreDone, Recover, Abandon, PassBegins, PassEnds, Crash
<1>14. CASE Relogin
  BY <1>14 DEF Relogin
<1>15. CASE EditFile
  <2>1. PICK f \in Files :
          file' = [file EXCEPT ![f] = "edited"] /\ late' = (late \/ Replacing(f))
    BY <1>15 DEF EditFile
  <2>2. pc' = pc /\ at' = at /\ old' = old
    BY <1>15 DEF EditFile
  <2>3. pc \in Writing => (file'[Current] = "edited" => late')
    BY <2>1, Ordered
  <2>4. late => late'
    BY <2>1
  <2> QED  BY <2>2, <2>3, <2>4
<1>16. CASE EditOld
  BY <1>16 DEF EditOld
<1>17. CASE TakeName
  BY <1>17 DEF TakeName
<1> QED  BY <1>1, <1>2, <1>3, <1>4, <1>5, <1>6, <1>7, <1>8, <1>9, <1>10, <1>11, <1>12,
            <1>13, <1>14, <1>15, <1>16, <1>17 DEF Next, Commit, Restore


\* Nothing is planned, recorded or running at first.
LEMMA InitIInv == Init => IInv
<1> SUFFICES ASSUME Init PROVE IInv
  OBVIOUS
<1>1. PlaceTyped
  BY DEF Init, PlaceTyped, Steps
<1>6. IndexTyped
  BY Ordered DEF Init, IndexTyped, Writing
<1>2. FilesTyped /\ JobsTyped
  BY DEF Init, FilesTyped, JobsTyped, Contents, JobStates
<1>3. OldTyped /\ BudgetTyped
  BY PlansAssumption DEF Init, OldTyped, BudgetTyped
<1>4. Recorded /\ OneSided /\ Progress
  BY DEF Init, Recorded, OneSided, Progress, Applied, RolledBackTo
<1>5. Started /\ Restarted /\ Retired /\ ReadFirst
  BY DEF Init, Started, Restarted, Retired, ReadFirst, Stopped, RolledBackTo, Reloaded, Writing,
         ReplacingOld
<1> QED  BY <1>1, <1>2, <1>3, <1>4, <1>5, <1>6 DEF IInv, Types

LEMMA NextIInv == IInv /\ [Next]_vars => IInv'
<1> SUFFICES ASSUME IInv, [Next]_vars PROVE IInv'
  OBVIOUS
<1>1. CASE Next
  <2>1. PlaceTyped' /\ IndexTyped' /\ FilesTyped' /\ JobsTyped' /\ OldTyped' /\ BudgetTyped'
    BY <1>1, PlaceTypedKept, IndexTypedKept, FilesTypedKept, JobsTypedKept, OldTypedKept,
       BudgetTypedKept
  <2>2. Recorded' /\ OneSided' /\ Progress'
    BY <1>1, RecordedKept, OneSidedKept, ProgressKept
  <2>3. Started' /\ Restarted' /\ Retired' /\ ReadFirst'
    BY <1>1, StartedKept, RestartedKept, RetiredKept, ReadFirstKept
  <2> QED  BY <2>1, <2>2, <2>3 DEF IInv, Types
<1>2. CASE UNCHANGED vars
  <2>1. PlaceTyped' /\ IndexTyped' /\ FilesTyped' /\ JobsTyped' /\ OldTyped' /\ BudgetTyped'
    BY <1>2 DEF vars, machine, memory, IInv, Types, PlaceTyped, IndexTyped, FilesTyped, JobsTyped,
                OldTyped, BudgetTyped
  <2>2. Recorded' /\ OneSided' /\ Progress'
    BY <1>2 DEF vars, machine, memory, IInv, Recorded, OneSided, Progress
  <2>3. Started' /\ Restarted'
    BY <1>2 DEF vars, machine, memory, IInv, Started, Restarted, Starting, Starts, WereLoaded,
                Managed, Mutates
  <2>4. Retired' /\ ReadFirst'
    BY <1>2 DEF vars, machine, memory, IInv, Retired, ReadFirst, Current, ReplacingOld
  <2> QED  BY <2>1, <2>2, <2>3, <2>4 DEF IInv, Types
<1> QED  BY <1>1, <1>2

-----------------------------------------------------------------------------
(* Theorems                                                                *)

\* What the user wrote is not lost in a step, nor is another installation's job.
LEMMA EditsKeptStep ==
  ASSUME IInv, Next
  PROVE  /\ \A f \in Files : EditKept(f)
         /\ old.file = "edited" /\ old'.file # "edited" => late /\ ReplacingOld
         /\ \A r \in Roles : job[r] = "other" => job'[r] = "other"
         /\ old.job = "other" => old'.job = "other"
<1> USE DEF IInv, Goto, Then, Spend, Leave, Blocked, Outside, machine, memory, DoneWith, At,
          Turn, Types, IndexTyped, FilesTyped, JobsTyped, OldTyped, ReadFirst, Writing,
          Current, InFiles, EditKept, Replacing, ReplacingOld, PutBack, OldStopped,
          OldStarted, Active, Unloaded, UnloadSucceeds, UnloadFails, Loaded, Loadable,
          LoadSucceeds, LoadFails
<1>1. CASE \/ Plan \/ WriteJournal
  BY <1>1 DEF Plan, WriteJournal
<1>2. CASE StopJob
  BY <1>2 DEF StopJob
<1>3. CASE \/ StoppedAll \/ ApplyCheck
  BY <1>3 DEF StoppedAll, ApplyCheck
<1>4. CASE ApplyReplace
  BY <1>4 DEF ApplyReplace
<1>5. CASE ApplyReadBack
  BY <1>5 DEF ApplyReadBack
<1>6. CASE \/ AppliedAll \/ UnapplyCheck
  BY <1>6 DEF AppliedAll, UnapplyCheck
<1>7. CASE UnapplyWrite
  BY <1>7 DEF UnapplyWrite
<1>8. CASE \/ UnappliedAll \/ RetireCheck
  BY <1>8 DEF UnappliedAll, RetireCheck
<1>9. CASE RetireStop
  BY <1>9 DEF RetireStop
<1>10. CASE RetireRemove
  BY <1>10 DEF RetireRemove
<1>11. CASE StartJob
  BY <1>11 DEF StartJob
<1>12. CASE \/ StartedAll \/ CommitDone \/ RestoreCheck
  BY <1>12 DEF StartedAll, CommitDone, RestoreCheck
<1>13. CASE RestoreStop
  BY <1>13 DEF RestoreStop
<1>14. CASE \/ RestoreStopped \/ RollbackCheck
  BY <1>14 DEF RestoreStopped, RollbackCheck
<1>15. CASE RollbackWrite
  BY <1>15 DEF RollbackWrite
<1>16. CASE RolledBack
  BY <1>16 DEF RolledBack
<1>17. CASE RestoreStart
  BY <1>17 DEF RestoreStart
<1>18. CASE \/ RestoreStarted \/ OldCheck
  BY <1>18 DEF RestoreStarted, OldCheck
<1>19. CASE OldWrite
  BY <1>19 DEF OldWrite
<1>20. CASE OldLoad
  BY <1>20 DEF OldLoad
<1>21. CASE \/ RestoreDone \/ Recover \/ Abandon \/ PassBegins \/ PassEnds \/ Crash
  BY <1>21
  DEF RestoreDone, Recover, Abandon, PassBegins, PassEnds, Crash
<1>22. CASE Relogin
  BY <1>22 DEF Relogin
<1>23. CASE EditFile
  BY <1>23 DEF EditFile
<1>24. CASE EditOld
  BY <1>24 DEF EditOld
<1>25. CASE TakeName
  BY <1>25 DEF TakeName
<1> QED  BY <1>1, <1>2, <1>3, <1>4, <1>5, <1>6, <1>7, <1>8, <1>9, <1>10, <1>11, <1>12,
            <1>13, <1>14, <1>15, <1>16, <1>17, <1>18, <1>19, <1>20, <1>21, <1>22, <1>23,
            <1>24, <1>25 DEF Next, Commit, Restore

\* Wherever a setup, its recovery or the user has come, what is recorded says how
\* far.
THEOREM Invariance == Spec => []IInv
<1> QED  BY InitIInv, NextIInv, PTL DEF Spec

\* Files, jobs, the record and setup's memory keep their types.
THEOREM TypeCorrect == Spec => []TypeOK
<1>1. IInv => TypeOK
  BY DEF IInv, Types, PlaceTyped, IndexTyped, FilesTyped, JobsTyped, OldTyped, BudgetTyped, TypeOK
<1> QED  BY <1>1, Invariance, PTL

\* A hook or a pass never runs on half of a setup (reloadPassConfig, and the
\* locks of applySetup).
THEOREM NoPassRunsHalfway == Spec => []NoPassHalfway
<1>1. IInv => NoPassHalfway
  BY DEF IInv, Recorded, OneSided, NoPassHalfway
<1> QED  BY <1>1, Invariance, PTL

\* A record that Restore removes leaves nothing of the setup (journal.go, Restore).
THEOREM RecoveryAlwaysWhole == Spec => []RecoveredWhole
<1>1. IInv => RecoveredWhole
  BY HasRecord DEF IInv, Types, JobsTyped, OldTyped, Progress, Restarted, Retired, RolledBackTo,
                   Reloaded, Managed, Active, RecoveredWhole
<1> QED  BY <1>1, Invariance, PTL

\* A record that Commit removes leaves all of the setup (journal.go, Commit).
THEOREM CommitAlwaysWhole == Spec => []CommittedWhole
<1>1. IInv => CommittedWhole
  BY HasRecord DEF IInv, Progress, Applied, Started, Retired, Managed, Starting, Mutates, Starts,
                   CommittedWhole
<1> QED  BY <1>1, Invariance, PTL

\* What the user wrote is lost only while setup is writing that very file, and
\* another installation's job is left alone.
THEOREM EditsAlwaysKept == Spec => EditsKept
<1>1. IInv /\ [Next]_vars =>
        [/\ \A f \in Files : EditKept(f)
         /\ old.file = "edited" /\ old'.file # "edited" => late /\ ReplacingOld
         /\ \A r \in Roles : job[r] = "other" => job'[r] = "other"
         /\ old.job = "other" => old'.job = "other"]_vars
  BY EditsKeptStep
<1> QED  BY <1>1, Invariance, PTL DEF Spec, EditsKept

=============================================================================
