---------------------------- MODULE SetupJournal ----------------------------
(***************************************************************************)
(* Setup's transaction (internal/setupjournal, internal/fileapply): the    *)
(* journal it writes before it changes a file or a background job, the     *)
(* commit, the restore a failed commit runs at once and the next setup     *)
(* runs for an interrupted one, and abandoning the record.                 *)
(*                                                                         *)
(* Commit and restore run under setup.lock, collector.lock, hooks.lock and *)
(* search-worker.lock, taken before the plan and released when the process *)
(* returns or dies; hooks and collector passes take one of those, and then *)
(* look for a journal.  A file is read, then replaced, then (by Apply) read *)
(* back, each a step, and so is each call of the job manager.  The user    *)
(* may edit a file between any two, and another installation may take the  *)
(* name of a job that is not loaded.                                       *)
(*                                                                         *)
(* The bytes of a file are "before" (as planned from), "after" (as the     *)
(* plan leaves them) or "edited"; an absent file is one of these too.      *)
(***************************************************************************)
EXTENDS Naturals, Sequences

CONSTANTS
  FileOrder,   \* the files of a plan, in the order they are applied
  Roles,       \* background jobs: the collector, or it and the search worker
  Definition,  \* Definition[r]: the file that defines job r
  Absent,      \* definitions that are not there before the setup
  Orphans,     \* a job may be loaded although its definition was deleted
  Plans,       \* what setups plan: [intent, guarded, retires]
  NoJournal,   \* there is no setup-transaction.json
  Budget       \* bound: how often each kind of outside event happens

Files == {FileOrder[i] : i \in DOMAIN FileOrder}
Kinds == {"edit", "take", "crash", "fault"}
Intents == {"keep", "ensure_running", "restart_if_loaded", "ensure_stopped"}
Contents == {"before", "after", "edited"}

ASSUME OrderAssumption == FileOrder \in Seq(Files)

ASSUME PlansAssumption ==
  /\ \A p \in Plans : /\ p.intent \in [Roles -> Intents]
                      /\ p.guarded \in BOOLEAN
                      /\ p.retires \in BOOLEAN
  /\ Definition \in [Roles -> Files]
  /\ Absent \subseteq Files /\ Orphans \in BOOLEAN
  /\ Budget \in [Kinds -> Nat]
  /\ NoJournal \notin [plan : Plans, was : [Roles -> BOOLEAN], wasOld : BOOLEAN]

VARIABLES
  file,       \* file[f]: what the file holds
  job,        \* job[r]: the contents of the definition it was loaded from,
              \* "missing", or "other" for another installation's job
  old,        \* the job setup retires: [file, job]
  journal,    \* setup-transaction.json: [plan, was, wasOld] or NoJournal
  pc,         \* where setup is; it has the locks unless it is "idle"
  tx,         \* the journal in setup's memory, or NoJournal
  at,         \* the index of the next file
  todo,       \* jobs still to be stopped or started
  seen,       \* what Restore's inspection said of each job
  changed,    \* the files Restore found as setup left them
  failed,     \* a rollback met a file it would not or could not put back
  late,       \* history: the file being replaced was edited since it was read
  passing,    \* a hook or a collector pass is running
  abandoned,  \* history: an interrupted setup was abandoned
  left        \* outside events left, by kind

memory == <<tx, at, todo, seen, changed, failed, late>>
machine == <<file, job, old>>
vars == <<machine, journal, pc, memory, passing, abandoned, left>>

-----------------------------------------------------------------------------
(* Helpers                                                                 *)

Goto(step) == pc' = step

\* The next step of setup, with nothing of its memory changed.
Then(step) == Goto(step) /\ UNCHANGED memory

Spend(kind) ==
  /\ left[kind] > 0
  /\ left' = [left EXCEPT ![kind] = @ - 1]

Active(state) == state \notin {"missing", "other"}

\* managedTarget.mutates and starts.
Mutates(r) ==
  \/ tx.plan.intent[r] \in {"ensure_running", "ensure_stopped"}
  \/ tx.plan.intent[r] = "restart_if_loaded" /\ tx.was[r]
Starts(r) ==
  \/ tx.plan.intent[r] = "ensure_running"
  \/ tx.plan.intent[r] = "restart_if_loaded" /\ tx.was[r]

Managed == {r \in Roles : Mutates(r)}
Starting == {r \in Roles : Starts(r)}
WereLoaded == {r \in Managed : tx.was[r]}

\* Scheduler.Unload: nil when nothing is loaded, an error for another
\* installation's job; the manager may fail with or without effect.
Unloaded(r) == IF Active(job[r]) THEN [job EXCEPT ![r] = "missing"] ELSE job
UnloadSucceeds(r) == job[r] # "other" /\ job' = Unloaded(r) /\ UNCHANGED left
UnloadFails(r) ==
  \/ job[r] = "other" /\ UNCHANGED <<job, left>>
  \/ Spend("fault") /\ job' \in {job, Unloaded(r)}

\* Scheduler.Load: the definition on disk, if there is one and the name is free.
Defined(r) == Definition[r] \in Absent => file[Definition[r]] # "before"
Loadable(r) == job[r] = "missing" /\ Defined(r)
Loaded(r) == IF Loadable(r) THEN [job EXCEPT ![r] = file[Definition[r]]] ELSE job
LoadSucceeds(r) == Loadable(r) /\ job' = Loaded(r) /\ UNCHANGED left
LoadFails(r) ==
  \/ ~Loadable(r) /\ UNCHANGED <<job, left>>
  \/ Spend("fault") /\ job' \in {job, Loaded(r)}

\* The process returns or dies: its memory and its locks are gone.
Leave ==
  /\ Goto("idle")
  /\ tx' = NoJournal /\ at' = 0 /\ todo' = {} /\ changed' = {}
  /\ failed' = FALSE /\ late' = FALSE
  /\ seen' = [r \in Roles |-> "missing"]

Outside == <<passing, abandoned>>
Current == FileOrder[at]
InFiles == at \in DOMAIN FileOrder

-----------------------------------------------------------------------------
(* Commit                                                                  *)

\* applySetup, refresh: under the locks, a plan from the files and jobs as they
\* are.  A job of another installation refuses it.
Plan ==
  /\ pc = "idle" /\ ~passing /\ journal = NoJournal
  /\ \A f \in Files : file[f] = "before"
  /\ \A r \in Roles : job[r] # "other"
  /\ old.job # "other"
  /\ \E p \in Plans :
       /\ p.retires => old.file = "before"
       /\ tx' = [plan |-> p, was |-> [r \in Roles |-> Active(job[r])],
                 wasOld |-> old.job = "loaded"]
  /\ Goto("journal")
  /\ UNCHANGED <<machine, journal, at, todo, seen, changed, failed, late, Outside, left>>

\* A guarded plan asks about its jobs once more; then the journal is durable
\* before anything changes.  A failed write leaves the old journal or the new.
WriteJournal ==
  /\ pc = "journal"
  /\ \/ /\ tx.plan.guarded => \A r \in Managed : job[r] # "other"
        /\ journal' = tx
        /\ Goto("stop") /\ todo' = WereLoaded
        /\ UNCHANGED <<tx, at, seen, changed, failed, late, left>>
     \/ /\ tx.plan.guarded /\ \E r \in Managed : job[r] = "other"
        /\ Leave /\ UNCHANGED <<journal, left>>
     \/ Spend("fault") /\ journal' \in {NoJournal, tx} /\ Leave
  /\ UNCHANGED <<machine, Outside>>

\* Work on a job: done with it, or the step that a failure leads to.
DoneWith(r) == todo' = todo \ {r} /\ UNCHANGED <<pc, tx, at, seen, changed, failed, late>>

\* Fault: a job that could not be stopped is passed over.
StopJobRegardless ==
  /\ pc = "stop"
  /\ \E r \in todo : (UnloadSucceeds(r) \/ UnloadFails(r)) /\ DoneWith(r)
  /\ UNCHANGED <<file, old, journal, Outside>>

StopJob ==
  /\ pc = "stop"
  /\ \E r \in todo : \/ UnloadSucceeds(r) /\ DoneWith(r)
                     \/ UnloadFails(r) /\ Then("restore")
  /\ UNCHANGED <<file, old, journal, Outside>>

At(step, index) == Goto(step) /\ at' = index /\ UNCHANGED <<tx, todo, seen, changed, failed, late>>
Turn(step, jobs) == Goto(step) /\ todo' = jobs /\ UNCHANGED <<tx, at, seen, changed, failed, late>>
StoppedAll ==
  /\ pc = "stop" /\ todo = {}
  /\ At("apply", 1)
  /\ UNCHANGED <<machine, journal, Outside, left>>

\* fileapply.Apply reads the file: only one as planned from is replaced, and
\* what is applied before a failure is taken back.
ApplyCheck ==
  /\ pc = "apply" /\ InFiles
  /\ IF file[Current] = "before" THEN Then("replace") ELSE At("unapply", at - 1)
  /\ UNCHANGED <<machine, journal, Outside, left>>

ApplyReplace ==
  /\ pc = "replace"
  /\ \/ file' = [file EXCEPT ![Current] = "after"] /\ Then("readback") /\ UNCHANGED left
     \/ Spend("fault") /\ UNCHANGED file
        /\ Goto("unapply") /\ at' = at - 1 /\ late' = FALSE
        /\ UNCHANGED <<tx, todo, seen, changed, failed>>
  /\ UNCHANGED <<job, old, journal, Outside>>

\* Fault: a rollback removes the file whatever was there before.
PutBackRemoved == file' = [file EXCEPT ![Current] = "gone"] /\ UNCHANGED left

\* The write of a rollback, which may fail.
PutBack ==
  \/ file' = [file EXCEPT ![Current] = "before"] /\ UNCHANGED left
  \/ Spend("fault") /\ UNCHANGED file

\* A file that does not read back as written, or not at all, is put back at once
\* (priorFile.restore), which may fail.
ApplyReadBack ==
  /\ pc = "readback"
  /\ late' = FALSE
  /\ \/ file[Current] = "after" /\ Goto("apply") /\ at' = at + 1 /\ UNCHANGED <<file, left>>
     \/ file[Current] # "after" /\ Goto("unapply") /\ at' = at - 1 /\ PutBack
     \/ /\ Spend("fault") /\ file' = [file EXCEPT ![Current] = "before"]
        /\ Goto("unapply") /\ at' = at - 1
  /\ UNCHANGED <<job, old, journal, tx, todo, seen, changed, failed, Outside>>

AppliedAll ==
  /\ pc = "apply" /\ ~InFiles
  /\ IF tx.plan.retires
     THEN Then("retire")
     ELSE Turn("start", Starting)
  /\ UNCHANGED <<machine, journal, Outside, left>>

\* Apply's own rollback, from the last file applied to the first; it leaves a
\* file that is no longer as setup left it.
UnapplyCheck ==
  /\ pc = "unapply" /\ InFiles
  /\ IF file[Current] = "after" THEN Then("unwrite") ELSE At("unapply", at - 1)
  /\ UNCHANGED <<machine, journal, Outside, left>>

UnapplyWrite ==
  /\ pc = "unwrite"
  /\ PutBack
  /\ Goto("unapply") /\ at' = at - 1 /\ late' = FALSE
  /\ UNCHANGED <<job, old, journal, tx, todo, seen, changed, failed, Outside>>

UnappliedAll ==
  /\ pc = "unapply" /\ ~InFiles
  /\ Then("restore")
  /\ UNCHANGED <<machine, journal, Outside, left>>

\* retireLegacyJob: only a definition as planned from; the job is stopped before
\* its definition is removed.
RetireCheck ==
  /\ pc = "retire"
  /\ IF old.file = "before" THEN Then("retire_stop") ELSE Then("restore")
  /\ UNCHANGED <<machine, journal, Outside, left>>

OldStopped == [old EXCEPT !.job = IF @ = "loaded" THEN "missing" ELSE @]

RetireStop ==
  /\ pc = "retire_stop"
  /\ \/ ~tx.wasOld /\ Then("remove") /\ UNCHANGED <<old, left>>
     \/ tx.wasOld /\ old.job # "other" /\ old' = OldStopped /\ Then("remove") /\ UNCHANGED left
     \/ tx.wasOld /\ old.job = "other" /\ Then("restore") /\ UNCHANGED <<old, left>>
     \/ tx.wasOld /\ Spend("fault") /\ old' \in {old, OldStopped} /\ Then("restore")
  /\ UNCHANGED <<file, job, journal, Outside>>

RetireRemove ==
  /\ pc = "remove"
  /\ late' = FALSE
  /\ \/ old' = [old EXCEPT !.file = "gone"] /\ Goto("start") /\ todo' = Starting
        /\ UNCHANGED left
     \/ Spend("fault") /\ Goto("restore") /\ UNCHANGED <<old, todo>>
  /\ UNCHANGED <<file, job, journal, tx, at, seen, changed, failed, Outside>>

StartJob ==
  /\ pc = "start"
  /\ \E r \in todo : \/ LoadSucceeds(r) /\ DoneWith(r)
                     \/ LoadFails(r) /\ Then("restore")
  /\ UNCHANGED <<file, old, journal, Outside>>

StartedAll ==
  /\ pc = "start" /\ todo = {}
  /\ Then("committed")
  /\ UNCHANGED <<machine, journal, Outside, left>>

CommitDone ==
  /\ pc = "committed"
  /\ \/ journal' = NoJournal /\ Leave /\ UNCHANGED left
     \/ Spend("fault") /\ Then("restore") /\ UNCHANGED journal
  /\ UNCHANGED <<machine, Outside>>

-----------------------------------------------------------------------------
(* Restore: by the process whose commit failed, or by Recover              *)

\* Recovery stops, with the record kept for the user.
Blocked == Leave /\ UNCHANGED journal

\* Fault: only a setup that had applied every file is taken back.
RestorableApplied ==
  /\ \A f \in Files : file[f] = "after"
  /\ tx.plan.retires => old.file \in {"before", "gone"}
  /\ tx.plan.guarded => \A r \in Managed : job[r] # "other"

\* Every file is as setup found it or as setup left it, and the definition to
\* put back is unchanged or gone; every job can be asked, and a guarded plan's
\* jobs are this installation's.  Nothing is touched otherwise.
Restorable ==
  /\ \A f \in Files : file[f] \in {"before", "after"}
  /\ tx.plan.retires => old.file \in {"before", "gone"}
  /\ tx.plan.guarded => \A r \in Managed : job[r] # "other"

\* Fault: a job that was not loaded before is not stopped.
RestoreCheckLeavesStarted ==
  /\ pc = "restore"
  /\ \/ /\ Restorable
        /\ changed' = {f \in Files : file[f] = "after"}
        /\ seen' = job
        /\ todo' = {r \in WereLoaded : Active(job[r])}
        /\ Goto("unload") /\ late' = FALSE
        /\ UNCHANGED <<journal, tx, at, failed, left>>
     \/ ~Restorable /\ Blocked /\ UNCHANGED left
     \/ Spend("fault") /\ Blocked
  /\ UNCHANGED <<machine, Outside>>

RestoreCheck ==
  /\ pc = "restore"
  /\ \/ /\ Restorable
        /\ changed' = {f \in Files : file[f] = "after"}
        /\ seen' = job
        /\ todo' = {r \in Managed : Active(job[r])}
        /\ Goto("unload") /\ late' = FALSE
        /\ UNCHANGED <<journal, tx, at, failed, left>>
     \/ ~Restorable /\ Blocked /\ UNCHANGED left
     \/ Spend("fault") /\ Blocked
  /\ UNCHANGED <<machine, Outside>>

RestoreStop ==
  /\ pc = "unload"
  /\ \E r \in todo : \/ UnloadSucceeds(r) /\ DoneWith(r) /\ UNCHANGED journal
                     \/ UnloadFails(r) /\ Blocked
  /\ UNCHANGED <<file, old, Outside>>

RestoreStopped ==
  /\ pc = "unload" /\ todo = {}
  /\ At("rollback", Len(FileOrder))
  /\ UNCHANGED <<machine, journal, Outside, left>>

\* Fault: a file found changed by the first check is put back unread.
RollbackUnchecked ==
  /\ pc = "rollback" /\ InFiles
  /\ IF Current \in changed
     THEN Then("rewrite")
     ELSE At("rollback", at - 1)
  /\ UNCHANGED <<machine, journal, Outside, left>>

\* fileapply.Rollback of the files found changed, last first.
RollbackCheck ==
  /\ pc = "rollback" /\ InFiles
  /\ IF Current \in changed /\ file[Current] = "after"
     THEN Then("rewrite")
     ELSE /\ at' = at - 1
          /\ failed' = (failed \/ Current \in changed)
          /\ UNCHANGED <<pc, tx, todo, seen, changed, late>>
  /\ UNCHANGED <<machine, journal, Outside, left>>

RollbackWrite ==
  /\ pc = "rewrite"
  /\ PutBack
  /\ failed' = (failed \/ file'[Current] # "before")
  /\ Goto("rollback") /\ at' = at - 1 /\ late' = FALSE
  /\ UNCHANGED <<job, old, journal, tx, todo, seen, changed, Outside>>

RolledBack ==
  /\ pc = "rollback" /\ ~InFiles
  /\ IF failed
     THEN Blocked
     ELSE Turn("reload", {r \in WereLoaded : seen[r] # "other"}) /\ UNCHANGED journal
  /\ UNCHANGED <<machine, Outside, left>>

RestoreStart ==
  /\ pc = "reload"
  /\ \E r \in todo : \/ LoadSucceeds(r) /\ DoneWith(r) /\ UNCHANGED journal
                     \/ LoadFails(r) /\ Blocked
  /\ UNCHANGED <<file, old, Outside>>

RestoreStarted ==
  /\ pc = "reload" /\ todo = {}
  /\ Then(IF tx.plan.retires THEN "old_check" ELSE "restored")
  /\ UNCHANGED <<machine, journal, Outside, left>>

\* restoreLegacyJob: the definition first, then the job if it was loaded.
OldCheck ==
  /\ pc = "old_check"
  /\ \/ old.file = "edited" /\ Blocked
     \/ old.file = "gone" /\ Then("old_write") /\ UNCHANGED journal
     \/ old.file = "before" /\ Then("old_load") /\ UNCHANGED journal
  /\ UNCHANGED <<machine, Outside, left>>

OldWrite ==
  /\ pc = "old_write"
  /\ \/ /\ old' = [old EXCEPT !.file = "before"]
        /\ Goto("old_load") /\ late' = FALSE
        /\ UNCHANGED <<journal, tx, at, todo, seen, changed, failed, left>>
     \/ Spend("fault") /\ Blocked /\ UNCHANGED old
  /\ UNCHANGED <<file, job, Outside>>

OldStarted == [old EXCEPT !.job = IF @ = "missing" THEN "loaded" ELSE @]

OldLoad ==
  /\ pc = "old_load"
  /\ \/ Then("restored") /\ old' = (IF tx.wasOld THEN OldStarted ELSE old)
        /\ UNCHANGED <<journal, left>>
     \/ tx.wasOld /\ Spend("fault") /\ old' \in {old, OldStarted} /\ Blocked
  /\ UNCHANGED <<file, job, Outside>>

RestoreDone ==
  /\ pc = "restored"
  /\ Leave
  /\ \/ journal' = NoJournal /\ UNCHANGED left
     \/ Spend("fault") /\ UNCHANGED journal
  /\ UNCHANGED <<machine, Outside>>

-----------------------------------------------------------------------------
(* The next setup, passes and the world outside                            *)

\* The next setup finds a record and restores from it.  Recover reads the record
\* before it takes the locks that hooks and passes take; that is one step, since
\* only a setup changes the record and each of Recover's callers holds setup.lock
\* (setup, its flags and pairing, as abandoning does).
Recover ==
  /\ pc = "idle" /\ ~passing /\ journal # NoJournal
  /\ tx' = journal /\ Goto("restore")
  /\ UNCHANGED <<machine, journal, at, todo, seen, changed, failed, late, Outside, left>>

\* setup --abandon-recovery: the record is discarded, every file kept.
Abandon ==
  /\ pc = "idle" /\ ~passing /\ journal # NoJournal
  /\ journal' = NoJournal /\ abandoned' = TRUE
  /\ UNCHANGED <<machine, pc, memory, passing, left>>

\* Fault: the record of an interrupted setup is not looked for.
PassBeginsAnyway ==
  /\ pc = "idle" /\ ~passing
  /\ passing' = TRUE
  /\ UNCHANGED <<machine, journal, pc, memory, abandoned, left>>

\* A hook or a collector pass, under its lock: it does nothing with these files
\* while a record is there.
PassBegins ==
  /\ pc = "idle" /\ ~passing /\ journal = NoJournal
  /\ passing' = TRUE
  /\ UNCHANGED <<machine, journal, pc, memory, abandoned, left>>

PassEnds ==
  /\ passing /\ passing' = FALSE
  /\ UNCHANGED <<machine, journal, pc, memory, abandoned, left>>

Crash ==
  /\ pc # "idle"
  /\ Spend("crash")
  /\ Leave
  /\ UNCHANGED <<machine, journal, Outside>>

\* The user logs out and in again: the job manager loads what is defined, but
\* need not (a job may be disabled).
Relogin ==
  /\ Spend("crash")
  /\ Leave
  /\ \E loads \in SUBSET {r \in Roles : job[r] # "other" /\ Defined(r)} :
       job' = [r \in Roles |-> IF r \in loads THEN file[Definition[r]]
                             ELSE IF job[r] = "other" THEN "other" ELSE "missing"]
  /\ \E state \in IF old.job = "other" THEN {"other"}
                 ELSE IF old.file = "gone" THEN {"missing"} ELSE {"missing", "loaded"} :
       old' = [old EXCEPT !.job = state]
  /\ passing' = FALSE
  /\ UNCHANGED <<file, journal, abandoned>>

\* The user edits a file, now and then one that setup is about to replace.
Replacing(f) ==
  pc \in {"replace", "readback", "unwrite", "rewrite"} /\ InFiles /\ f = Current
ReplacingOld == pc \in {"retire_stop", "remove", "old_write"}

EditFile ==
  /\ Spend("edit")
  /\ \E f \in Files : /\ file' = [file EXCEPT ![f] = "edited"]
                      /\ late' = (late \/ Replacing(f))
  /\ UNCHANGED <<job, old, journal, pc, tx, at, todo, seen, changed, failed, Outside>>

EditOld ==
  /\ Spend("edit")
  /\ old' = [old EXCEPT !.file = "edited"]
  /\ late' = (late \/ ReplacingOld)
  /\ UNCHANGED <<file, job, journal, pc, tx, at, todo, seen, changed, failed, Outside>>

\* Another installation loads its job under the name of one that is not loaded.
TakeName ==
  /\ Spend("take")
  /\ \/ \E r \in Roles : job[r] = "missing" /\ job' = [job EXCEPT ![r] = "other"]
        /\ UNCHANGED old
     \/ old.job = "missing" /\ old' = [old EXCEPT !.job = "other"] /\ UNCHANGED job
  /\ UNCHANGED <<file, journal, pc, memory, Outside>>

Init ==
  /\ file = [f \in Files |-> "before"]
  /\ job \in [Roles -> {"before", "missing"}]
  /\ \A r \in Roles : Active(job[r]) => Defined(r) \/ Orphans
  /\ old \in [file : {"before"}, job : {"loaded", "missing"}]
  /\ journal = NoJournal /\ tx = NoJournal
  /\ pc = "idle" /\ at = 0
  /\ todo = {} /\ changed = {} /\ failed = FALSE /\ late = FALSE
  /\ seen = [r \in Roles |-> "missing"]
  /\ passing = FALSE /\ abandoned = FALSE
  /\ left = Budget

Commit ==
  \/ WriteJournal \/ StopJob \/ StoppedAll
  \/ ApplyCheck \/ ApplyReplace \/ ApplyReadBack \/ AppliedAll
  \/ UnapplyCheck \/ UnapplyWrite \/ UnappliedAll
  \/ RetireCheck \/ RetireStop \/ RetireRemove
  \/ StartJob \/ StartedAll \/ CommitDone

Restore ==
  \/ RestoreCheck \/ RestoreStop \/ RestoreStopped
  \/ RollbackCheck \/ RollbackWrite \/ RolledBack
  \/ RestoreStart \/ RestoreStarted
  \/ OldCheck \/ OldWrite \/ OldLoad \/ RestoreDone

Next ==
  \/ Plan \/ Commit \/ Restore \/ Recover \/ Abandon
  \/ PassBegins \/ PassEnds
  \/ Crash \/ Relogin \/ EditFile \/ EditOld \/ TakeName

Spec == Init /\ [][Next]_vars

\* A running process goes on; a pass ends; and the user runs setup again when
\* one was interrupted, which every hook and pass asks for.
FairSpec ==
  /\ Spec
  /\ WF_vars(Commit) /\ WF_vars(Restore) /\ WF_vars(PassEnds)
  /\ WF_vars(Recover)

-----------------------------------------------------------------------------
(* Properties                                                              *)

Steps == {"idle", "journal", "stop", "apply", "replace", "readback", "unapply", "unwrite",
          "retire", "retire_stop", "remove", "start", "committed",
          "restore", "unload", "rollback", "rewrite", "reload",
          "old_check", "old_write", "old_load", "restored"}
Records == [plan : Plans, was : [Roles -> BOOLEAN], wasOld : BOOLEAN]
JobStates == Contents \cup {"missing", "other"}

(***************************************************************************)
(* Every variable keeps its type; at stays within one of the plan.         *)
(***************************************************************************)
TypeOK ==
  /\ file \in [Files -> Contents]
  /\ job \in [Roles -> JobStates]
  /\ old \in [file : {"before", "gone", "edited"}, job : {"loaded", "missing", "other"}]
  /\ journal \in Records \cup {NoJournal}
  /\ pc \in Steps
  /\ tx \in Records \cup {NoJournal} /\ (tx = NoJournal <=> pc = "idle")
  /\ at \in 0..(Len(FileOrder) + 1)
  /\ todo \subseteq Roles
  /\ seen \in [Roles -> JobStates]
  /\ changed \subseteq Files
  /\ failed \in BOOLEAN /\ late \in BOOLEAN
  /\ passing \in BOOLEAN /\ abandoned \in BOOLEAN
  /\ left \in [Kinds -> Nat]

(***************************************************************************)
(* No hook and no pass ever runs on half of a setup: unless the user        *)
(* abandoned one, the files a pass sees are all from one side of it.       *)
(***************************************************************************)
NoPassHalfway ==
  passing /\ ~abandoned =>
    \/ \A f \in Files : file[f] # "after"
    \/ \A f \in Files : file[f] # "before"

(***************************************************************************)
(* Setup never overwrites or removes what the user wrote, unless it was    *)
(* written between setup's reading of that very file and its replacing it; *)
(* and it never stops or replaces another installation's job.              *)
(***************************************************************************)
EditKept(f) == file[f] = "edited" /\ file'[f] # "edited" => late /\ Replacing(f)
EditsKept ==
  [][/\ \A f \in Files : EditKept(f)
     /\ old.file = "edited" /\ old'.file # "edited" => late /\ ReplacingOld
     /\ \A r \in Roles : job[r] = "other" => job'[r] = "other"
     /\ old.job = "other" => old'.job = "other"]_vars

(***************************************************************************)
(* When Restore is about to remove the record, nothing of the setup is     *)
(* left: no file as setup left it, every job it manages loaded as before   *)
(* or, if it was not loaded, not loaded, and the retired job back.         *)
(***************************************************************************)
RecoveredWhole ==
  pc = "restored" =>
    /\ \A f \in Files : file[f] # "after"
    /\ \A r \in Managed :
         IF tx.was[r] THEN job[r] \in {"before", "edited", "other"} ELSE ~Active(job[r])
    /\ tx.plan.retires => /\ old.file # "gone"
                          /\ tx.wasOld => old.job # "missing"

(***************************************************************************)
(* When Commit is about to remove the record, all of the setup is there:   *)
(* every job it starts runs what setup wrote, none it stops is loaded, and *)
(* the retired job is gone.                                                *)
(***************************************************************************)
CommittedWhole ==
  pc = "committed" =>
    /\ \A f \in Files : file[f] # "before"
    /\ \A r \in Starting : job[r] \in {"after", "edited"}
    /\ \A r \in Managed \ Starting : ~Active(job[r])
    /\ tx.plan.retires => old.file # "before" /\ old.job # "loaded"

(***************************************************************************)
(* A setup that failed or was interrupted is recovered by rerunning setup, *)
(* without the user giving anything up, unless somebody edits the files or *)
(* takes a job's name.                                                     *)
(***************************************************************************)
Interfered == \E kind \in {"edit", "take"} : left[kind] < Budget[kind]
RecordIsResolved == journal # NoJournal ~> journal = NoJournal \/ Interfered

(***************************************************************************)
(* The message of a recovery that the job manager failed says "once [it]   *)
(* works again, rerun setup" (backends.go:160; the comment above it, that  *)
(* rerunning alone may not help, is about a tool that keeps failing).  It  *)
(* does not help when the job setup stopped was loaded and its definition  *)
(* had been deleted: there is nothing to load it from, and every rerun     *)
(* stops at the same place, with a manager that works.                     *)
(***************************************************************************)
RerunRecovers == RecordIsResolved
=============================================================================
