# agent-archive: TLA+ models

agent-archive copies the conversations of coding agents into the user's own
bucket.  An application's lifecycle hook writes a small local request and
returns; a background collector reads the application's transcript, filters it,
and publishes a source object and then a metadata document that points at it;
retention deletes what is superseded or expired.  Everything rests on a handful
of local files per session, two objects per session in a bucket, and a few
advisory locks, so most of what can go wrong is an order of steps: a hook and
the collector on one file, a crash between two durable writes, a store call
that failed but took effect.  These modules model those steps.

Paths below are relative to the repository (`src/` in `PROJECT.json`).

## The system

| Component | State it keeps | Operations | What makes it correct |
| --- | --- | --- | --- |
| Named locks (`internal/local`) | a lock file's inode, its name, flocks | `NamedLock`, `NamedLockWait`, release; holders that unlink the file | one holder; no flock without a holder; every wait ends |
| Request (`internal/state/requestwrite.go`, `store.go`, `lineage.go`) | `requests/<id>.json`, `registrations/<id>.json`, the request lock | `SaveRequest`, `SaveEvidence`, `EnsureRequestToken`, `CompleteRequest`, `ForgetIdleSession` | saved evidence stays until acknowledged; no request of a forgotten session; a hook's save lands |
| Scan and publication (`internal/collector`, `internal/storage/publication.go`) | `pending/<id>.json`, source objects, `metadata.json` | resume, read, block, compare, guard, seal, upload, acknowledge | metadata points at an object that exists; retries never conflict with themselves; nothing richer is replaced by less |
| Published record and ledger (`internal/state/published.go`, `lineage.go`) | `published/<id>.json`, `superseded/<id>.json` | `Save`, `SavePublication`, `SaveBlocked`, `ClearRecoverableBlock`, `RecordSuperseded`, `RemoveSuperseded` | held evidence is handed back; every superseded object is remembered |
| Retention (`internal/retention`, `internal/state/session_*.go`) | the ledger, the bucket, a server clock, the deletion intent and its staged copies | sweep of superseded sources, expiry, owned deletion, restoration, takeover by an undo | deletes only what nothing points at, keeps the immediate predecessor; a removal can be taken back until it is forgotten, and then nothing is left |
| Setup journal (`internal/setupjournal`, `internal/fileapply`) | `setup-transaction.json`, hook files, background jobs | `Commit`, `Restore`, `Recover`, abandon | an interrupted setup is put back whole, a user's edit never overwritten |
| Catalog (`internal/catalog`) | coordinator record, head, links between heads, journals and tombstones on disk | admission, commit, completion, removal of journals, collection, recovery, migration | a reader's snapshot stays whole; a mutation commits once; every fence has an owner |
| Capture (`internal/capture`) | admission intents, `registrations/`, diagnostics | hook batches under `hooks.lock` | no session lost or registered twice |
| Issuance, revocation (`internal/issuance`, `internal/revocation`) | slot ledger, revocation journal | provider calls around durable intents | every key ever created is findable; success is never unlearned |
| Backfill (`internal/backfill`) | plan, registrations | import, undo | undo removes what the import added and nothing else |
| Search (`internal/search`) | a derived index | worker, reconcile, query | converges to the archive |
| Listing and inspection caches, purge, reader, stats | caches, none | listing, deletion, reports | caches are disposable |
| Archive, agents, cursorstore, transcriptio, discovery | none (pure or read-only) | filtering, parsing, building documents | functions of their input |
| Config, credentials, Cloudflare, pairing, scheduler, CLI | configuration, keychain, the system's job manager | interactive commands | ordinary sequential code |

How they interact: hook processes hold `hooks.lock` and write requests; the
collector holds `collector.lock`, is the only writer of `pending/` and
`published/`, and runs retention after each pass (`internal/cli/collect.go:413`)
under the same lock; both meet on the request file, which has its own lock,
held by hooks for at most a second's wait.  Setup takes all of them.  Processes
talk through files only.

The behaviours that are hard to test, each at its line, are the `hazards` of
`PROJECT.json`.

## Modules

| Module | Models | Used by |
| --- | --- | --- |
| `NamedLock` | one lock file, one action per system call | itself, `NamedLockProofs` |
| `NamedLockProofs` | theorems of `NamedLock` | |
| `RequestRegister` | abstract: the request file as an atomic register | `RequestWrite` (refinement) |
| `RequestWrite` | the staged optimistic write and everyone who does it | `MCRequestWrite`, `RequestWriteProofs` |
| `RequestWriteProofs` | theorems of `RequestWrite`, its refinement of the register among them | |
| `Publication` | one session from transcript to bucket, and the sweep | `MCPublication`, `PublicationProofs` |
| `PublicationProofs` | theorems of `Publication`: bucket, local record, ledger | `PublicationEvidenceProofs` |
| `PublicationEvidenceProofs` | theorems of `Publication`: hook evidence, snapshots | |
| `Catalog` | publishers, garbage collection and recovery of one catalog | `MCCatalog`, `CatalogProofs` |
| `CatalogProofs` | theorems of `Catalog` | |
| `SessionDeletion` | the removal of one session, its restoration and its takeover by an undo | `MCSessionDeletion`, `SessionDeletionProofs` |
| `SessionDeletionProofs` | theorems of `SessionDeletion` | |
| `RetentionClock` | the clock of the sweep, set ahead and back, and what it lets the sweep delete | `MCRetentionClock`, `RetentionClockProofs` |
| `RetentionClockProofs` | theorems of `RetentionClock` | |
| `SetupJournal` | setup's transaction, its recovery and the passes around it | `MCSetupJournal`, `SetupJournalProofs` |
| `SetupJournalProofs` | theorems of `SetupJournal` | |

The modules stack: `NamedLock` shows that the request lock is one, so
`RequestWrite` takes it in one step; `RequestWrite` shows that the request file
behaves like the atomic register of `RequestRegister`, so `Publication` saves
and completes requests in one step.

### NamedLock

`path` is the inode the lock path names, `fd[p]` the inode process `p` opened,
`flocked` who has a flock on what it opened; `pc` is the place in
`NamedLockWait`/`NamedLock`/`lockOpened`.  `Open`, `FlockTaken`/`FlockBusy`,
`VerifyCurrent`/`VerifyReplaced` and `Wait` are the calls in order; `Unlink` is
what `forgetSession`, `saveRequest` and `RemoveOrphanedLocks` do while they hold
the lock.  A crash closes descriptors.  Deadlines are counted in polls.

### RequestWrite and RequestRegister

`request` and `registered` are the two files; `disk` is what a power loss may
leave of each (the set of values no sync has made obsolete).  Each writer
reads and stages (`Stage`), takes the lock (`TakeLock`/`LockBusy`), checks the
registration (`Check`/`CheckFails`), compares (`Compare`/`Discard`), renames,
unlocks and syncs (`Rename`, `SyncDir`); a hook that was overtaken writes
holding the lock (`StageHolding`).  The collector scans, gives an old request a
token by the same write, publishes or fails, completes under the lock by token,
and forgets sessions in `forgetSession`'s order.  Tokens are random in the code;
a fresh one here is any that is not stored anywhere.  The registration's
revision files, blind writes, undo checks and subagent candidates are left out,
and `hasWork` looks at the request only.  The register is implemented between
power losses (`boots` counts them): what one takes back, `SavedEvidenceKept` bounds.

### Publication

`transcript` is the application's file, as the length of an append-only text and
whether it is there; a shorter length is a truncation or rewrite.  A *bundle*
(transcript, evidence, capture time) stands for the source object, its key (a
digest) and the metadata that points at it.  `pending`, `published`, `ledger`
and `request` are the local files, `objects` and `metadata` the bucket.  `pc`
runs through a pass: `Scan`; `resume` (`ResumeWaits`, `ResumePublishes`, or on
to the transcript); `BlockMissing`, `ReplayHeld`, `ClearBlock`; then `Settle`,
`BlockRewritten` or `Seal`; `Hold` for a rate-limited candidate; `Position`,
`PutSource`, `PutMetadata`, `Retire`, `Record`, `CompletePublished`,
`RemovePending`; and the sweep.  Each durable local write and each mutating
remote call is one step; a crash may come between any two, and a mutating call
may fail with or without its effect.

Left out: metadata-only refreshes and labels, history source sets, imports,
catalog and selection protocols, native targets, skill requirements,
replaceable snapshots (Cursor), filter and adapter versions, privacy-sensitive
supersession, scan-skip signatures, empty transcripts and block reasons other
than missing and rewritten, listing repair, a second machine writing the same
session.  Local writes do not fail (the ledger entry of the replaced source is
best effort in the code, `source_set_publish.go:561`: `NoLeakedObject` holds
because it is assumed to succeed).  Grace periods are nondeterministic: any
ledger entry but the immediate predecessor may be old enough.

### Catalog

A catalog destination has one head, an object that commits every index at once,
and one coordinator record; both change by compare-and-swap only.  `owners`,
`completed`, `seal`, `hold`, `link` are the coordinator; `head` the head's
identity and lease, `chain` the heads that published, linked by `Previous`;
`late` the writes whose caller gave up and that may still land.  `pending`,
`tombstone`, `published` are each machine's disk.  `pc[m]` walks a publication
(`collector/catalog_journal.go`, `catalog/coordinator.go`): admission, source,
reading and committing the head, the local record, completion, and the removal
of the journal in its four durable steps; `RecoverRemoval` resumes that removal.
`gc.pc` walks a collection (`catalog/gc.go`): seal, clock, hold, link, lease,
mark, delete, announce the release, release, finish.  `Recover` and
`RecoverSeal` are the operator's commands.  An object is a member of `objects`;
publications with the same content name the same source, which is what makes a
claim on an object already in the bucket necessary.

`Coordinator.change` rereads until its write wins, so a change of the coordinator
is one step.  A clock reading is an interval of width `Uncertainty` around the
provider's time; a head that a publisher commits between a collection's reading and
its barrier may be newer than all of it, and ends the collection (`Qualified`).
`prepareCommit`'s conflict on `ExpectedRevision` needs a second writer of a session.  Assumed: recovery is run only when the collection is dead (the
commands say so), and a DELETE that fails has taken effect or never will.  Left
out: the upgrade and migration protocols (10 and 11) and what their picker
changes, owners other than a journal (direct `Commit`, `DeleteSession`,
`PutImmutable`), a second machine with the same session, the bootstrap of an
empty head, the capacity of 256 owners, barriers held from outside, receipts and
invocation identities of collections.

A barrier held without a link is where `PendingSettles` ends: a collection that
stops after `Hold` (`coordinator.go:208-219`) and before `bindGCLease`
(`gc_recovery.go:52-69`) leaves `Orphaned`.  Publishers, the release of the hold
by its dead owner, `RecoverUnleasedSeal` (`gc_recovery.go:256`, which wants no
hold) and the linked recovery (which wants a link) all refuse it.

### SessionDeletion

The files are `registered`, `request`, `published`, `pending`, and the deletion
intent with what is kept beside it: `intent` has the phase, the reason
(retention or undo), the frozen document, the token of the request it has
reviewed and the token it granted a restoration to; `stages` the copies of what
will be deleted.  The bucket is `metadata` and `sources`.  `pc` and `work` are
the one process that holds `collector.lock`: a pass, which collects (resume an
unfinished removal: `Withdraw`, `SeeAbsent`, `GrantRestoration`,
`SaveRestoration`, `ResumeRestoration`; or an ordinary `Scan`), publishes
(`PutSource` to `DropPending`), and sweeps (`Sweep`, `Decide`, and from
`ReadSession` on `DeleteOwnedSession`); or an undo, which starts at
`ReadSession`.  `Forget`, `ForgetRecords` and `Finish` end a removal.  Hooks save
at any time; one that read its clock before the sweep did has an *early*
request, older than the intent.  A crash comes between any two writes; a remote
call fails, with or without effect; the clock may license nothing.

`DeletionSettles` says that a removal that has begun ends, except in the six
situations of `Stays`.  Each of the six was needed: without it the run finds a
removal that stays there for good, until another hook or undo comes.

| Situation | How it comes about |
| --- | --- |
| `ReviewedHook` | the finding `deletion_kept`: the request's token is the intent's own |
| `EarlyHook` | a hook older than the intent stops the deletion at its next check but grants no restoration (`validRestorationRequest`) |
| `StaleGrant` | a crash before the restoration's journal, and a newer hook: `session_restoration.go:113` refuses every other token, although `session_deletion.go:24-25` says "run sync to finish recovery" |
| `RevokedTooLate` | an undo revokes a restoration whose metadata is back: `owned_delete.go` never lists a namespace that has metadata while the phase says absent |
| `UndoYields` | an interrupted undo is finished by the sweep, which yields to work that the collector refuses |
| `HalfForgotten` | a crash inside `forgetSession`: the registration is gone, a request or journal is not |

Left out: requests delayed by a connection, the removal record that other
machines read, the listing index, read budgets, another harness or destination
than the session's own, sessions that cannot be published, a registration made
again, a publication without a request, a foreign writer of the bucket.

### RetentionClock

Everything retention deletes, it deletes because a clock of this machine said so
twice: when the evidence was stamped and when the sweep looked.  `clock` is that
clock, `now` the true time; `SetClock` moves the first alone, anywhere between
two steps of a pass.  `scanned` is the time of the previous pass in the status
file, `reading` the saved reading of the storage clock, `stamp` what each session
and each superseded source ages from, `work` the sweep's memory.  `Collect` reads
`scanned` before it saves its own (`cli/collect.go:239`), `StartSweep` reads the
clock once; `Reuse`, `Probe` and `ProbeFails` are `cachedProbe` and give the
verdict of `readClock`; `ClampCapture` and `ClampLedger` move a stamp of the
future to the present; `Delete` is either kind of deletion.  `captured`, `low`,
`back` and `leap` are history for the properties: when evidence really was made,
the earliest it may be taken for, and how the clock moved.  `shared` is a storage
service on the same machine, whose clock moves with it: there the probe notices
nothing, and the gap to the previous pass is all that is left.

`KeptItsTime` says what the thresholds add up to: nothing is deleted before its
age is over in true time, less the skew and the age of a reused reading.  Two
things it takes as they are, through `low`:

- evidence stamped while the clock was behind ages from that stamp, though
  `retention/clock.go:32` says a clock that is behind only delays deletions;
- `retention/clock.go:170-171` says a jump backward reads the clock again, but a
  clock set back to no earlier than the reading was taken is not noticed
  (`elapsed < 0` is what is tested), so a clamp in that window may date evidence
  as far early as the clock was set back (`work.back`).

Left out: the second the storage service's timestamps are rounded to, admission
and remote-metadata ages, which can only delay, the predecessor a ledger keeps
(`Publication`), what a deletion does (`SessionDeletion`), and a collection that
stamps evidence and dies before it saves the status, which leaves an earlier
previous pass and so can only hold more.

### SetupJournal

`file[f]` is what a planned file holds: as planned from, as the plan leaves it,
or the user's edit.  `job[r]` is the contents of the definition a job was loaded
from, so a job that still runs what a rolled back setup wrote is visible;
`"other"` is another installation's job under the name.  `old` is a job of an
earlier release that setup retires.  `pc` walks `Commit` (journal, stop, apply
with its own rollback, retire, start, remove the record) and `Restore` (check
everything, stop, roll back, start, put the retired job back, remove the
record); `tx` is the journal in the process's memory.  A file is read, replaced
and read back in three steps, since the user's editor takes no lock; `late`
remembers that the file being replaced was edited since setup read it: such an
edit is lost, in a window of milliseconds that `EditsKept` spells out, though
`Restore`'s comment says recovery never overwrites one.  A manager's
call, and a write, may fail, the call with or without its effect.  `Recover` is
the next setup, in one step although it reads the record before it takes the other
locks, because all its callers hold `setup.lock`; `PassBegins` stands for a hook or a collector pass, which takes one
of setup's locks and then looks for a record.

Left out: what a manager leaves beside a removed definition, symbolic links,
several retired jobs, records that cannot be read, plans whose files differ (a
plan here changes every file of the instance), a power loss.  `Restore`'s reading
of the files and asking about the jobs are one step: nothing is changed between
them, and what changes later is an action of its own.  Jobs are stopped and
started in any order, where the code has one.

## Runs

| Run | Question | Instance |
| --- | --- | --- |
| `named_lock` | exclusion, no leaked flock, every wait ends | three processes, two calls each, two attempts, two polls: a file is unlinked, recreated and unlinked again while a third process has the first inode open |
| `request_write` | refinement of the register, evidence kept, nothing saved for a forgotten session, a hook's save lands; what a power loss keeps | one hook, one other writer, the collector, two attempts (the code's `unlockedWriteAttempts` is what bounds a writer); one kill or one power loss with two events, or one event beside a request without token from an older version |
| `request_write_no_sync` | finding: a save that adds nothing does not sync | two writers, one power loss |
| `publication` | a publication with everything around it, and its end; evidence held by a missing-transcript block | two budgets: two saves, a growth, a truncation, one crash, one store failure; or two saves, a growth, two disappearances, one crash, no upload interval |
| `publication_held` | finding: a held-back candidate drops held evidence | three saves, a growth, two disappearances, one crash, with the interval |
| `publication_baseline` | finding: the blocked snapshot becomes the baseline | one rewrite, one disappearance |
| `catalog` | readers' snapshots, exactly-once commits, owned authority, claims kept under collection and recovery | two machines, two publications with equal or other content, one collection, one stop or late write, lifetime and precision of one |
| `session_deletion` | a removal and its way back | three documents that share sources, two hooks, the age passing twice, one undo, two crashes, one failing call, one pass without a clock; deadlock is checked |
| `deletion_kept` | finding: a hook queued before the intent is never restored | one hook, one removal, no fault |
| `retention_clock` | nothing goes before its time; no hold lasts once the clock is right | one session or one superseded source; a clock set twice, or once beside a failed probe, an unsaved reading or a crash; to far ahead (14), far behind (0) or near (5); thresholds 1, 2, 3 and age 5; deadlock is checked |
| `setup_journal` | a setup with everything around it, and its end | two jobs, each with its definition; first setup, refresh without and with a job, search turned on, off, refreshed; one edit, one name taken, one crash or logout, one failure |
| `setup_journal_orphan` | finding: recovery cannot start a job whose definition was gone | one job, one failure |

Bounds are the budgets of outside events (`MCPublication`), the numbers of
processes and machines and the numbers of kills.  They are chosen so that each mechanism
meets its own retry at least once: two supersessions and a third publication
make the ledger hold a predecessor and something older; a failure comes without or
with its effect, at any call; a crash combines with each of them, and so does the
user's edit or another installation in `SetupJournal`.
Deadlock checking is off where the budgets run out and the system rests.

## Fairness

`NamedLock`: a process inside a call executes its next system call; nothing
forces a holder to release.  `RequestWrite`: a process inside a write goes on
with it (it does not block: the lock wait has a timeout and is then an error).
`Publication`: the scheduler runs a pass every minute, so passes go on, and time
passes, so the upload interval ends; store failures and crashes are bounded.
`Catalog`: passes and a started collection go on, and the operator runs the
recovery of a collection that died.  `SessionDeletion`: a pass is started every
minute and one that is not interrupted goes on; hooks, undos and the age of
a session are free.

`RetentionClock`: time goes on whenever no pass is in the way, and a pass goes on;
from `Quiet` on the clock is not set, nothing fails, and a pass runs within each
unit of time, as the service manager starts one every minute.  What
`HoldEnds` asks before it promises anything is a clock that is right again.

`SetupJournal`: a running setup goes on; a pass ends; and the user runs setup again
while an interrupted one is recorded, which every hook, pass and `status` asks for.
`RecordIsResolved` claims nothing once somebody edited a file or took a job's
name: stopping then is what recovery is for, and `--abandon-recovery` is the way out.

## Proofs

`NamedLockProofs` proves, for any set of processes and any bounds, that the lock
excludes (`LockExcludes`), is well typed (`TypeCorrect`) and leaks no flock
(`LockNeverLeaks`).  The exclusion is not inductive by itself: two processes at
`held` are excluded because a holder's flock is on the inode the path names,
which needs that whoever is at `locked` or `held` is in `flocked`, that two
members of `flocked` have different inodes open, and that the path changes only
by the hand of a holder (`Unlink`) or from no file (`Open`).  Those are the
conjuncts of `IInv`.

`PublicationProofs` proves `PointerResolves` and `RecordAgrees` and the action
property `FrozenUntilRecorded` for any evidence, transcripts, tokens and budgets.
`IInv` adds to them which files a place in the pass implies (`Progress`) and that
a pending candidate's predecessor is the published one while nothing was
attempted (`FrozenPredecessor`).  Its assumptions are the named `ASSUME`s of
`Publication`: the sets are of numbers, there is always a token nothing stored
holds, and the absent values are no bundle, request or pending file.

The same module proves `NoLeakedObject`, `PredecessorKept` and `TypeOK`, which need
the ledger as a sequence (`LInv`).  The sweep keeps the last entry that is not the
current source, and takes it for the immediate predecessor; that is right only
because an entry is moved to the end when its source is superseded again, so no
key is in the ledger twice (`Unique`), and because everything else in it was
captured before what is published (`LedgerOlder`): a candidate can be none of the
entries (`Newer`), since capture times only grow (`Captured`).  `Retiring` and
`Predecessor` say how the ledger and the record differ inside a pass, while the
metadata points at the new source and the record still at the old one: a crash
there repeats `Retire`, which must leave the ledger as it is.

`PublicationEvidenceProofs` proves what becomes of hook evidence and of a rich
snapshot.  In general both can be lost, as `publication_held` and
`publication_baseline` show, so each theorem is about the runs in which the two
things that lose them do not meet:

| Theorem | Property | Condition on every budget |
| --- | --- | --- |
| `HeldAlwaysHandedBack` | `HeldIsHandedBack` | the transcript never goes away, or no candidate waits for the interval |
| `RichestAlwaysKept` | `RichestSnapshotKept` | the transcript never goes away, or is never truncated |
| `EvidenceAlwaysKept` | `EvidenceKept` | the transcript never goes away, or neither of the other two happens |

Both budgets of the run `publication` meet all three conditions.  None can be
dropped: TLC finds a violation where one is not met.  For `EvidenceKept` with a
truncation that is the finding `publication_baseline` again: once the blocked
snapshot is the baseline, a request is taken for one that adds nothing (`Settle`)
though its evidence is in no archive.  Saves, growth, crashes and store failures
are unbounded.  The argument: a token names one request (`TokenNames`); what a
block holds is a request again before the block is cleared (`Replayed`), and what
was published once is in whatever is built next (`Inherited`); a candidate carries
what the block it replaces holds (`CarriesHeld`), is compared with what is in the
archive (`ComparesPublished`) and is no poorer than that (`NoPoorer`); and a request
is completed without a publication only when its evidence is archived
(`SettlesKept`).

`RequestWriteProofs` proves the safety properties of the request's staged write
and that it implements `RequestRegister` (`RegisterImplemented`), for any writers,
requests and bounds.  A writer stages what it merged before it has the lock; the
refinement holds because what is staged is the event merged into what was read
(`StagedMerges`) and the comparison under the lock finds the file still that
(`ReadIsCurrent`), which tokens make sound: one token names one request, stored,
staged, read or left by a power loss (`TokenNames`).  What was decided under the
lock holds until it is released (`LockOwned`, `RegistrationSeen`).  Evidence is
kept in every state a power loss may leave, not only the present one (`Kept`),
because the collector acknowledges only what it published (`CoveredAcked`).  It
assumes `ActorsAssumption`, `NumbersAssumption` and `RequestsAssumption`: requests
are not the absent one, and what is stored at first has no token.  `IInv` holds on
the instance of `request_write` too.

`CatalogProofs` proves all of the module's safety properties, for any machines,
contents and bounds and any settings of lifetime, uncertainty and precision.  A
snapshot is kept because the clock a collection deletes by is not ahead of the
present, so a head some reader may still use is one the collection retains
(`CoveredIsRetained`, where the rounding of timestamps enters), because what it
has to do is of no retained head and no receipt (`Sweeping`), and because the
head cannot move meanwhile: no publisher is admitted under the barrier, a write
of one that may still land needs its owner (`Barrier`, `InFlight`), and a
collection's own leads only to a head it has announced (`Announced`).  A
mutation is committed once because a prepared or late commit is of an admitted
candidate that no head knows yet (`Prepared`, `InFlight`, `Committed`).  The
proof has one lemma per action; `BoundsAssumption` and `NamesAssumption` are all
it assumes.  Identities of heads are a finite set, so a step that needs a new one
waits for one to be left: a bound of the model.  `IInv` holds on the instance of
`catalog` too.

`SessionDeletionProofs` proves five properties of a removal and its way back, and
its types, for any documents and sources, any number of hooks, undos, crashes and
failing calls; `NumbersAssumption` is all it assumes.  None of them is inductive:
that the metadata resolves when a restoration puts it back depends on where the
intent is when the process publishes (`Places`), on whose grant the journal
carries (`GrantOwned`), and on what is still in the bucket or staged in each phase
(`Frozen`, `Emptied`); that evidence is kept depends on what each token stands for
(`Queued`).  Each is a conjunct of `IInv` with a lemma that every step keeps it,
and frame lemmas say which actions leave its state alone.  The invariant holds on
the instance of `session_deletion` too.

`RetentionClockProofs` proves `KeptItsTime` for any ages, thresholds and settings
of the clock.  A reading is never later than the true time (`PastReading`), so a
sweep that may delete is ahead by less than `Skew + Agreeing` (`NotAhead`): that
bounds what goes too early.  As long as the clock is not set back it only gains on
the reading (`Gained`), so evidence made before the sweep is covered by the reading
(`ReadingCovers`) and a clamp is early by the skew at most (`Agreed`, `LowFits`).
Where the service shares the clock, a leap shows in the time since the previous
pass (`LeapShows`, `GapKept`).  `TypeOK` of this module is proved and not run.

`SetupJournalProofs` proves all of the module's safety properties, for any
planned files in any order, any jobs, plans and bounds.  Nothing says "half of a
setup" in a single state, so the invariant says it place by place: which files
`Commit` has replaced and `Restore` put back (`Progress`), which jobs are still
running, stopped or back with what definition (`Started`, `Restarted`), and where
the job of an earlier release is (`Retired`).  `Recorded` ties those places to the
record a crash leaves, and `OneSided` carries the outcome to the next setup, which
plans from it.  `EditsKept` needs that an edit between setup's reading and its
write is remembered (`ReadFirst`).  It assumes that the order lists planned files
(`OrderAssumption`) and the plans' types (`PlansAssumption`).  `IInv` holds on the
instance of `setup_journal` too.

Model-checked only: liveness, out of the prover's reach (`EveryCallReturns`,
`HookSaveLands`, `SavedIsPublished`, `PendingSettles`, `DeletionSettles`,
`RecordIsResolved`, `HoldEnds`).  Every invariant and action property of a passing
run is stated by a theorem, three of them under the conditions of the table above.

## Findings

1. `request_write_no_sync`: `writeUnderLock` promises a directory sync before it
   returns; a save that adds nothing returns without one, on the strength of
   another writer's rename that a power loss can still undo.
2. `publication_held`: a candidate the upload interval held back, published after
   a missing-transcript block began, replaces the block and drops the evidence
   it holds, though that evidence was acknowledged.
3. `publication_baseline`: after a rewritten block, a missing transcript and its
   return, the guard against rewrites compares with the rewritten snapshot and
   lets it replace the richer one.
4. `setup_journal_orphan`: a job that was loaded although its definition had been
   deleted cannot be started again by a failed setup's recovery, which then stops
   at the same place on every rerun.  The message it prints says to rerun once the
   tool works (`backends.go:160`), which it does; the comment above it is warier.
5. `deletion_kept`: a hook that saves between the sweep's scan and the deletion
   intent is taken for reviewed: the session is kept, its archive is deleted, and
   nothing restores it before another hook or an undo.

## Plan

Done, in this order: `NamedLock`, `RequestRegister`, `RequestWrite`,
`Publication`, the first proofs, `SetupJournal`, `Catalog`,
`SessionDeletion`, `RetentionClock`, and the proofs of each.  Next, by importance:

1. `Capture`: admission intents and registrations under `hooks.lock`, composed with `RequestWrite`'s `Forget`.
2. `Issuance`: the slot ledger around provider calls.
3. A second writer of the metadata, and privacy-sensitive supersession, in `Publication`; two machines writing one session in `Catalog`.
4. The orphaned barrier of `Catalog` as a run of its own.
5. Proofs: the properties of the modules above as they are written; `SetupJournal` and
   `SessionDeletion` as refinements of an abstract transaction.

What each runs against: the bounds of the runs above (two or three actors, one
crash, one or two failures), and per module one refinement or action property
where there is an abstract promise to state.

## Not modelled

`components` in `PROJECT.json` lists every part with its status and the reason.
Pure transformations (archive, agents), read-only access (discovery,
cursorstore, reader, stats), rendering and interactive commands have no protocol
state; disposable caches may be wrong without harm; the storage client and the
system's job manager are outside, and modelled by how the code uses them.
