------------------------------- MODULE Catalog -------------------------------
(***************************************************************************)
(* The catalog of a catalog-v4 destination (internal/catalog): publishers  *)
(* on several machines, the garbage collection of the destination, and the *)
(* operator who recovers one that died (internal/cli/catalog_operator.go). *)
(*                                                                         *)
(* Two objects of the bucket change, both by compare-and-swap: the head,   *)
(* which commits every index at once, and the coordinator, which admits    *)
(* publishers and fences them off.  A publisher is admitted with a journal *)
(* that is on its disk, uploads, commits the head, completes, and removes  *)
(* its journal before the coordinator forgets it.  A collection seals the  *)
(* coordinator, holds it once no publisher is left, links itself to it,    *)
(* leases the head, deletes what no retained head reaches, and releases.   *)
(*                                                                         *)
(* A step is a durable local write or a compare-and-swap; any process may  *)
(* stop after any step, because it died or because the answer was lost,    *)
(* and a write of the head it gave up on may still land later.  The loop   *)
(* in Coordinator.change rereads until it wins, so a change is one step.   *)
(***************************************************************************)
EXTENDS Naturals, Sequences, FiniteSets, FiniteSetsExt, SequencesExt

CONSTANTS
  Machines,     \* each publishes one session of its own
  Contents,     \* what a session's source can be; equal content is one object
  Offered(_),   \* what the n-th candidate of a machine can be
  Epochs,       \* identities of head versions: the etag, the epoch, a lease's owner;
                \* a step that needs a new one is a step only while one is left
  None,
  Lifetime,     \* SnapshotLifetime
  Uncertainty,  \* spread of a CatalogTime
  Precision,    \* precision of the provider's LastModified
  MaxTime,      \* bound: the provider's clock
  Budget        \* bound: publications, collections, and stops or late writes

Kinds == {"publish", "collect", "stop"}
Candidates == [by : Machines, n : Nat \ {0}, content : Contents]
Links == [prior : Epochs, leased : Epochs, released : Epochs \union {None}]

ASSUME BoundsAssumption ==
  /\ {Lifetime, Uncertainty, Precision, MaxTime} \subseteq Nat
  /\ Precision > 0
  /\ Budget \in [Kinds -> Nat]
  /\ \A n \in 1 .. Budget["publish"] : Offered(n) \subseteq Contents

ASSUME NamesAssumption ==
  /\ Epochs # {}
  /\ None \notin Machines \union Contents \union Epochs \union Candidates \union Links

VARIABLES
  now,        \* the provider's clock
  owners,     \* coordinator: the candidate each machine is admitted with, or None
  completed,  \* coordinator: receipts of candidates that were committed, or None
  seal,       \* coordinator: no new owner is admitted
  hold,       \* coordinator: a collection or recovery holds the barrier
  link,       \* coordinator: the collection that holds it, or None
  head,       \* the head: [epoch, leased]; it commits the last entry of chain
  chain,      \* publications of the head: [by, n, roots, at]; Previous links them
  late,       \* writes of the head that failed and may still land
  objects,    \* in the bucket: sources, and what each published head adds
  pending,    \* pending[m]: the candidate whose journal is on m's disk, or None
  tombstone,  \* tombstone[m]: catalog-completions/<id>.json, or None
  published,  \* published[m]: how many candidates m's record says it published
  pc,         \* pc[m]: where m's publication is
  seen,       \* seen[m]: the epoch of the head m's commit was prepared on
  settled,    \* settled[m]: admission found the receipt of a completed journal
  gc,         \* the collection or recovery: [pc, clock, seen, todo]
  left        \* outside events left, by kind

coordinator == <<owners, completed, seal, hold, link>>
bucket == <<head, chain, late, objects>>
disks == <<pending, tombstone, published>>
publishers == <<pc, seen, settled>>
vars == <<now, coordinator, bucket, disks, publishers, gc, left>>

-----------------------------------------------------------------------------
(* The head and what it reaches                                            *)

Source(c) == <<c.by, c.content>>

\* The index nodes and the retained copy the i-th publication of the head adds.
Tree(i) == <<"head", i>>

\* Writer.receipt: the head's receipts know the mutation.
Receipt(c) == \E i \in DOMAIN chain : chain[i].by = c.by /\ chain[i].n = c.n

\* NewMutationID: an epoch nothing stored or in flight has.
FreshEpochs ==
  {e \in Epochs :
    /\ e \notin {head.epoch, gc.seen} \union {p.epoch : p \in late} \union Range(seen)
    /\ link # None => e \notin {link.prior, link.leased, link.released}}

FreshEpoch == CHOOSE e \in FreshEpochs : TRUE

\* markHead: the session's source of every machine, under the i-th head.
Reaches(i) ==
  {Tree(i)} \union {<<m, chain[i].roots[m]>> : m \in {q \in Machines : chain[i].roots[q] # None}}

\* completedReferences.
Receipts == {Source(completed[m]) : m \in {q \in Machines : completed[q] # None}}

\* HeadWitness.LastModified, as the provider rounds it.
LastModified(i) == (chain[i].at \div Precision) * Precision

\* markRetained: a head retires at its successor's publication, plus the
\* precision of the timestamp; leases do not reset it.
RetainedFromOwn(i, earliest) ==
  i = Len(chain) \/ LastModified(i) + Precision + Lifetime >= earliest

Retained(i, earliest) ==
  i = Len(chain) \/ LastModified(i + 1) + Precision + Lifetime >= earliest

\* A conditional write of the head: applied when nothing replaced the version it
\* was prepared on, which also makes every other write in flight a failure.
Put(p) ==
  /\ head.epoch = p.match
  /\ head' = [epoch |-> p.epoch, leased |-> p.leased]
  /\ chain' = IF p.commit = None THEN chain
              ELSE Append(chain,
                     [by |-> p.commit.by, n |-> p.commit.n, at |-> now,
                      roots |-> [Last(chain).roots EXCEPT ![p.commit.by] = p.commit.content]])
  /\ objects' = IF p.commit = None THEN objects ELSE objects \union {Tree(Len(chain) + 1)}
  /\ late' = {}

Use(kind) == left[kind] > 0 /\ left' = [left EXCEPT ![kind] = @ - 1]

\* What m does next; or it stops here: it died, or it never got the answer.
Go(m, next) ==
  \/ pc' = [pc EXCEPT ![m] = next] /\ UNCHANGED left
  \/ pc' = [pc EXCEPT ![m] = "idle"] /\ next # "idle" /\ Use("stop")

\* The write of the head failed and may land later.
Delayed(p) == Use("stop") /\ late' = late \union {p} /\ UNCHANGED <<head, chain, objects>>

Idle == [pc |-> "off", clock |-> 0, seen |-> None, todo |-> {}]

Init ==
  /\ now = 0
  /\ owners = [m \in Machines |-> None]
  /\ completed = [m \in Machines |-> None]
  /\ seal = FALSE /\ hold = FALSE /\ link = None
  /\ head = [epoch |-> CHOOSE e \in Epochs : TRUE, leased |-> FALSE]
  /\ chain = <<[by |-> None, n |-> 0, roots |-> [m \in Machines |-> None], at |-> 0]>>
  /\ late = {}
  /\ objects = {Tree(1)}
  /\ pending = [m \in Machines |-> None]
  /\ tombstone = [m \in Machines |-> None]
  /\ published = [m \in Machines |-> 0]
  /\ pc = [m \in Machines |-> "idle"]
  /\ seen = [m \in Machines |-> None]
  /\ settled = [m \in Machines |-> FALSE]
  /\ gc = Idle
  /\ left = Budget

-----------------------------------------------------------------------------
(* A publication: collector/catalog_journal.go, catalog/coordinator.go     *)

\* freezeCatalogPending and prepareCatalogJournal: a new candidate is frozen,
\* with its journal, before anything remote knows of it.
Prepare(m) ==
  /\ pc[m] = "idle" /\ pending[m] = None /\ tombstone[m] = None
  /\ Use("publish")
  /\ \E c \in Offered(published[m] + 1) :
       pending' = [pending EXCEPT ![m] = [by |-> m, n |-> published[m] + 1, content |-> c]]
  /\ UNCHANGED <<now, coordinator, bucket, tombstone, published, publishers, gc>>

\* A seal that refuses the admitted journal as well.
BeginUnsealed(m) ==
  /\ pc[m] = "idle" /\ pending[m] # None /\ tombstone[m] = None
  /\ ~hold /\ link = None /\ ~seal
  /\ settled' = [settled EXCEPT ![m] = completed[m] = pending[m]]
  /\ owners' = [owners EXCEPT ![m] = IF completed[m] = pending[m] THEN @ ELSE pending[m]]
  /\ Go(m, IF completed[m] = pending[m] THEN "acknowledge" ELSE "source")
  /\ UNCHANGED <<now, completed, seal, hold, link, bucket, disks, seen, gc>>

\* BeginJournalPublication: the same journal may take over its own admission
\* across a seal, a new one may not; a receipt means only local work is left.
Begin(m) ==
  /\ pc[m] = "idle" /\ pending[m] # None /\ tombstone[m] = None
  /\ ~hold /\ link = None
  /\ IF completed[m] = pending[m]
     THEN /\ settled' = [settled EXCEPT ![m] = TRUE]
          /\ Go(m, "acknowledge")
          /\ UNCHANGED owners
     ELSE /\ owners[m] \in {None, pending[m]}
          /\ owners[m] = None => ~seal
          /\ owners' = [owners EXCEPT ![m] = pending[m]]
          /\ settled' = [settled EXCEPT ![m] = FALSE]
          /\ Go(m, "source")
  /\ UNCHANGED <<now, completed, seal, hold, link, bucket, disks, seen, gc>>

\* publicationClaim and checkWriteAuthority.
Authorized(m) == owners[m] = pending[m] /\ ~hold

\* putClaimedSource: create only; the same bytes being there already is success.
PutSource(m) ==
  /\ pc[m] = "source" /\ Authorized(m)
  /\ objects' = objects \union {Source(pending[m])}
  /\ Go(m, "read")
  /\ UNCHANGED <<now, coordinator, head, chain, late, disks, seen, settled, gc>>

\* Without asking the receipts.
ReadHeadOnly(m) ==
  /\ pc[m] = "read" /\ Authorized(m) /\ ~head.leased
  /\ seen' = [seen EXCEPT ![m] = head.epoch]
  /\ Go(m, "commit")
  /\ UNCHANGED <<now, coordinator, bucket, disks, settled, gc>>

\* commitAdmitted up to its compare-and-swap: a leased head refuses, a receipt
\* ends it, and prepareCommit verifies every source the new head will reach.  Its
\* conflict on ExpectedRevision cannot come up: a session has one writer, whose
\* candidate was frozen after its last one was committed and recorded.
ReadHead(m) ==
  /\ pc[m] = "read" /\ Authorized(m)
  /\ IF Receipt(pending[m])
     THEN Go(m, "acknowledge") /\ UNCHANGED seen
     ELSE /\ ~head.leased
          /\ Source(pending[m]) \in objects
          /\ seen' = [seen EXCEPT ![m] = head.epoch]
          /\ Go(m, "commit")
  /\ UNCHANGED <<now, coordinator, bucket, disks, settled, gc>>

CommitPut(m) ==
  [match |-> seen[m], epoch |-> FreshEpoch, leased |-> FALSE, commit |-> pending[m]]

\* The compare-and-swap of the head.
Commit(m) ==
  /\ pc[m] = "commit" /\ Authorized(m) /\ head.epoch = seen[m] /\ FreshEpochs # {}
  /\ \/ Put(CommitPut(m)) /\ Go(m, "acknowledge")
     \/ Delayed(CommitPut(m)) /\ pc' = [pc EXCEPT ![m] = "idle"]
  /\ seen' = [seen EXCEPT ![m] = None]
  /\ UNCHANGED <<now, coordinator, disks, settled, gc>>

\* A definite conflict: the commit is prepared again on the fresh head.
Rebase(m) ==
  /\ pc[m] = "commit" /\ head.epoch # seen[m]
  /\ pc' = [pc EXCEPT ![m] = "read"]
  /\ seen' = [seen EXCEPT ![m] = None]
  /\ UNCHANGED <<now, coordinator, bucket, disks, settled, gc, left>>

\* The local record moves on; a completed journal skips its completion.
Acknowledge(m) ==
  /\ pc[m] = "acknowledge"
  /\ published' = [published EXCEPT ![m] = pending[m].n]
  /\ Go(m, IF settled[m] THEN "bury" ELSE "complete")
  /\ UNCHANGED <<now, coordinator, bucket, pending, tombstone, seen, settled, gc>>

\* completeJournal: the head's receipt is verified, then the admission becomes
\* a receipt of the coordinator that still protects what it refers to.
Complete(m) ==
  /\ pc[m] = "complete" /\ Authorized(m)
  /\ Receipt(pending[m]) /\ link = None
  /\ completed' = [completed EXCEPT ![m] = owners[m]]
  /\ owners' = [owners EXCEPT ![m] = None]
  /\ Go(m, "bury")
  /\ UNCHANGED <<now, seal, hold, link, bucket, disks, seen, settled, gc>>

\* RecordJournalRemoval: the tombstone before the unlink.
Bury(m) ==
  /\ pc[m] = "bury"
  /\ tombstone' = [tombstone EXCEPT ![m] = pending[m]]
  /\ Go(m, "unlink")
  /\ UNCHANGED <<now, coordinator, bucket, pending, published, seen, settled, gc>>

\* RemoveCatalogPending.
Unlink(m) ==
  /\ pc[m] = "unlink"
  /\ pending' = [pending EXCEPT ![m] = None]
  /\ Go(m, "forget")
  /\ UNCHANGED <<now, coordinator, bucket, tombstone, published, seen, settled, gc>>

\* AcknowledgeJournalRemoval: only with the tombstone and without the journal.
Forget(m) ==
  /\ pc[m] = "forget"
  /\ tombstone[m] # None /\ pending[m] = None
  /\ ~hold /\ link = None
  /\ completed' = [completed EXCEPT ![m] = IF @ = tombstone[m] THEN None ELSE @]
  /\ Go(m, "retire")
  /\ UNCHANGED <<now, owners, seal, hold, link, bucket, disks, seen, settled, gc>>

\* RemoveJournalRemoval.
Retire(m) ==
  /\ pc[m] = "retire"
  /\ tombstone' = [tombstone EXCEPT ![m] = None]
  /\ Go(m, "idle")
  /\ UNCHANGED <<now, coordinator, bucket, pending, published, seen, settled, gc>>

\* Without acknowledging the removal first.
RecoverRemovalRetires(m) ==
  /\ pc[m] = "idle" /\ tombstone[m] # None
  /\ pc' = [pc EXCEPT ![m] = IF pending[m] = tombstone[m] THEN "unlink" ELSE "retire"]
  /\ UNCHANGED <<now, coordinator, bucket, disks, seen, settled, gc, left>>

\* recoverCatalogRemovals: the next pass finishes a removal before anything else.
RecoverRemoval(m) ==
  /\ pc[m] = "idle" /\ tombstone[m] # None
  /\ pc' = [pc EXCEPT ![m] = IF pending[m] = tombstone[m] THEN "unlink" ELSE "forget"]
  /\ UNCHANGED <<now, coordinator, bucket, disks, seen, settled, gc, left>>

Publish(m) ==
  \/ Begin(m) \/ PutSource(m) \/ ReadHead(m) \/ Commit(m) \/ Rebase(m)
  \/ Acknowledge(m) \/ Complete(m) \/ Bury(m) \/ Unlink(m) \/ Forget(m)
  \/ Retire(m) \/ RecoverRemoval(m)

-----------------------------------------------------------------------------
(* A collection: catalog/gc.go                                             *)

\* What the collection does next, or it stops: whatever it did stays done.
GcGo(next) ==
  \/ gc' = next /\ UNCHANGED left
  \/ gc' = Idle /\ next # Idle /\ Use("stop")

At(place) == [gc EXCEPT !.pc = place]

\* Store.CatalogBarrier: the seal, before anything is known to be drained.
Seal ==
  /\ gc.pc = "off" /\ ~seal
  /\ left.collect > 0
  /\ seal' = TRUE
  /\ \/ gc' = At("clock") /\ left' = [left EXCEPT !.collect = @ - 1]
     \/ left.stop > 0 /\ left' = [left EXCEPT !.collect = @ - 1, !.stop = @ - 1] /\ UNCHANGED gc
  /\ UNCHANGED <<now, owners, completed, hold, link, bucket, disks, publishers>>

\* Collect reads the provider's clock before it holds the barrier.
ReadClock ==
  /\ gc.pc = "clock"
  /\ \E e \in (IF now > Uncertainty THEN now - Uncertainty ELSE 0) .. now :
       gc' = [gc EXCEPT !.pc = "hold", !.clock = e]
  /\ UNCHANGED <<now, coordinator, bucket, disks, publishers, left>>

DrainedAssumed == TRUE

Drained == \A m \in Machines : owners[m] = None

\* heldCoordinator.Hold, refused while an owner is admitted: the collection
\* then ends and leaves its seal.
Hold ==
  /\ gc.pc = "hold"
  /\ IF seal /\ ~hold /\ Drained
     THEN hold' = TRUE /\ GcGo([At("link") EXCEPT !.seen = head.epoch])
     ELSE gc' = Idle /\ UNCHANGED <<hold, left>>
  /\ UNCHANGED <<now, owners, completed, seal, link, bucket, disks, publishers>>

\* bindGCLease: the head that will be leased is announced in the coordinator.
BindLease ==
  /\ gc.pc = "link" /\ head.epoch = gc.seen
  /\ seal /\ hold /\ link = None /\ FreshEpochs # {}
  /\ link' = [prior |-> gc.seen, leased |-> FreshEpoch, released |-> None]
  /\ GcGo(At("lease"))
  /\ UNCHANGED <<now, owners, completed, seal, hold, bucket, disks, publishers>>

\* A write of the head by the collection or its recovery.
GcPut(p, next) ==
  \/ Put(p) /\ GcGo(next)
  \/ Delayed(p) /\ gc' = Idle

\* acquireGC: the head is leased, and read back.  The lease's own time is between
\* the two readings of the clock around it, since the provider's clock only moves on.
Lease ==
  /\ gc.pc = "lease" /\ head.epoch = gc.seen
  /\ GcPut([match |-> gc.seen, epoch |-> link.leased, leased |-> TRUE, commit |-> None],
           [At("mark") EXCEPT !.seen = link.leased])
  /\ UNCHANGED <<now, coordinator, disks, publishers>>

Live(clock) ==
  Receipts \union UNION {Reaches(i) : i \in {j \in DOMAIN chain : Retained(j, clock)}}

\* markRetained: the head is not newer than the clock that was read before the
\* barrier, at its latest; a publisher drained in between may have made one.
Qualified == LastModified(Len(chain)) <= gc.clock + Uncertainty

\* markProtected, markHead and markRetained: the retained heads are walked from
\* the newest; one that a later clock already gave up fails the collection.
Mark ==
  /\ gc.pc = "mark"
  /\ gc' = IF Qualified /\ Live(gc.clock) \subseteq objects
           THEN [At("sweep") EXCEPT !.todo = objects \ Live(gc.clock)]
           ELSE Idle
  /\ UNCHANGED <<now, coordinator, bucket, disks, publishers, left>>

\* verifyGCSweep before every deletion.
Fenced == link # None /\ head.epoch = link.leased /\ hold /\ Drained

\* Listing what is deleted again and again.
DeleteAgain ==
  /\ gc.pc = "sweep" /\ Fenced
  /\ \E o \in gc.todo : objects' = objects \ {o} /\ GcGo(gc)
  /\ UNCHANGED <<now, coordinator, head, chain, late, disks, publishers>>

\* removeUnreachable.
Delete ==
  /\ gc.pc = "sweep" /\ Fenced
  /\ \E o \in gc.todo :
       /\ objects' = objects \ {o}
       /\ GcGo([gc EXCEPT !.todo = @ \ {o}])
  /\ UNCHANGED <<now, coordinator, head, chain, late, disks, publishers>>

\* bindGCRelease: the head that releases the lease is announced, once.
BindRelease ==
  /\ gc.pc \in {"sweep", "recover"} /\ link # None
  /\ gc.pc = "sweep" => gc.todo = {} /\ Fenced
  /\ gc.pc = "recover" => gc.seen \in {link.leased, link.prior}
  /\ link.released = None => FreshEpochs # {}
  /\ link' = IF link.released # None THEN link ELSE [link EXCEPT !.released = FreshEpoch]
  /\ GcGo(At("release"))
  /\ UNCHANGED <<now, owners, completed, seal, hold, bucket, disks, publishers>>

\* The write that takes the lease off the head; over the head from before the
\* lease it makes sure that the lease can no longer land.
Release ==
  /\ gc.pc = "release" /\ head.epoch = gc.seen
  /\ GcPut([match |-> gc.seen, epoch |-> link.released, leased |-> FALSE, commit |-> None],
           At("finish"))
  /\ UNCHANGED <<now, coordinator, disks, publishers>>

\* The head is not what it was: the collection or recovery ends with an error.
GcConflict ==
  /\ gc.pc \in {"link", "lease", "release"} /\ head.epoch # gc.seen
  /\ gc' = Idle
  /\ UNCHANGED <<now, coordinator, bucket, disks, publishers, left>>

\* Taking a head from before the lease for a released one.
FinishUnleased ==
  /\ gc.pc = "finish" \/ (gc.pc = "recover" /\ link # None /\ gc.seen # link.leased)
  /\ link # None /\ head.epoch # link.leased
  /\ link' = None /\ hold' = FALSE /\ seal' = FALSE
  /\ GcGo(Idle)
  /\ UNCHANGED <<now, owners, completed, bucket, disks, publishers>>

\* finishGCRelease.
Finish ==
  /\ gc.pc = "finish" \/ (gc.pc = "recover" /\ link # None /\ gc.seen = link.released)
  /\ link # None /\ head.epoch = link.released
  /\ link' = None /\ hold' = FALSE /\ seal' = FALSE
  /\ GcGo(Idle)
  /\ UNCHANGED <<now, owners, completed, bucket, disks, publishers>>

-----------------------------------------------------------------------------
(* The operator: _catalog recover and recover-seal                         *)

\* recoverLinkedGC of a collection that died: which of the three announced
\* heads is there.
Recover ==
  /\ gc.pc = "off" /\ link # None
  /\ Receipts \subseteq objects
  /\ gc' = [At("recover") EXCEPT !.seen = head.epoch]
  /\ UNCHANGED <<now, coordinator, bucket, disks, publishers, left>>

\* RecoverUnleasedSeal, of a drained seal that was never held.
RecoverSeal ==
  /\ gc.pc = "off" /\ seal /\ ~hold /\ link = None /\ Drained
  /\ seal' = FALSE
  /\ UNCHANGED <<now, owners, completed, hold, link, bucket, disks, publishers, gc, left>>

-----------------------------------------------------------------------------
(* The outside                                                             *)

\* Only a commit and the collection's clock read the time, so it passes between
\* publications, and before the collection or between its clock and its hold.
Tick ==
  /\ now < MaxTime /\ now' = now + 1
  /\ \A m \in Machines : pc[m] = "idle"
  /\ gc.pc \in {"off", "hold"}
  /\ UNCHANGED <<coordinator, bucket, disks, publishers, gc, left>>

\* A write that was given up on lands.
Land ==
  /\ \E p \in late : Put(p)
  /\ UNCHANGED <<now, coordinator, disks, publishers, gc, left>>

Collect ==
  \/ ReadClock \/ Hold \/ BindLease \/ Lease \/ Mark \/ Delete
  \/ BindRelease \/ Release \/ GcConflict \/ Finish

Next ==
  \/ \E m \in Machines : Prepare(m) \/ Publish(m)
  \/ Seal \/ Collect \/ Recover \/ RecoverSeal
  \/ Tick \/ Land

Spec == Init /\ [][Next]_vars

\* Passes go on, a collection goes on, and the operator recovers what died.
FairSpec ==
  /\ Spec
  /\ \A m \in Machines : WF_vars(Publish(m))
  /\ WF_vars(Collect) /\ WF_vars(Recover) /\ WF_vars(RecoverSeal)

-----------------------------------------------------------------------------
(* Properties                                                              *)

TypeOK ==
  /\ now \in 0 .. MaxTime
  /\ owners \in [Machines -> Candidates \union {None}]
  /\ completed \in [Machines -> Candidates \union {None}]
  /\ {seal, hold} \subseteq BOOLEAN
  /\ link \in Links \union {None}
  /\ head \in [epoch : Epochs, leased : BOOLEAN]
  /\ \A i \in DOMAIN chain :
       chain[i].at \in 0 .. MaxTime /\ chain[i].roots \in [Machines -> Contents \union {None}]
  /\ objects \subseteq (Machines \X Contents) \union {Tree(i) : i \in DOMAIN chain}
  /\ \A p \in late : p.match = head.epoch
  /\ pending \in [Machines -> Candidates \union {None}]
  /\ tombstone \in [Machines -> Candidates \union {None}]
  /\ gc.seen \in Epochs \union {None}
  /\ gc.todo \subseteq objects

\* A reader that opened a snapshot no longer than a lifetime ago finds all of
\* it, whatever was published and collected since (catalog/snapshot.go:71): the
\* current head is whole, and so is each earlier one until its successor is a
\* lifetime old.
SnapshotKept ==
  \A i \in DOMAIN chain :
    (i = Len(chain) \/ now < chain[i + 1].at + Lifetime) => Reaches(i) \subseteq objects

\* A mutation is committed once, however often its answer was lost, its write
\* landed late, or its pass was repeated (Commit: "an ambiguous response never
\* licenses a blind overwrite").
CommittedOnce ==
  \A i, j \in DOMAIN chain :
    chain[i].by = chain[j].by /\ chain[i].n = chain[j].n => i = j

\* Whatever fences or obliges somebody is recorded where a recovery finds it: a
\* lease on the head is the one the coordinator announced (gc_recovery.go,
\* bindGCLease); a receipt has, on its machine, the journal or the tombstone that
\* will remove it, and a tombstone stands for a candidate that was committed and
\* recorded (journal_publication.go, catalog_journal.go).
AuthorityIsOwned ==
  /\ head.leased => link # None /\ head.epoch = link.leased
  /\ \A m \in Machines :
       /\ completed[m] # None => completed[m] \in {pending[m], tombstone[m]}
       /\ tombstone[m] # None => Receipt(tombstone[m]) /\ published[m] >= tombstone[m].n

\* What an admitted publisher uploaded, and what a receipt refers to, stays
\* until it is settled, and the head does not move under a lease.
ClaimsKept ==
  [][/\ \A m \in Machines :
          /\ owners[m] # None /\ Source(owners[m]) \in objects => Source(owners[m]) \in objects'
          /\ completed[m] # None => Source(completed[m]) \in objects'
     /\ head.leased => chain' = chain]_vars

\* Held without a link: a collection stopped between the two changes.
Orphaned == hold /\ link = None /\ gc.pc = "off"

\* A frozen candidate is published and its journal removed, with a collection
\* and its recovery in between, unless the barrier is orphaned.
PendingSettles ==
  \A m \in Machines : pending[m] # None ~> (pending[m] = None \/ Orphaned)
=============================================================================
