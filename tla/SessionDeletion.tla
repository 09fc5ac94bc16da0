--------------------------- MODULE SessionDeletion ---------------------------
(***************************************************************************)
(* The removal of one archived session, and its way back: the deletion     *)
(* intent and its phases (internal/state/session_deletion.go), the sweep   *)
(* that carries it out (internal/retention/owned_delete.go, retention.go), *)
(* the collector that restores exactly what was removed when a hook came   *)
(* in between (state/session_restoration.go,                               *)
(* collector/retention_restoration.go), and the undo of an import, which   *)
(* takes an unfinished removal over (backfill/undo.go).                    *)
(*                                                                         *)
(* A pass scans the session and then sweeps it; an undo removes it.  Both  *)
(* hold collector.lock, so one process works at a time, and hooks queue    *)
(* requests whenever they like.  A step is one durable write or one remote *)
(* call with what is decided from memory around it; a crash may come       *)
(* between any two.  A document is its version: metadata names the sources *)
(* SourcesOf it, and two that differ in version differ in bytes.           *)
(***************************************************************************)
EXTENDS Naturals, FiniteSets

CONSTANTS
  Sources,       \* objects in the session's namespace
  Versions,      \* documents the session's metadata can be, in order
  SourcesOf(_),  \* SourceReferences of a document
  Hooks,         \* tokens of requests, in the order they are saved
  Budget         \* bound: how often each kind of outside event happens

Kinds == {"age", "hold", "fault", "crash", "undo"}
None == 0
Reasons == {"retention", "undo"}

\* The phases of an intent; "removed" is cleaned with LocalRemoved.
Phases ==
  {"none", "preparing", "prepared", "deleting", "absent", "cleaned", "finalizing",
   "removed", "restoring", "restored", "cancelled"}

ASSUME NumbersAssumption ==
  /\ Versions \subseteq Nat \ {None}
  /\ 1 \in Versions
  /\ Hooks \subseteq Nat \ {None}
  /\ \A v \in Versions : SourcesOf(v) \subseteq Sources
  /\ Budget \in [Kinds -> Nat]

VARIABLES
  registered,  \* registrations/<id>.json exists
  request,     \* requests/<id>.json: [token, early, items]; token None: no file
  published,   \* published/<id>.json: [version, items, expired]
  pending,     \* pending/<id>.json: [version, token, items, grant]
  intent,      \* session-deletions/<id>/intent.json: [phase, reason, version, token, grant]
  stages,      \* session-deletions/<id>/sources: sources, and whether metadata.json is there
  metadata,    \* the version of metadata.json in the bucket, or None
  sources,     \* source objects in the bucket
  pc,          \* where the process that holds collector.lock is
  work,        \* its memory: [reason, request, raw, fresh, yields, then]
  saved,       \* history: hooks whose evidence was queued
  undone,      \* history: an undo took the session
  left         \* outside events left, by kind

records == <<registered, request, published, pending>>
removal == <<intent, stages>>
bucket == <<metadata, sources>>
process == <<pc, work>>
vars == <<records, removal, bucket, process, saved, undone, left>>

NoRequest == [token |-> None, early |-> FALSE, items |-> {}]
NoPublished == [version |-> None, items |-> {}, expired |-> FALSE]
NoPending == [version |-> None, token |-> None, items |-> {}, grant |-> None]
NoIntent ==
  [phase |-> "none", reason |-> "retention", version |-> None, token |-> None, grant |-> None]
NoStages == [sources |-> {}, metadata |-> FALSE]
NoWork ==
  [reason |-> "retention", request |-> NoRequest, raw |-> None,
   fresh |-> FALSE, yields |-> TRUE, then |-> "idle"]

RefsOf(v) == IF v = None THEN {} ELSE SourcesOf(v)

-----------------------------------------------------------------------------
(* The intent and the request                                              *)

\* An intent that still owes something.
Active == intent.phase \notin {"none", "removed", "restored", "cancelled"}

\* DeletionRequestChanged, for a removal that yields to newer work.
WorkChanged ==
  /\ intent.reason = "retention"
  /\ request.token \notin {None, intent.token}

\* validRestorationRequest: newer than the intent, by token and by time.
Grants(r) == r.token \notin {None, intent.token} /\ ~r.early

\* verifyRetainedDeletionSet.
AllStaged == RefsOf(intent.version) \subseteq stages.sources

\* verifyDeletionPosition: the selecting metadata is the one the intent froze,
\* or gone; once it was seen absent, it stays absent.
InPosition ==
  /\ AllStaged
  /\ metadata \in {None, intent.version}
  /\ intent.phase \in {"absent", "cleaned"} => metadata = None

Goto(label) == pc' = label /\ UNCHANGED work
Spend(kind) == left[kind] > 0 /\ left' = [left EXCEPT ![kind] = @ - 1]

\* The process returns, whatever it still had to do; a collector goes on to
\* sweep.
Return == pc' = "idle" /\ work' = NoWork
ToSweep == pc' = "sweep" /\ work' = NoWork

Advance(phase) == intent' = [intent EXCEPT !.phase = phase]

-----------------------------------------------------------------------------
(* What happens around the process                                         *)

Init ==
  /\ registered = TRUE
  /\ request = NoRequest
  /\ published = [version |-> 1, items |-> {}, expired |-> FALSE]
  /\ pending = NoPending
  /\ intent = NoIntent
  /\ stages = NoStages
  /\ metadata = 1
  /\ sources = SourcesOf(1)
  /\ pc = "idle"
  /\ work = NoWork
  /\ saved = {}
  /\ undone = FALSE
  /\ left = Budget

\* SaveRequest under the request lock, with a new token every time.  A hook
\* that read its clock before the sweep and saves during it is older than the
\* intent of that sweep; merged with a request that is not, it is not.
HookSaves ==
  /\ registered
  /\ \E h \in Hooks \ saved, late \in {FALSE, work.fresh} :
       /\ \A g \in Hooks \ saved : h <= g
       /\ saved' = saved \union {h}
       /\ request' = [token |-> h,
                      early |-> late /\ (request.token # None => request.early),
                      items |-> request.items \union {h}]
  /\ UNCHANGED <<registered, published, pending, removal, bucket, process, undone, left>>

\* The newest capture passes the retention window.
Age ==
  /\ published.version # None /\ ~published.expired
  /\ Spend("age")
  /\ published' = [published EXCEPT !.expired = TRUE]
  /\ UNCHANGED <<registered, request, pending, removal, bucket, process, saved, undone>>

Crash ==
  /\ pc # "idle"
  /\ Spend("crash")
  /\ Return
  /\ UNCHANGED <<records, removal, bucket, saved, undone>>

\* A remote call that changes nothing fails; the session is left for later.
RemoteFails ==
  /\ pc \in {"granted", "read", "stage", "check", "readback", "namespace"}
  /\ Spend("fault")
  /\ IF pc = "granted" THEN ToSweep ELSE Return
  /\ UNCHANGED <<records, removal, bucket, saved, undone>>

-----------------------------------------------------------------------------
(* The collector: a removal that is unfinished comes first                 *)

\* loadWork reads the requests once for the whole pass.
StartPass ==
  /\ pc = "idle"
  /\ pc' = "collect"
  /\ work' = [NoWork EXCEPT !.request = request]
  /\ UNCHANGED <<records, removal, bucket, saved, undone, left>>

\* The session is gone, or nothing asks for it and its transcript is as it was.
NothingToCollect ==
  /\ pc = "collect"
  /\ ~registered \/ (work.request.token = None /\ pending = NoPending)
  /\ ToSweep
  /\ UNCHANGED <<records, removal, bucket, saved, undone, left>>

\* resumeRetentionDeletion: no removal stands in the way of an ordinary scan.
NoRemoval ==
  /\ pc = "collect" /\ registered
  /\ intent.phase = "none"
  /\ Goto("scan")
  /\ UNCHANGED <<records, removal, bucket, saved, undone, left>>

\* A removal that was restored or withdrawn only has its stages left, unless the
\* restoration is not recorded as settled yet.
RemovalOver ==
  /\ pc = "collect" /\ registered
  /\ intent.phase \in {"restored", "cancelled"}
  /\ \/ /\ pending = NoPending
        /\ pc' = "clear" /\ work' = [work EXCEPT !.then = "scan"]
     \/ /\ pending # NoPending
        /\ IF intent.phase = "restored" /\ pending.grant # None
           THEN Goto("publish")
           ELSE ToSweep
  /\ UNCHANGED <<records, removal, bucket, saved, undone, left>>

\* A withdrawal that takes a removal back whose DELETE may have been sent.
WithdrawSent ==
  /\ pc = "collect" /\ registered
  /\ intent.phase \in {"preparing", "prepared", "deleting"}
  /\ IF /\ intent.reason = "retention"
        /\ Grants(work.request) /\ request.token = work.request.token
     THEN /\ Advance("cancelled")
          /\ pc' = "clear" /\ work' = [work EXCEPT !.then = "scan"]
     ELSE ToSweep /\ UNCHANGED intent
  /\ UNCHANGED <<records, stages, bucket, saved, undone, left>>

\* CancelUnstartedDeletion, against the request the pass took with it.
Withdraw ==
  /\ pc = "collect" /\ registered
  /\ intent.phase \in {"preparing", "prepared"}
  /\ \/ /\ intent.reason = "retention"
        /\ Grants(work.request) /\ request.token = work.request.token
        /\ Advance("cancelled")
        /\ pc' = "clear" /\ work' = [work EXCEPT !.then = "scan"]
     \/ /\ \/ intent.reason = "undo"
           \/ ~Grants(work.request) \/ request.token # work.request.token
        /\ ToSweep
        /\ UNCHANGED intent
  /\ UNCHANGED <<records, stages, bucket, saved, undone, left>>

\* A removal that may have taken the metadata is past it only when it is gone.
SeeAbsent ==
  /\ pc = "collect" /\ registered
  /\ intent.phase = "deleting"
  /\ IF intent.reason = "retention" /\ metadata = None
     THEN Advance("absent") /\ UNCHANGED process
     ELSE ToSweep /\ UNCHANGED intent
  /\ UNCHANGED <<records, stages, bucket, saved, undone, left>>

\* The journal alone is taken for the permission.
ResumeUnvalidated ==
  /\ pc = "collect" /\ registered
  /\ intent.phase \in {"absent", "cleaned", "restoring"}
  /\ intent.reason = "undo" \/ pending # NoPending
  /\ IF pending.grant # None THEN Goto("publish") ELSE ToSweep
  /\ UNCHANGED <<records, removal, bucket, saved, undone, left>>

\* resumeRetentionAbsent with a journal: ValidateRetentionRestoration.
ResumeRestoration ==
  /\ pc = "collect" /\ registered
  /\ intent.phase \in {"absent", "cleaned", "restoring"}
  /\ intent.reason = "undo" \/ pending # NoPending
  /\ IF /\ intent.reason = "retention" /\ intent.phase = "restoring"
        /\ pending.grant # None /\ pending.grant = intent.grant
     THEN Goto("publish")
     ELSE ToSweep
  /\ UNCHANGED <<records, removal, bucket, saved, undone, left>>

\* PrepareRetentionRestoration: the hook's token is the permission to publish
\* again exactly what was removed.
GrantRestoration ==
  /\ pc = "collect" /\ registered
  /\ intent.phase \in {"absent", "cleaned", "restoring"}
  /\ intent.reason = "retention" /\ pending = NoPending
  /\ \/ /\ metadata \in {None, intent.version}
        /\ Grants(work.request)
        /\ published.version # None /\ published.version = intent.version
        /\ intent.phase = "restoring" => intent.grant = work.request.token
        /\ request.token = work.request.token
        /\ intent' = [intent EXCEPT !.phase = "restoring", !.grant = work.request.token]
        /\ Goto("granted")
     \/ /\ \/ metadata \notin {None, intent.version}
           \/ ~Grants(work.request)
           \/ published.version = None \/ published.version # intent.version
           \/ intent.phase = "restoring" /\ intent.grant # work.request.token
           \/ request.token # work.request.token
        /\ ToSweep
        /\ UNCHANGED intent
  /\ UNCHANGED <<records, stages, bucket, saved, undone, left>>

\* The restoration is a publication like another, without the hook's evidence.
SaveRestoration ==
  /\ pc = "granted"
  /\ pending' = [version |-> intent.version, token |-> None, items |-> {}, grant |-> intent.grant]
  /\ ToSweep
  /\ UNCHANGED <<registered, request, published, removal, bucket, saved, undone, left>>

\* The ordinary scan, as far as a removal can tell: a publication that carries
\* the evidence of its request, or a request that asks for nothing new.
Scan ==
  /\ pc = "scan"
  /\ \/ /\ pending # NoPending
        /\ Goto("publish")
        /\ UNCHANGED <<pending, request>>
     \/ /\ pending = NoPending
        /\ work.request.token # None
        /\ \E v \in Versions :
             /\ v = published.version + 1
             /\ pending' = [version |-> v, token |-> work.request.token,
                            items |-> work.request.items, grant |-> None]
        /\ Goto("publish")
        /\ UNCHANGED request
     \/ /\ pending = NoPending
        /\ work.request.items \subseteq published.items
        /\ request' = IF request.token = work.request.token THEN NoRequest ELSE request
        /\ ToSweep
        /\ UNCHANGED pending
  /\ UNCHANGED <<registered, published, removal, bucket, saved, undone, left>>

-----------------------------------------------------------------------------
(* The collector: one publication, ordinary or a restoration               *)

Restoring == pending.grant # None

\* publicationPosition: the metadata it wrote already, or the one it replaces.
InPlace ==
  \/ metadata = pending.version
  \/ metadata = (IF Restoring THEN None ELSE published.version)

\* publishExactSource.  A restoration has no bytes of its own but the staged
\* ones.  A PUT that fails may have stored the object.
PutSource ==
  /\ pc = "publish"
  /\ InPlace
  /\ \E s \in RefsOf(pending.version) \ sources :
       /\ Restoring => s \in stages.sources
       /\ \/ /\ sources' = sources \union {s}
             /\ UNCHANGED <<process, left>>
          \/ /\ Spend("fault")
             /\ sources' \in {sources, sources \union {s}}
             /\ ToSweep
  /\ UNCHANGED <<records, removal, metadata, saved, undone>>

\* The document first.
PutMetadataFirst ==
  /\ pc = "publish" /\ InPlace
  /\ metadata' = pending.version
  /\ Goto("ack")
  /\ UNCHANGED <<records, removal, sources, saved, undone, left>>

\* The document that selects the sources follows them, and is read back.  One
\* that is neither is a conflict, and the journal waits.
PutMetadata ==
  /\ pc = "publish"
  /\ InPlace => RefsOf(pending.version) \subseteq sources
  /\ IF InPlace
     THEN \/ /\ metadata' = pending.version
             /\ Goto("ack")
             /\ UNCHANGED left
          \/ /\ Spend("fault")
             /\ metadata' \in {metadata, pending.version}
             /\ ToSweep
     ELSE ToSweep /\ UNCHANGED <<metadata, left>>
  /\ UNCHANGED <<records, removal, sources, saved, undone>>

\* SaveCommittedPublication.  A restoration publishes nothing new, so the
\* session is as old as it was.
Acknowledge ==
  /\ pc = "ack"
  /\ published' = [version |-> pending.version,
                   items |-> published.items \union pending.items,
                   expired |-> Restoring /\ published.expired]
  /\ Goto("settle")
  /\ UNCHANGED <<registered, request, pending, removal, bucket, saved, undone, left>>

\* CompleteRetentionRestoration, which completes no request, or CompleteRequest.
Settle ==
  /\ pc = "settle"
  /\ IF Restoring
     THEN Advance("restored") /\ UNCHANGED request
     ELSE /\ request' = IF request.token = pending.token THEN NoRequest ELSE request
          /\ UNCHANGED intent
  /\ Goto("drop")
  /\ UNCHANGED <<registered, published, pending, stages, bucket, saved, undone, left>>

DropPending ==
  /\ pc = "drop"
  /\ pending' = NoPending
  /\ IF Restoring
     THEN pc' = "clear" /\ work' = [work EXCEPT !.then = "sweep"]
     ELSE ToSweep
  /\ UNCHANGED <<registered, request, published, removal, bucket, saved, undone, left>>

\* RemoveRestoredDeletionStages: the staged copies first, then the intent.
ClearStages ==
  /\ pc = "clear"
  /\ stages' = NoStages
  /\ Goto("unlink")
  /\ UNCHANGED <<records, intent, bucket, saved, undone, left>>

UnlinkIntent ==
  /\ pc = "unlink"
  /\ intent' = NoIntent
  /\ IF work.then = "sweep" THEN ToSweep ELSE Goto(work.then)
  /\ UNCHANGED <<records, stages, bucket, saved, undone, left>>

-----------------------------------------------------------------------------
(* The sweep and the undo: which removal there is to carry out             *)

\* Sweep scans the requests once; what it decides for this session later
\* rests on that scan (Outstanding.Requested).
Sweep ==
  /\ pc = "sweep"
  /\ pc' = "decide"
  /\ work' = [work EXCEPT !.request = request, !.fresh = registered /\ ~Active]
  /\ UNCHANGED <<records, removal, bucket, saved, undone, left>>

\* DefersExpiry is what the scan saw and the journal that is there now.
Expires ==
  /\ registered /\ ~Active
  /\ published.version # None /\ published.expired
  /\ work.request.token = None /\ pending = NoPending

\* The server's clock cannot be read, and licenses no deletion.
ClockHolds ==
  /\ pc = "decide"
  /\ registered
  /\ Active \/ Expires
  /\ Spend("hold")
  /\ Return
  /\ UNCHANGED <<records, removal, bucket, saved, undone>>

\* A recovery that knows the cleaned phase only.
DecideCleaned ==
  /\ pc = "decide"
  /\ \/ /\ registered /\ Active
        /\ pc' = "read" /\ work' = [work EXCEPT !.reason = intent.reason]
     \/ Expires /\ Goto("read")
     \/ ~registered /\ intent.phase = "cleaned" /\ Goto("finish")
     \/ ~registered /\ intent.phase # "cleaned" /\ Return
     \/ registered /\ ~Active /\ ~Expires /\ Return
  /\ UNCHANGED <<records, removal, bucket, saved, undone, left>>

\* An unfinished removal goes on for its own reason; a session whose forgetting
\* was interrupted is finished; an expired one with nothing owed is removed.
Decide ==
  /\ pc = "decide"
  /\ \/ /\ registered /\ Active
        /\ pc' = "read" /\ work' = [work EXCEPT !.reason = intent.reason]
     \/ /\ Expires
        /\ Goto("read")
     \/ /\ ~registered /\ intent.phase \in {"cleaned", "finalizing"}
        /\ Goto("finish")
     \/ /\ ~(registered /\ Active) /\ ~Expires
        /\ ~(~registered /\ intent.phase \in {"cleaned", "finalizing"})
        /\ Return
  /\ UNCHANGED <<records, removal, bucket, saved, undone, left>>

\* UndoPlan.Remove: whatever a hook queued for it meanwhile.
StartUndo ==
  /\ pc = "idle" /\ registered
  /\ Spend("undo")
  /\ undone' = TRUE
  /\ pc' = "read"
  /\ work' = [NoWork EXCEPT !.reason = "undo", !.yields = FALSE]
  /\ UNCHANGED <<records, removal, bucket, saved>>

\* DeleteOwnedSession begins with the metadata as it is and the request there is.
ReadSession ==
  /\ pc = "read"
  /\ pc' = "prepare"
  /\ work' = [work EXCEPT !.raw = metadata, !.request = request]
  /\ UNCHANGED <<records, removal, bucket, saved, undone, left>>


-----------------------------------------------------------------------------
(* PrepareSessionDeletion                                                  *)

\* prepareNewDeletion: the intent names the request it has reviewed, and is not
\* saved when another has come.
PrepareNew ==
  /\ pc = "prepare"
  /\ intent.phase = "none"
  /\ \/ /\ work.reason = "retention" => request.token = work.request.token
        /\ intent' = [phase |-> "preparing", reason |-> work.reason, version |-> work.raw,
                      token |-> work.request.token, grant |-> None]
        /\ UNCHANGED process
     \/ /\ work.reason = "retention" /\ request.token # work.request.token
        /\ Return
        /\ UNCHANGED intent
  /\ UNCHANGED <<records, stages, bucket, saved, undone, left>>

\* A takeover that leaves the granted restoration as it is.
TakeOverGranted ==
  /\ pc = "prepare"
  /\ work.reason = "undo" /\ intent.reason = "retention" /\ Active
  /\ intent' = [intent EXCEPT !.reason = "undo"]
  /\ UNCHANGED <<records, stages, bucket, process, saved, undone, left>>

\* A takeover that takes the namespace for as clean as it was before the grant.
TakeOverCleaned ==
  /\ pc = "prepare"
  /\ work.reason = "undo" /\ intent.reason = "retention" /\ Active
  /\ intent' = [intent EXCEPT !.reason = "undo", !.grant = None,
                              !.phase = IF @ = "restoring" THEN "cleaned" ELSE @]
  /\ UNCHANGED <<records, stages, bucket, process, saved, undone, left>>

\* prepareExistingDeletion: an undo takes a retention removal over, and revokes
\* a restoration that was granted.
TakeOver ==
  /\ pc = "prepare"
  /\ work.reason = "undo" /\ intent.reason = "retention" /\ Active
  /\ intent' = [intent EXCEPT !.reason = "undo", !.grant = None,
                              !.phase = IF @ = "restoring" THEN "absent" ELSE @]
  /\ UNCHANGED <<records, stages, bucket, process, saved, undone, left>>

\* finishDeletionPreparation keeps the metadata with the intent.
FinishPreparation ==
  /\ pc = "prepare"
  /\ intent.phase = "preparing" /\ intent.reason = work.reason
  /\ \/ /\ work.raw = intent.version
        /\ work.reason = "retention" => request.token = intent.token
        /\ Advance("prepared")
        /\ stages' = [stages EXCEPT !.metadata = intent.version # None]
        /\ UNCHANGED process
     \/ /\ \/ work.raw # intent.version
           \/ work.reason = "retention" /\ request.token # intent.token
        /\ Return
        /\ UNCHANGED removal
  /\ UNCHANGED <<records, bucket, saved, undone, left>>

\* What a removal left when it was restored or withdrawn goes first.
ClearSettled ==
  /\ pc = "prepare"
  /\ intent.phase \in {"restored", "cancelled"}
  /\ IF pending = NoPending
     THEN pc' = "clear" /\ work' = [work EXCEPT !.then = "prepare"]
     ELSE Return
  /\ UNCHANGED <<records, removal, bucket, saved, undone, left>>

\* DeleteOwnedSession goes on where the phase says it was.
Proceed ==
  /\ pc = "prepare"
  /\ Active /\ intent.phase # "preparing"
  /\ ~(work.reason = "undo" /\ intent.reason = "retention")
  /\ LET goes == /\ intent.reason = work.reason
                 /\ intent.phase \in {"prepared", "deleting", "absent", "cleaned"}
                 /\ work.raw \in {None, intent.version}
     IN  \/ goes /\ intent.phase = "prepared" /\ Goto("stage")
         \/ goes /\ intent.phase = "deleting" /\ Goto("delete")
         \/ goes /\ intent.phase \in {"absent", "cleaned"} /\ Goto("namespace")
         \/ ~goes /\ Return
  /\ UNCHANGED <<records, removal, bucket, saved, undone, left>>

-----------------------------------------------------------------------------
(* DeleteOwnedSession: sources are kept, metadata goes, then the sources   *)

\* retainDeletingSource, one source after the other; all of them lead on.
StageSource ==
  /\ pc = "stage"
  /\ ~AllStaged
  /\ \E s \in RefsOf(intent.version) \ stages.sources :
       IF s \in sources
       THEN stages' = [stages EXCEPT !.sources = @ \union {s}] /\ UNCHANGED process
       ELSE Return /\ UNCHANGED stages
  /\ UNCHANGED <<records, intent, bucket, saved, undone, left>>

StagedAll ==
  /\ pc = "stage"
  /\ AllStaged
  /\ Goto("check")
  /\ UNCHANGED <<records, removal, bucket, saved, undone, left>>

\* The phase is saved before the metadata is deleted.
StartDeleting ==
  /\ pc = "check"
  /\ \/ /\ InPosition /\ metadata = intent.version
        /\ ~WorkChanged
        /\ Advance("deleting")
        /\ Goto("delete")
     \/ /\ ~InPosition \/ metadata # intent.version \/ WorkChanged
        /\ Return
        /\ UNCHANGED intent
  /\ UNCHANGED <<records, stages, bucket, saved, undone, left>>

\* A DELETE that fails may have removed the object.
DeleteMetadata ==
  /\ pc = "delete"
  /\ IF InPosition
     THEN \/ /\ metadata' = None
             /\ Goto("readback")
             /\ UNCHANGED left
          \/ /\ Spend("fault")
             /\ metadata' \in {metadata, None}
             /\ Return
     ELSE Return /\ UNCHANGED <<metadata, left>>
  /\ UNCHANGED <<records, removal, sources, saved, undone>>

ReadBack ==
  /\ pc = "readback"
  /\ IF metadata = None
     THEN Advance("absent") /\ Goto("namespace")
     ELSE Return /\ UNCHANGED intent
  /\ UNCHANGED <<records, stages, bucket, saved, undone, left>>

\* deleteOwnedNamespace: a cleaned one is left alone; newer work stops it.
ListNamespace ==
  /\ pc = "namespace"
  /\ \/ /\ intent.phase = "cleaned"
        /\ Goto("forget")
     \/ /\ intent.phase = "absent"
        /\ IF WorkChanged \/ metadata # None THEN Return ELSE Goto("object")
  /\ UNCHANGED <<records, removal, bucket, saved, undone, left>>

DeleteSource ==
  /\ pc = "object"
  /\ \E s \in sources :
       IF InPosition /\ ~WorkChanged
       THEN \/ /\ sources' = sources \ {s}
               /\ UNCHANGED <<process, left>>
            \/ /\ Spend("fault")
               /\ sources' \in {sources, sources \ {s}}
               /\ Return
       ELSE Return /\ UNCHANGED <<sources, left>>
  /\ UNCHANGED <<records, removal, metadata, saved, undone>>

NamespaceClean ==
  /\ pc = "object"
  /\ sources = {}
  /\ IF InPosition
     THEN Advance("cleaned") /\ Goto("forget")
     ELSE Return /\ UNCHANGED intent
  /\ UNCHANGED <<records, stages, bucket, saved, undone, left>>

-----------------------------------------------------------------------------
(* Forgetting                                                              *)

\* Without the recheck under the request lock.
ForgetUnchecked ==
  /\ pc = "forget"
  /\ registered' = FALSE
  /\ Goto("forgetting")
  /\ UNCHANGED <<request, published, pending, removal, bucket, saved, undone, left>>

\* forgetIdleLocked: a sweep keeps the session for its work, an undo does not.
\* The registration is the first record to go.
Forget ==
  /\ pc = "forget"
  /\ IF work.yields /\ (request.token # None \/ pending # NoPending)
     THEN Return /\ UNCHANGED registered
     ELSE registered' = FALSE /\ Goto("forgetting")
  /\ UNCHANGED <<request, published, pending, removal, bucket, saved, undone, left>>

\* forgetSession, under the request lock: the other records.
ForgetRecords ==
  /\ pc = "forgetting"
  /\ request' = NoRequest
  /\ published' = NoPublished
  /\ pending' = NoPending
  /\ Goto("finish")
  /\ UNCHANGED <<registered, removal, bucket, saved, undone, left>>

\* FinishDeletedSession: terminal, then the staged copies, then the receipt.
\* A request or a journal that is still there is recovery, not garbage.
Finish ==
  /\ pc = "finish"
  /\ \/ /\ request.token = None /\ intent.phase = "cleaned"
        /\ Advance("finalizing")
        /\ UNCHANGED <<stages, process>>
     \/ /\ request.token = None /\ intent.phase = "finalizing" /\ stages # NoStages
        /\ stages' = NoStages
        /\ UNCHANGED <<intent, process>>
     \/ /\ request.token = None /\ intent.phase = "finalizing" /\ stages = NoStages
        /\ IF pending = NoPending THEN Advance("removed") ELSE UNCHANGED intent
        /\ Return
        /\ UNCHANGED stages
     \/ /\ request.token # None
        /\ Return
        /\ UNCHANGED removal
  /\ UNCHANGED <<records, bucket, saved, undone, left>>

-----------------------------------------------------------------------------
Collect ==
  \/ NothingToCollect \/ NoRemoval \/ RemovalOver \/ Withdraw \/ SeeAbsent
  \/ ResumeRestoration \/ GrantRestoration \/ SaveRestoration \/ Scan
  \/ PutSource \/ PutMetadata \/ Acknowledge \/ Settle \/ DropPending
  \/ ClearStages \/ UnlinkIntent

Remove ==
  \/ Sweep \/ Decide \/ ReadSession
  \/ PrepareNew \/ TakeOver \/ FinishPreparation \/ ClearSettled \/ Proceed
  \/ StageSource \/ StagedAll \/ StartDeleting \/ DeleteMetadata \/ ReadBack
  \/ ListNamespace \/ DeleteSource \/ NamespaceClean
  \/ Forget \/ ForgetRecords \/ Finish

Around == HookSaves \/ Age \/ Crash \/ RemoteFails \/ ClockHolds \/ StartUndo

Next == StartPass \/ Collect \/ Remove \/ Around

Spec == Init /\ [][Next]_vars

\* A pass is started every minute, and one that is not interrupted goes on
\* to its end.  Nothing else has to happen.
FairSpec == Spec /\ WF_vars(StartPass) /\ WF_vars(Collect) /\ WF_vars(Remove)

-----------------------------------------------------------------------------
Labels ==
  {"idle", "collect", "granted", "scan", "publish", "ack", "settle", "drop", "clear",
   "unlink", "sweep", "decide", "read", "prepare", "stage", "check", "delete", "readback",
   "namespace", "object", "forget", "forgetting", "finish"}

Tokens == Hooks \union {None}
Documents == Versions \union {None}
Requests == [token : Tokens, early : BOOLEAN, items : SUBSET Hooks]

\* Every record is what its file can hold; SessionDeletion.validate: only a
\* retention removal is granted a restoration, by a token it had not reviewed,
\* and the metadata is kept from prepared on until the removal is settled.
TypeOK ==
  /\ registered \in BOOLEAN
  /\ request \in Requests
  /\ published \in [version : Documents, items : SUBSET Hooks, expired : BOOLEAN]
  /\ pending \in [version : Documents, token : Tokens, items : SUBSET Hooks, grant : Tokens]
  /\ intent \in [phase : Phases, reason : Reasons, version : Documents, token : Tokens,
                 grant : Tokens]
  /\ intent.phase \in {"restoring", "restored"} =>
       /\ intent.reason = "retention"
       /\ intent.grant \notin {None, intent.token}
  /\ intent.phase = "cancelled" => intent.reason = "retention"
  /\ intent.phase \in {"prepared", "deleting", "absent", "cleaned", "restoring"}
       /\ intent.version # None => stages.metadata
  /\ stages \in [sources : SUBSET Sources, metadata : BOOLEAN]
  /\ metadata \in Documents
  /\ sources \subseteq Sources
  /\ pc \in Labels
  /\ work \in [reason : Reasons, request : Requests, raw : Documents, fresh : BOOLEAN,
               yields : BOOLEAN, then : {"idle", "scan", "sweep", "prepare"}]
  /\ saved \subseteq Hooks
  /\ undone \in BOOLEAN
  /\ left \in [Kinds -> Nat]

\* A reader that finds the session's metadata finds every source it names,
\* while a removal, a restoration and the takeover of either is anywhere in
\* between (owned_delete.go: metadata goes before its sources;
\* source_set_publish.go: and comes after them).
MetadataResolves == RefsOf(metadata) \subseteq sources

\* A retention removal stopped anywhere can be taken back: what the session
\* published last is in the bucket, or kept with an intent that still owes it.
Recoverable ==
  registered /\ published.version # None /\ intent.reason = "retention" =>
    /\ RefsOf(published.version) \subseteq sources \union stages.sources
    /\ metadata = None =>
         Active /\ intent.version = published.version /\ stages.metadata

\* A session that is forgotten has nothing left in the bucket, although a
\* restoration may have put some of it back before an undo revoked it.
ForgottenIsGone == ~registered => metadata = None /\ sources = {}

\* What a hook queued stays queued or published as long as the session is
\* registered, and a session is forgotten only by an undo or when all of it was
\* published ("the locked recheck keeps the session for it", retention.go:505).
HookEvidenceKept ==
  [][registered =>
       IF registered' THEN saved' \subseteq request'.items \union published'.items
       ELSE undone \/ saved \subseteq published.items]_vars

\* Once an undo removed the metadata, no pass publishes the session again: a
\* granted restoration is revoked with its journal (session_restoration.go:154).
UndoIsFinal ==
  [][intent.reason = "undo" /\ Active /\ metadata = None => metadata' = None]_vars

\* Where a removal of this code stays for good, with nothing to move it but
\* another hook or undo.
Kept == registered /\ intent.phase = "cleaned" /\ (request.token # None \/ pending # NoPending)

\* A hook queued between the sweep's scan and the intent, and was reviewed.
ReviewedHook == Kept /\ intent.reason = "retention" /\ request.token = intent.token

\* A newer request that is older than the intent stops the deletion, and grants
\* no restoration.
EarlyHook == request.token \notin {None, intent.token} /\ request.early

\* The token that was granted is no longer the request's, and its journal was
\* not saved.
StaleGrant ==
  intent.phase = "restoring" /\ pending = NoPending /\ request.token # intent.grant

\* An undo revoked a restoration whose metadata was back already.
RevokedTooLate == intent.reason = "undo" /\ intent.phase = "absent" /\ metadata # None

\* An undo was interrupted, and the sweep that goes on with it yields to work
\* the collector refuses to do.
UndoYields == Kept /\ intent.reason = "undo"

\* The registration is gone and a request or a journal is not.
HalfForgotten == ~registered /\ (request.token # None \/ pending # NoPending)

Stays ==
  ReviewedHook \/ EarlyHook \/ StaleGrant \/ RevokedTooLate \/ UndoYields \/ HalfForgotten

\* A removal that has begun is finished, restored or withdrawn, whatever was
\* interrupted, or stays for good in one of the ways above.
DeletionSettles == <>[]Active => <>[]Stays

\* "A hook that fired meanwhile has left a request, and the locked recheck keeps
\* the session for it.  The next collector pass retains a complete pending
\* bundle carrying that evidence" (retention.go:503).
KeptIsRestored ==
  Kept /\ intent.reason = "retention" ~> (~Kept \/ intent.reason = "undo")
=============================================================================
