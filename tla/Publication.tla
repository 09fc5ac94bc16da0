---------------------------- MODULE Publication ----------------------------
(***************************************************************************)
(* One session from its transcript to the bucket: the collector's scan     *)
(* (internal/collector/session.go), the publication of what it built       *)
(* (collector/source_set_publish.go, storage/publication.go), the local    *)
(* record of what was published (state/published.go) and the sweep that    *)
(* deletes superseded sources after each pass (retention/retention.go).    *)
(*                                                                         *)
(* Everything runs under collector.lock, so there is one collector; hooks, *)
(* the application writing its transcript, the clock, and failures of the  *)
(* store happen around it.  Each durable local write and each remote call  *)
(* that changes something is a step, and a crash may come between any two. *)
(*                                                                         *)
(* A bundle is a filtered transcript, the hook evidence merged with it,    *)
(* and the time it was captured at; its object key is the digest of        *)
(* exactly that, so a bundle stands for its key and its bytes too.         *)
(* The metadata document is a function of the bundle here: documents that  *)
(* differ only in when they were rendered are the same.  The request file  *)
(* is the atomic register RequestWrite implements.                         *)
(***************************************************************************)
EXTENDS Naturals, Sequences, FiniteSets, SequencesExt

CONSTANTS
  Items,       \* hook evidence a request can carry
  Natives,     \* lengths the transcript can have; a longer one extends a shorter
  Tokens,      \* request tokens; NoToken is the empty string
  Urgencies,   \* urgent and deferred requests: a subset of BOOLEAN
  NoBundle,    \* no metadata object, nothing cached, nothing published
  NoRequest,   \* the request file does not exist
  NoPending,   \* the pending file does not exist
  Budgets      \* bounds: how often each kind of outside event happens

\* "interval" is no event: at 0, MinUploadInterval has always elapsed by the next
\* pass.
Kinds == {"save", "grow", "remove", "rewrite", "crash", "fault", "interval"}
NoToken == 0

Bundles == [native : Natives, items : SUBSET Items, at : Nat]
Requests == [items : SUBSET Items, urgent : BOOLEAN, token : Tokens]
Pendings ==
  [bundle : Bundles, prior : Bundles \union {NoBundle},
   token : Tokens \union {NoToken}, attempted : BOOLEAN]

ASSUME NumbersAssumption ==
  /\ Natives \subseteq Nat \ {0}
  /\ Tokens \subseteq Nat \ {NoToken}
  /\ Urgencies \subseteq BOOLEAN
  /\ Budgets \subseteq [Kinds -> Nat]

\* Whatever the three places that hold a token hold, there is another.
ASSUME TokensAssumption ==
  \A a, b, c \in Tokens \union {NoToken} : \E t \in Tokens : t \notin {a, b, c}

ASSUME AbsentAssumption ==
  {NoBundle, NoRequest, NoPending} \intersect (Bundles \union Requests \union Pendings) = {}

VARIABLES
  transcript,  \* the native file: [native, present]
  request,     \* requests/<id>.json: [items, urgent, token] or NoRequest
  pending,     \* pending/<id>.json: [bundle, prior, token, attempted] or NoPending
  published,   \* published/<id>.json: [status, reason, pre, cached, last, held]
  ledger,      \* superseded/<id>.json: keys in supersession order
  objects,     \* source objects in the bucket
  metadata,    \* the bundle metadata.json points at, or NoBundle
  recent,      \* the last publication is less than an upload interval ago
  pc,          \* where the collector is in its pass
  req,         \* the request the scan took with it, or NoRequest
  victim,      \* the key the sweep is deleting, or NoBundle
  captures,    \* captures so far: the last CapturedAt given out
  acked,       \* history: items of requests completed outside a permanent block
  replaced,    \* history: the bundle metadata pointed at before this one
  left         \* outside events left, by kind

local == <<request, pending, published, ledger>>
remote == <<objects, metadata>>
collector == <<pc, req, victim>>
history == <<acked, replaced>>
vars == <<transcript, local, remote, recent, collector, captures, history, left>>

-----------------------------------------------------------------------------
(* Bundles, requests, the published record and the ledger                  *)

NothingPublished ==
  [status |-> "none", reason |-> "none", pre |-> "none",
   cached |-> NoBundle, last |-> NoBundle, held |-> {}]

ItemsOf(r) == IF r \in {NoBundle, NoRequest} THEN {} ELSE r.items
TokenOf(r) == IF r \in {NoRequest, NoPending} THEN NoToken ELSE r.token

\* local.ID: a token nothing stored holds.
FreshToken ==
  CHOOSE t \in Tokens : t \notin {TokenOf(request), TokenOf(req), TokenOf(pending)}

\* mergeRequest, when the event adds something.
MergeRequest(items, urgent) ==
  [items  |-> ItemsOf(request) \union items,
   urgent |-> urgent \/ (request # NoRequest /\ request.urgent),
   token  |-> FreshToken]

\* Fault: each save of a block holds only the evidence it came with.
BlockedHoldsLatest(reason, bundle, items) ==
  [status |-> "blocked",
   reason |-> reason,
   pre    |-> IF published.status = "blocked" THEN published.pre ELSE published.status,
   cached |-> bundle,
   last   |-> published.last,
   held   |-> IF reason = "missing" THEN items ELSE {}]

\* publishedState.next, but for what its callers pass it: the last published
\* snapshot survives, a block remembers the status it replaced, and a
\* recoverable one accumulates what it holds back while it lasts.
Blocked(reason, bundle, items) ==
  [status |-> "blocked",
   reason |-> reason,
   pre    |-> IF published.status = "blocked" THEN published.pre ELSE published.status,
   cached |-> bundle,
   last   |-> published.last,
   held   |-> IF reason # "missing" THEN {}
              ELSE IF published.reason = "missing" THEN published.held \union items
              ELSE items]

\* Published.Save of a candidate the upload interval holds back.
RateLimited(bundle) ==
  [status |-> "limited", reason |-> "none", pre |-> "none",
   cached |-> bundle, last |-> published.last, held |-> {}]

\* Published.SavePublication.
Committed(bundle) ==
  [status |-> "published", reason |-> "none", pre |-> "none",
   cached |-> bundle, last |-> bundle, held |-> {}]

\* Published.ClearRecoverableBlock, once held evidence is a request again.  A
\* block that replaced nothing is left for the first candidate to replace.
Cleared ==
  IF published.pre = "none" THEN published
  ELSE [published EXCEPT !.status = published.pre, !.reason = "none", !.pre = "none", !.held = {}]

\* The keys of a ledger but one; no key is in a ledger twice.
Without(keys, key) ==
  IF key \in Range(keys)
  THEN RemoveAt(keys, CHOOSE i \in DOMAIN keys : keys[i] = key)
  ELSE keys

BlockedMissing == published.status = "blocked" /\ published.reason = "missing"

-----------------------------------------------------------------------------
(* What the scan builds                                                    *)

\* buildRead: the evidence already cached, and the request's; compare dates
\* evidence not seen before now.
Candidate ==
  [native |-> transcript.native,
   items  |-> ItemsOf(published.cached) \union ItemsOf(req),
   at     |-> captures + 1]

SameEvidence(a, b) == [a EXCEPT !.at = 0] = [b EXCEPT !.at = 0]

Unchanged == published.cached # NoBundle /\ SameEvidence(published.cached, Candidate)

\* Fault: what was cached last is always the baseline.
BaselineCached == IF published.cached # NoBundle THEN published.cached ELSE published.last

\* guard's baseline: the cached bundle unless it is itself a blocked one.
Baseline ==
  IF published.cached # NoBundle /\ published.status # "blocked"
  THEN published.cached
  ELSE published.last

Extends(b, baseline) == baseline # NoBundle => b.native >= baseline.native

\* publicationReadyAt: due now, or one interval after the last publication.
DueNow == (req # NoRequest /\ req.urgent) \/ ~recent

\* Fault: a newer request replaces even a publication already attempted.
SupersededAnyway ==
  /\ pending # NoPending
  /\ TokenOf(req) \notin {NoToken, pending.token}

\* resume goes past a candidate never attempted when there is a newer request.
Superseded ==
  /\ pending # NoPending
  /\ ~pending.attempted
  /\ TokenOf(req) \notin {NoToken, pending.token}

\* The scan reads the transcript: nothing is owed, or it is being replaced.
Reads == pc = "scan" /\ (pending # NoPending => Superseded)

-----------------------------------------------------------------------------
(* Helpers                                                                 *)

Goto(step) == pc' = step

Spend(kind) ==
  /\ left[kind] > 0
  /\ left' = [left EXCEPT ![kind] = @ - 1]

\* A step of the scan that touches nothing remote.
Locally == UNCHANGED <<transcript, remote, recent, victim, replaced, left>>

\* What a remote call that changes something may do: succeed, or fail with or
\* without its effect.  The caller then retries (stays) or gives up.
Succeeds(next, effect) == Goto(next) /\ effect /\ UNCHANGED left
Fails(effect, nothing) ==
  /\ Spend("fault")
  /\ pc' \in {pc, "sweep"}
  /\ effect \/ nothing

\* Fault: whatever request is there is taken for the covered one.
CompleteAnyRequest(token) == request' = IF token = NoToken THEN request ELSE NoRequest

CompleteRequest(token) ==
  request' = IF request # NoRequest /\ request.token = token THEN NoRequest ELSE request

-----------------------------------------------------------------------------
(* Outside the collector                                                   *)

\* A hook or another writer saves an event; RequestWrite is the detail.
SaveRequest(item, urgent) ==
  /\ Spend("save")
  /\ request' = MergeRequest({item}, urgent)
  /\ UNCHANGED <<transcript, pending, published, ledger, remote, recent, collector,
                 captures, history>>

Outside == <<local, remote, recent, collector, captures, history>>

\* The application appends to its transcript.
Grow ==
  /\ Spend("grow")
  /\ transcript.present
  /\ \E n \in Natives : n > transcript.native /\ transcript' = [transcript EXCEPT !.native = n]
  /\ UNCHANGED Outside

\* The application truncates or rewrites its transcript.
Rewrite ==
  /\ Spend("rewrite")
  /\ transcript.present
  /\ \E n \in Natives : n < transcript.native /\ transcript' = [transcript EXCEPT !.native = n]
  /\ UNCHANGED Outside

\* The transcript goes away, and comes back as it was.
Vanish ==
  /\ Spend("remove")
  /\ transcript.present
  /\ transcript' = [transcript EXCEPT !.present = FALSE]
  /\ UNCHANGED Outside

Return ==
  /\ ~transcript.present
  /\ transcript' = [transcript EXCEPT !.present = TRUE]
  /\ UNCHANGED <<Outside, left>>

\* MinUploadInterval has passed since the last publication.
IntervalElapses ==
  /\ recent
  /\ recent' = FALSE
  /\ UNCHANGED <<transcript, local, remote, collector, captures, history, left>>

\* The collector is killed; what it held in memory is gone.
Crash ==
  /\ pc # "idle"
  /\ Spend("crash")
  /\ Goto("idle")
  /\ req' = NoRequest
  /\ victim' = NoBundle
  /\ UNCHANGED <<transcript, local, remote, recent, captures, history>>

-----------------------------------------------------------------------------
(* The scan: sessionScan.resume, read, buildRead, compare, guard, publish  *)

Scan ==
  /\ pc = "idle"
  /\ Goto("scan")
  /\ req' = request
  /\ Locally
  /\ UNCHANGED <<local, captures, acked>>

\* The candidate is held back until the interval has passed.
ResumeWaits ==
  /\ pc = "scan" /\ pending # NoPending /\ ~Superseded
  /\ ~pending.attempted /\ recent
  /\ Goto("sweep")
  /\ Locally
  /\ UNCHANGED <<local, req, captures, acked>>

\* Fault: a retry takes its predecessor from the published record anew.
ResumeRebinds ==
  /\ pc = "scan" /\ pending # NoPending /\ ~Superseded
  /\ pending.attempted \/ ~recent
  /\ pending' = [pending EXCEPT !.attempted = TRUE, !.prior = published.last]
  /\ Goto("position")
  /\ Locally
  /\ UNCHANGED <<request, published, ledger, req, captures, acked>>

\* publishPending of what is owed, marked attempted before anything remote.
ResumePublishes ==
  /\ pc = "scan" /\ pending # NoPending /\ ~Superseded
  /\ pending.attempted \/ ~recent
  /\ pending' = [pending EXCEPT !.attempted = TRUE]
  /\ Goto("position")
  /\ Locally
  /\ UNCHANGED <<request, published, ledger, req, captures, acked>>

\* readFailed: a missing transcript is a block that holds the evidence its
\* acknowledgement would discard.
BlockMissing ==
  /\ Reads /\ ~transcript.present
  /\ published' = IF BlockedMissing /\ ItemsOf(req) = {}
                  THEN published
                  ELSE Blocked("missing", published.cached, ItemsOf(req))
  /\ Goto("settle")
  /\ Locally
  /\ UNCHANGED <<request, pending, ledger, req, captures, acked>>

\* Fault: the block is cleared and what it held is not handed back.
ClearWithoutReplay ==
  /\ Reads /\ transcript.present /\ BlockedMissing /\ published.held # {}
  /\ published' = Cleared
  /\ Goto("build")
  /\ Locally
  /\ UNCHANGED <<request, pending, ledger, req, captures, acked>>

\* clearEndedBlock: the transcript is back, and what the block held is a
\* request again before the block is cleared.
ReplayHeld ==
  /\ Reads /\ transcript.present /\ BlockedMissing /\ published.held # {}
  /\ request' = MergeRequest(published.held, TRUE)
  /\ Goto("clear")
  /\ Locally
  /\ UNCHANGED <<pending, published, ledger, req, captures, acked>>

ClearBlock ==
  /\ \/ pc = "clear" /\ req' = request
     \/ Reads /\ transcript.present /\ BlockedMissing /\ published.held = {} /\ req' = req
  /\ published' = Cleared
  /\ Goto("build")
  /\ Locally
  /\ UNCHANGED <<request, pending, ledger, captures, acked>>

Builds == pc = "build" \/ (Reads /\ transcript.present /\ ~BlockedMissing)

\* compare: nothing new since the last publication, or since a rewrite was
\* recorded.
Settle ==
  /\ Builds
  /\ Unchanged /\ published.status # "limited"
  /\ Goto("settle")
  /\ Locally
  /\ UNCHANGED <<local, req, captures, acked>>

\* guard: the transcript no longer extends what is retained.
BlockRewritten ==
  /\ Builds
  /\ ~Unchanged /\ ~Extends(Candidate, Baseline)
  /\ published' = Blocked("rewritten", Candidate, {})
  /\ captures' = captures + 1
  /\ Goto("settle")
  /\ Locally
  /\ UNCHANGED <<request, pending, ledger, req, acked>>

\* publish: the candidate and the predecessor it may replace are saved before
\* any remote write, already marked attempted when it is due now.  The same
\* withheld snapshot keeps its capture time.
Seal ==
  /\ Builds
  /\ Unchanged => published.status = "limited"
  /\ Extends(Candidate, Baseline)
  /\ LET bundle == IF Unchanged THEN published.cached ELSE Candidate
     IN  /\ pending' = [bundle |-> bundle, prior |-> published.last,
                        token |-> TokenOf(req), attempted |-> DueNow]
         /\ captures' = IF bundle.at > captures THEN bundle.at ELSE captures
  /\ Goto(IF DueNow THEN "position" ELSE "hold")
  /\ Locally
  /\ UNCHANGED <<request, published, ledger, req, acked>>

\* The withheld candidate is cached as what the next scan compares with.
Hold ==
  /\ pc = "hold"
  /\ published' = RateLimited(pending.bundle)
  /\ Goto("sweep")
  /\ Locally
  /\ UNCHANGED <<request, pending, ledger, req, captures, acked>>

\* completeRequest.  A permanent block has nothing to hand the evidence back
\* to: what it acknowledges is dropped on purpose.
SettleRequest ==
  /\ pc = "settle"
  /\ CompleteRequest(TokenOf(req))
  /\ acked' = IF request # NoRequest /\ request' = NoRequest /\ published.reason # "rewritten"
              THEN acked \union request.items ELSE acked
  /\ Goto("sweep")
  /\ Locally
  /\ UNCHANGED <<pending, published, ledger, req, captures>>

-----------------------------------------------------------------------------
(* The publication: PutResolvedSourceSetThenMetadataReadback, then         *)
(* sourceSetAcknowledgeReadback                                            *)

\* Fault: metadata that already is the publication's is a conflict.
PositionedBehind == metadata = pending.prior

\* publicationPosition: already committed, or exactly the frozen predecessor.
Positioned == metadata \in {pending.bundle, pending.prior}

Position ==
  /\ pc = "position"
  /\ Goto(IF Positioned THEN "source" ELSE "sweep")
  /\ Locally
  /\ UNCHANGED <<local, req, captures, acked>>

\* Beside the remote call and the step itself, uploads change nothing.
Uploading == UNCHANGED <<transcript, local, recent, req, victim, captures, acked>>

\* Fault: the source is not looked for in the bucket.
SourceAssumed ==
  /\ pc = "source"
  /\ Succeeds("commit", objects' = objects)
  /\ Uploading
  /\ UNCHANGED <<metadata, replaced>>

\* verifyResolvedSourceSet: a source that is not there is uploaded.
PutSource ==
  /\ pc = "source"
  /\ \/ Succeeds("commit", objects' = objects \union {pending.bundle})
     \/ pending.bundle \notin objects
        /\ Fails(objects' = objects \union {pending.bundle}, objects' = objects)
  /\ Uploading
  /\ UNCHANGED <<metadata, replaced>>

Point ==
  /\ metadata' = pending.bundle
  /\ replaced' = IF metadata = pending.bundle THEN replaced ELSE metadata

\* The metadata is moved only from the frozen predecessor.
PutMetadata ==
  /\ pc = "commit"
  /\ Positioned
  /\ \/ Succeeds("retire", Point)
     \/ metadata # pending.bundle /\ Fails(Point, UNCHANGED <<metadata, replaced>>)
  /\ Uploading
  /\ UNCHANGED objects

\* Fault: nothing checks that there was a previous source.
RetireUnpublished ==
  /\ pc = "retire"
  /\ ledger' = Append(Without(ledger, published.last), published.last)
  /\ Goto("record")
  /\ Locally
  /\ UNCHANGED <<request, pending, published, req, captures, acked>>

\* Fault: the ledger is started anew.
RetireAlone ==
  /\ pc = "retire"
  /\ ledger' = IF published.last \in {NoBundle, pending.bundle} THEN ledger
               ELSE <<published.last>>
  /\ Goto("record")
  /\ Locally
  /\ UNCHANGED <<request, pending, published, req, captures, acked>>

\* recordSourceSetRetirement: once the readback and the sources are verified,
\* the source this publication replaced goes to the end of the ledger.
Retire ==
  /\ pc = "retire"
  /\ metadata = pending.bundle /\ pending.bundle \in objects
  /\ ledger' = IF published.last \in {NoBundle, pending.bundle}
               THEN ledger
               ELSE Append(Without(ledger, published.last), published.last)
  /\ Goto("record")
  /\ Locally
  /\ UNCHANGED <<request, pending, published, req, captures, acked>>

\* The closing readback, then SaveCommittedPublication.
Record ==
  /\ pc = "record"
  /\ metadata = pending.bundle
  /\ published' = Committed(pending.bundle)
  /\ recent' = (left["interval"] > 0)
  /\ Goto("complete")
  /\ UNCHANGED <<transcript, request, pending, ledger, remote, req, victim, captures,
                 history, left>>

CompletePublished ==
  /\ pc = "complete"
  /\ CompleteRequest(pending.token)
  /\ acked' = IF request # NoRequest /\ request' = NoRequest
              THEN acked \union request.items ELSE acked
  /\ Goto("remove")
  /\ Locally
  /\ UNCHANGED <<pending, published, ledger, req, captures>>

RemovePending ==
  /\ pc = "remove"
  /\ pending' = NoPending
  /\ Goto("sweep")
  /\ Locally
  /\ UNCHANGED <<request, published, ledger, req, captures, acked>>

\* A read of the store fails and the scan ends; the pending file stays.
GiveUp ==
  /\ pc \in {"position", "source", "commit", "retire", "record"}
  /\ Spend("fault")
  /\ Goto("sweep")
  /\ UNCHANGED <<transcript, local, remote, recent, req, victim, captures, history>>

-----------------------------------------------------------------------------
(* The sweep: sweeper.remote, deleteSuperseded                             *)

\* Fault: the ledger is read from its other end.
FirstSuperseded == Head(Without(ledger, metadata))

\* The last key the current metadata does not reference: kept however old.
ImmediatePredecessor == Last(Without(ledger, metadata))

\* Grace periods are left to chance: any other entry may be past its own.
Expirable(key) == key # metadata /\ key # ImmediatePredecessor

\* A capture time is never given out twice, so no key is published again and
\* the branch that drops a key both current and superseded is not modelled.

Sweeping == UNCHANGED <<transcript, request, pending, published, recent, req, captures, history>>

SweepBegins ==
  /\ pc = "sweep"
  /\ Goto(IF ledger # <<>> /\ metadata # NoBundle THEN "sweeping" ELSE "idle")
  /\ req' = NoRequest
  /\ UNCHANGED <<transcript, local, remote, recent, victim, captures, history, left>>

SweepDelete ==
  /\ pc = "sweeping"
  /\ \E key \in Range(ledger) :
       /\ Expirable(key)
       /\ \/ Succeeds("swept", objects' = objects \ {key}) /\ victim' = key
          \/ /\ Spend("fault") /\ Goto("idle")
             /\ objects' \in {objects, objects \ {key}}
             /\ UNCHANGED victim
  /\ Sweeping
  /\ UNCHANGED <<ledger, metadata>>

\* RemoveSuperseded, after the object has been deleted.
SweepForget ==
  /\ pc = "swept"
  /\ ledger' = Without(ledger, victim)
  /\ victim' = NoBundle
  /\ Goto("sweeping")
  /\ Sweeping
  /\ UNCHANGED <<remote, left>>

SweepEnds ==
  /\ pc = "sweeping"
  /\ Goto("idle")
  /\ Sweeping
  /\ UNCHANGED <<ledger, remote, victim, left>>

-----------------------------------------------------------------------------
Init ==
  /\ transcript \in [native : {n \in Natives : \A m \in Natives : n <= m},
                     present : {TRUE}]
  /\ request = NoRequest
  /\ pending = NoPending
  /\ published = NothingPublished
  /\ ledger = <<>>
  /\ objects = {}
  /\ metadata = NoBundle
  /\ recent = FALSE
  /\ pc = "idle"
  /\ req = NoRequest
  /\ victim = NoBundle
  /\ captures = 0
  /\ acked = {}
  /\ replaced = NoBundle
  /\ left \in Budgets

Pass ==
  \/ Scan \/ ResumeWaits \/ ResumePublishes
  \/ BlockMissing \/ ReplayHeld \/ ClearBlock
  \/ Settle \/ BlockRewritten \/ Seal \/ Hold \/ SettleRequest
  \/ Position \/ PutSource \/ PutMetadata \/ Retire \/ Record
  \/ CompletePublished \/ RemovePending
  \/ SweepBegins \/ SweepDelete \/ SweepForget \/ SweepEnds

Next ==
  \/ \E item \in Items, urgent \in Urgencies : SaveRequest(item, urgent)
  \/ Grow \/ Rewrite \/ Vanish \/ Return
  \/ IntervalElapses
  \/ Crash \/ GiveUp
  \/ Pass

Spec == Init /\ [][Next]_vars

\* The scheduler runs a pass again and again, and time passes.
FairSpec == Spec /\ WF_vars(Pass) /\ WF_vars(IntervalElapses)

-----------------------------------------------------------------------------
(* Properties                                                              *)

Steps ==
  {"idle", "scan", "clear", "build", "hold", "settle", "position", "source", "commit",
   "retire", "record", "complete", "remove", "sweep", "sweeping", "swept"}

\* Types of the session's files, the bucket and the pass.
TypeOK ==
  /\ transcript \in [native : Natives, present : BOOLEAN]
  /\ request \in Requests \union {NoRequest}
  /\ pending \in Pendings \union {NoPending}
  /\ published \in
       [status : {"none", "limited", "published", "blocked"},
        reason : {"none", "missing", "rewritten"},
        pre : {"none", "limited", "published"},
        cached : Bundles \union {NoBundle}, last : Bundles \union {NoBundle},
        held : SUBSET Items]
  /\ ledger \in Seq(Bundles)
  /\ objects \subseteq Bundles
  /\ metadata \in Bundles \union {NoBundle}
  /\ recent \in BOOLEAN
  /\ pc \in Steps
  /\ req \in Requests \union {NoRequest}
  /\ victim \in Bundles \union {NoBundle}
  /\ captures \in Nat
  /\ acked \subseteq Items
  /\ replaced \in Bundles \union {NoBundle}
  /\ left \in [Kinds -> Nat]

\* What metadata.json points at is in the bucket, whatever the collector was
\* doing when it was killed and whatever the sweep deleted.
PointerResolves == metadata # NoBundle => metadata \in objects

\* The frozen predecessor stays the one in the bucket until the publication
\* lands, so a retry never meets a conflict of its own making; with nothing
\* attempted, the local record and the bucket agree.
RecordAgrees ==
  IF pending # NoPending /\ pending.attempted
  THEN /\ metadata \in {pending.prior, pending.bundle}
       /\ published.last \in {pending.prior, pending.bundle}
       /\ published.last = pending.bundle => metadata = pending.bundle
  ELSE metadata = published.last

\* Evidence of a request that was acknowledged outside a permanent block is
\* in what the archive points at, held by a missing transcript's block, or a
\* request again.
EvidenceKept ==
  acked \subseteq ItemsOf(metadata) \union published.held \union ItemsOf(request)

\* No object is left in the bucket that nothing local remembers: it is
\* current, in the ledger, or what a retry will point at.
NoLeakedObject ==
  objects \subseteq {metadata, published.last} \union Range(ledger) \union
    (IF pending # NoPending /\ pending.attempted THEN {pending.bundle} ELSE {})

\* The sweep keeps "the ordinary immediate predecessor": the source the
\* current metadata replaced.
PredecessorKept == replaced # NoBundle => replaced \in objects

\* A publication that may have reached the bucket is retried with the same
\* bytes, predecessor and token until it is recorded.
FrozenUntilRecorded ==
  [][(pending # NoPending /\ pending.attempted) =>
       \/ pending' = pending
       \/ pending' = NoPending /\ published.last = pending.bundle]_vars

\* "keep guarding against what was actually published": the archive never
\* moves to a snapshot its predecessor extends.
RichestSnapshotKept ==
  [][metadata # NoBundle => Extends(metadata', metadata)]_vars

\* Evidence a missing transcript's block holds leaves it only as a request
\* again, or in the archive.
HeldIsHandedBack ==
  [][published.held \ published'.held \subseteq ItemsOf(request) \union ItemsOf(metadata)]_vars

\* Evidence a hook saved is published in the end, or in what a block keeps: the
\* candidate it refuses and the evidence it holds.
InBlock ==
  IF published.status = "blocked" THEN ItemsOf(published.cached) \union published.held ELSE {}
SavedIsPublished ==
  \A i \in Items : i \in ItemsOf(request) ~> i \in ItemsOf(metadata) \union InBlock
=============================================================================
