--------------------- MODULE PublicationEvidenceProofs ---------------------
(***************************************************************************)
(* What becomes of hook evidence and of a rich snapshot.  In general they  *)
(* can be lost: publication_held and publication_baseline are runs in      *)
(* which a missing transcript meets the upload interval, or a truncation.  *)
(* The theorems here are about all other runs, told apart by three         *)
(* conditions:                                                             *)
(*    Present   the transcript never goes away                             *)
(*    Prompt    the upload interval has always elapsed                     *)
(*    Whole     the transcript is never truncated                          *)
(***************************************************************************)
EXTENDS PublicationProofs

\* A request is known by its token.
TokenNames ==
  /\ request # NoRequest /\ req # NoRequest /\ request.token = req.token => request = req
  /\ request # NoRequest /\ pending # NoPending /\ request.token = pending.token =>
       request.items \subseteq pending.bundle.items

\* What the fields of the published record say of each other.
RecordFits ==
  /\ published.pre # "blocked"
  /\ published.status = "blocked" <=> published.reason # "none"
  /\ published.reason # "missing" => published.held = {}
  /\ published.status = "none" \/ (published.status = "blocked" /\ published.pre = "none") =>
       published.cached = NoBundle /\ published.last = NoBundle

\* What a block held is a request again before the block is cleared.
Replayed ==
  /\ pc = "clear" => BlockedMissing /\ published.held \subseteq ItemsOf(request)
  /\ pc = "build" => published.held \subseteq ItemsOf(req)
  /\ pc = "build" /\ BlockedMissing => published.pre = "none"

\* Evidence once published is in what is built next.
Inherited ==
  /\ ItemsOf(published.last) \subseteq ItemsOf(published.cached)
  /\ pending # NoPending => ItemsOf(published.last) \subseteq pending.bundle.items

EvidenceBase ==
  /\ recent \in BOOLEAN /\ left \in [Kinds -> Nat]
  /\ TokenNames /\ RecordFits /\ Replayed /\ Inherited

\* The transcript never goes away.
Present ==
  /\ left["remove"] = 0 /\ transcript.present
  /\ published.reason # "missing" /\ pc \notin {"clear", "build"}

\* The upload interval has always elapsed: every candidate is due at once.
Prompt ==
  /\ left["interval"] = 0 /\ ~recent
  /\ pc # "hold" /\ (pending # NoPending => pending.attempted)

\* The transcript is never truncated.
Whole ==
  /\ left["rewrite"] = 0 /\ published.reason # "rewritten"
  /\ published.cached # NoBundle => published.cached.native <= transcript.native
  /\ published.last # NoBundle => published.last.native <= transcript.native
  /\ pending # NoPending => pending.bundle.native <= transcript.native

\* A publication under way carries what a block holds.
CarriesHeld == Attempted => published.held \subseteq pending.bundle.items

\* What the scan compares with is what is published, but for a withheld or a
\* refused candidate.
ComparesPublished ==
  published.status = "published" \/ (BlockedMissing /\ published.pre = "published") =>
    published.cached = published.last

\* No candidate is poorer than what is published, unless it is refused.
NoPoorer ==
  /\ pending # NoPending => Extends(pending.bundle, published.last)
  /\ published.last # NoBundle /\ published.reason # "rewritten" =>
       published.cached # NoBundle /\ Extends(published.cached, published.last)

\* The evidence the pass is about to acknowledge is archived or held.
SettlesKept ==
  pc = "settle" /\ published.reason # "rewritten" =>
    ItemsOf(req) \subseteq ItemsOf(metadata) \union published.held

-----------------------------------------------------------------------------
(* What holds in every case                                                *)

\* A bundle or a request is never taken for an absent one.
LEMMA ItemsOfFacts ==
  /\ \A b \in Bundles \union Requests : ItemsOf(b) = b.items
  /\ ItemsOf(NoBundle) = {} /\ ItemsOf(NoRequest) = {}
BY AbsentAssumption DEF ItemsOf

\* What mergeRequest builds has a token of its own and loses nothing.
LEMMA MergeFresh ==
  ASSUME Typed, NEW items, NEW urgent
  PROVE  /\ MergeRequest(items, urgent).token \notin {TokenOf(req), TokenOf(pending)}
         /\ MergeRequest(items, urgent).items = ItemsOf(request) \union items
<1>1. TokenOf(request) \in Tokens \union {NoToken} /\ TokenOf(req) \in Tokens \union {NoToken}
      /\ TokenOf(pending) \in Tokens \union {NoToken}
  BY DEF Typed, TokenOf, Requests, Pendings
<1>2. FreshToken \notin {TokenOf(request), TokenOf(req), TokenOf(pending)}
  BY <1>1, TokensAssumption DEF FreshToken
<1> QED  BY <1>2 DEF MergeRequest

\* What is sealed is the evidence the scan has built, under the request's token.
LEMMA SealFacts ==
  ASSUME Typed, Seal
  PROVE  /\ pending' \in Pendings /\ pending' # NoPending
         /\ pending'.bundle.native = transcript.native
         /\ pending'.bundle.items = ItemsOf(published.cached) \union ItemsOf(req)
         /\ pending'.token = TokenOf(req)
         /\ (pending'.attempted <=> DueNow)
         /\ Extends(pending'.bundle, Baseline)
<1> DEFINE bundle == IF Unchanged THEN published.cached ELSE Candidate
<1>1. Candidate \in Bundles /\ Candidate.native = transcript.native
      /\ Candidate.items = ItemsOf(published.cached) \union ItemsOf(req)
  BY CandidateTyped DEF Candidate
<1>2. Unchanged => /\ published.cached \in Bundles
                   /\ published.cached.native = Candidate.native
                   /\ published.cached.items = Candidate.items
  BY <1>1 DEF Unchanged, SameEvidence, Typed, PublishedRecords, Bundles
<1>3. bundle \in Bundles /\ bundle.native = Candidate.native /\ bundle.items = Candidate.items
  BY <1>1, <1>2
<1>4. pending' = [bundle |-> bundle, prior |-> published.last,
                  token |-> TokenOf(req), attempted |-> DueNow]
      /\ Extends(Candidate, Baseline)
  BY DEF Seal
<1> HIDE DEF bundle
<1>5. TokenOf(req) \in Tokens \union {NoToken} /\ DueNow \in BOOLEAN
  BY DEF TokenOf, Typed, Requests, DueNow
<1>7. pending' \in Pendings /\ pending' # NoPending
  BY <1>3, <1>4, <1>5, AbsentAssumption DEF Pendings, Typed, PublishedRecords
<1>6. Extends(bundle, Baseline)
  BY <1>3, <1>4 DEF Extends
<1> QED  BY <1>1, <1>3, <1>4, <1>6, <1>7

\* resume only marks what it retries.
LEMMA ResumeFacts ==
  ASSUME Typed, ResumePublishes
  PROVE  /\ pending # NoPending /\ pending' # NoPending /\ pending'.attempted
         /\ pending'.bundle = pending.bundle /\ pending'.token = pending.token
<1>1. pending \in Pendings /\ pending # NoPending
  BY DEF ResumePublishes, Typed
<1>2. pending' \in Pendings /\ pending'.attempted
      /\ pending'.bundle = pending.bundle /\ pending'.token = pending.token
  BY <1>1 DEF ResumePublishes, Pendings
<1> QED  BY <1>1, <1>2, AbsentAssumption

\* An outside event uses up its bound, and what is 0 stays 0.
LEMMA SpendFacts ==
  ASSUME left \in [Kinds -> Nat], NEW kind \in Kinds, Spend(kind)
  PROVE  /\ left' \in [Kinds -> Nat] /\ left[kind] > 0
         /\ \A other \in Kinds : left[other] = 0 => left'[other] = 0
BY DEF Spend

LEMMA CountedStep ==
  ASSUME IInv, recent \in BOOLEAN, left \in [Kinds -> Nat], Next
  PROVE  /\ recent' \in BOOLEAN /\ left' \in [Kinds -> Nat]
         /\ \A kind \in Kinds : left[kind] = 0 => left'[kind] = 0
         /\ left["interval"] = 0 /\ ~recent => ~recent'
<1> DEFINE Counted ==
      /\ recent' \in BOOLEAN /\ left' \in [Kinds -> Nat]
      /\ \A kind \in Kinds : left[kind] = 0 => left'[kind] = 0
      /\ left["interval"] = 0 /\ ~recent => ~recent'
<1>1. ASSUME NEW item \in Items, NEW urgent \in Urgencies, SaveRequest(item, urgent) PROVE Counted
  BY <1>1, SpendFacts DEF SaveRequest, Kinds
<1>2. CASE Grow \/ Rewrite \/ Vanish \/ Crash \/ GiveUp
  BY <1>2, SpendFacts DEF Grow, Rewrite, Vanish, Crash, GiveUp, Outside, Kinds
<1>3. CASE PutSource \/ PutMetadata \/ SweepDelete
  BY <1>3, SpendFacts
  DEF PutSource, PutMetadata, SweepDelete, Succeeds, Fails, Uploading, Sweeping, Kinds
<1>4. CASE Record
  BY <1>4 DEF Record, Kinds
<1>5. CASE IntervalElapses
  BY <1>5 DEF IntervalElapses
<1>6. CASE Return \/ SweepBegins \/ SweepForget \/ SweepEnds
  <2>1. UNCHANGED <<recent, left>>
    BY <1>6 DEF Return, SweepBegins, SweepForget, SweepEnds, Sweeping, Outside
  <2> QED  BY <2>1
<1>7. CASE \/ Scan \/ ResumeWaits \/ ResumePublishes \/ BlockMissing \/ ReplayHeld \/ ClearBlock
           \/ Settle \/ BlockRewritten \/ Seal \/ Hold \/ SettleRequest \/ Position \/ Retire
           \/ CompletePublished \/ RemovePending
  <2>1. Locally
    BY <1>7
    DEF Scan, ResumeWaits, ResumePublishes, BlockMissing, ReplayHeld, ClearBlock, Settle,
        BlockRewritten, Seal, Hold, SettleRequest, Position, Retire, CompletePublished,
        RemovePending
  <2> QED  BY <2>1 DEF Locally
<1> QED  BY <1>1, <1>2, <1>3, <1>4, <1>5, <1>6, <1>7 DEF Next, Pass

\* A token is given to no second request, stored, taken by the pass or sealed.
LEMMA TokenNamesStep ==
  ASSUME IInv, TokenNames, Next
  PROVE  TokenNames'
<1> USE DEF TokenNames
<1>1. Typed
  BY DEF IInv
<1>2. ASSUME NEW items, NEW urgent, request' = MergeRequest(items, urgent),
             UNCHANGED <<pending, req>>
      PROVE  TokenNames'
  BY <1>1, <1>2, MergeFresh, AbsentAssumption DEF TokenOf, Typed
<1>3. ASSUME NEW item \in Items, NEW urgent \in Urgencies, SaveRequest(item, urgent)
      PROVE  TokenNames'
  BY <1>2, <1>3 DEF SaveRequest, collector
<1>4. CASE ReplayHeld
  BY <1>2, <1>4 DEF ReplayHeld
<1>5. CASE Scan \/ ClearBlock
  BY <1>5 DEF Scan, ClearBlock, local
<1>6. CASE SettleRequest \/ CompletePublished
  BY <1>6 DEF SettleRequest, CompletePublished, CompleteRequest
<1>7. CASE Seal
  <2>1. pending'.token = TokenOf(req) /\ ItemsOf(req) \subseteq pending'.bundle.items
        /\ UNCHANGED <<request, req>>
    BY <1>1, <1>7, SealFacts DEF Seal
  <2>2. ASSUME request # NoRequest, request.token = TokenOf(req)
        PROVE  request.items \subseteq pending'.bundle.items
    <3>1. req # NoRequest
      BY <1>1, <2>2, NumbersAssumption DEF TokenOf, Typed, Requests
    <3>2. request = req
      BY <1>1, <2>2, <3>1, AbsentAssumption DEF TokenOf, Typed
    <3> QED  BY <1>1, <2>1, <3>1, <3>2, ItemsOfFacts DEF Typed
  <2> QED  BY <2>1, <2>2
<1>8. CASE ResumePublishes
  BY <1>1, <1>8, ResumeFacts DEF ResumePublishes
<1>9. CASE RemovePending
  BY <1>9 DEF RemovePending
<1>10. CASE Crash \/ SweepBegins
  BY <1>10 DEF Crash, SweepBegins, local
<1>11. CASE \/ Grow \/ Rewrite \/ Vanish \/ Return \/ IntervalElapses \/ GiveUp \/ ResumeWaits
            \/ BlockMissing \/ Settle \/ BlockRewritten \/ Hold \/ Position \/ PutSource
            \/ PutMetadata \/ Retire \/ Record \/ SweepDelete \/ SweepForget \/ SweepEnds
  <2>1. UNCHANGED <<request, pending, req>>
    BY <1>11
    DEF Grow, Rewrite, Vanish, Return, IntervalElapses, GiveUp, ResumeWaits, BlockMissing, Settle,
        BlockRewritten, Hold, Position, PutSource, PutMetadata, Retire, Record, SweepDelete,
        SweepForget, SweepEnds, Outside, Locally, Uploading, Sweeping, local, collector
  <2> QED  BY <2>1
<1> QED  BY <1>3, <1>4, <1>5, <1>6, <1>7, <1>8, <1>9, <1>10, <1>11 DEF Next, Pass

\* The steps that leave the published record alone.
Unrecorded ==
  \/ \E item \in Items, urgent \in Urgencies : SaveRequest(item, urgent)
  \/ Grow \/ Rewrite \/ Vanish \/ Return \/ IntervalElapses \/ Crash \/ GiveUp
  \/ Scan \/ ResumeWaits \/ ResumePublishes \/ ReplayHeld \/ Settle \/ Seal \/ SettleRequest
  \/ Position \/ PutSource \/ PutMetadata \/ Retire \/ CompletePublished \/ RemovePending
  \/ SweepBegins \/ SweepDelete \/ SweepForget \/ SweepEnds

LEMMA UnrecordedFacts == ASSUME Unrecorded PROVE UNCHANGED published
<1>1. ASSUME NEW item \in Items, NEW urgent \in Urgencies, SaveRequest(item, urgent)
      PROVE  UNCHANGED published
  BY <1>1 DEF SaveRequest
<1>2. CASE Grow \/ Rewrite \/ Vanish \/ Return \/ IntervalElapses \/ Crash \/ GiveUp
  BY <1>2 DEF Grow, Rewrite, Vanish, Return, IntervalElapses, Crash, GiveUp, Outside, local
<1>3. CASE \/ Scan \/ ResumeWaits \/ ResumePublishes \/ ReplayHeld \/ Settle \/ Seal
           \/ SettleRequest \/ Position
  BY <1>3
  DEF Scan, ResumeWaits, ResumePublishes, ReplayHeld, Settle, Seal, SettleRequest, Position, local
<1>4. CASE PutSource \/ PutMetadata \/ Retire \/ CompletePublished \/ RemovePending
  BY <1>4 DEF PutSource, PutMetadata, Retire, CompletePublished, RemovePending, Uploading, local
<1>5. CASE SweepBegins \/ SweepDelete \/ SweepForget \/ SweepEnds
  BY <1>5 DEF SweepBegins, SweepDelete, SweepForget, SweepEnds, Sweeping, local
<1> QED  BY <1>1, <1>2, <1>3, <1>4, <1>5 DEF Unrecorded

LEMMA NextSplits ==
  Next => Unrecorded \/ BlockMissing \/ ClearBlock \/ BlockRewritten \/ Hold \/ Record
BY DEF Next, Pass, Unrecorded

\* What each step that writes the published record makes of it.
LEMMA RecordedFacts ==
  /\ BlockMissing =>
       \/ published' = published
       \/ /\ published'.status = "blocked" /\ published'.reason = "missing"
          /\ published'.pre = IF published.status = "blocked" THEN published.pre ELSE published.status
          /\ published'.cached = published.cached /\ published'.last = published.last
          /\ published'.held = IF published.reason = "missing" THEN published.held \union ItemsOf(req)
                               ELSE ItemsOf(req)
  /\ Typed /\ ClearBlock /\ published.pre # "none" =>
       /\ published'.status = published.pre /\ published'.reason = "none"
       /\ published'.pre = "none" /\ published'.held = {}
       /\ published'.cached = published.cached /\ published'.last = published.last
  /\ ClearBlock /\ published.pre = "none" => published' = published
  /\ BlockRewritten =>
       /\ published'.status = "blocked" /\ published'.reason = "rewritten" /\ published'.held = {}
       /\ published'.pre = IF published.status = "blocked" THEN published.pre ELSE published.status
       /\ published'.cached = Candidate /\ published'.last = published.last
  /\ Hold =>
       /\ published'.status = "limited" /\ published'.reason = "none" /\ published'.held = {}
       /\ published'.pre = "none"
       /\ published'.cached = pending.bundle /\ published'.last = published.last
  /\ Record =>
       /\ published'.status = "published" /\ published'.reason = "none" /\ published'.held = {}
       /\ published'.pre = "none"
       /\ published'.cached = pending.bundle /\ published'.last = pending.bundle
<1>1. Typed /\ ClearBlock /\ published.pre # "none" =>
        /\ published'.status = published.pre /\ published'.reason = "none"
        /\ published'.pre = "none" /\ published'.held = {}
        /\ published'.cached = published.cached /\ published'.last = published.last
  BY DEF ClearBlock, Cleared, Typed, PublishedRecords
<1> QED  BY <1>1 DEF BlockMissing, Blocked, ClearBlock, Cleared, BlockRewritten, Hold, RateLimited,
                     Record, Committed

\* The fields of the published record fit each other after every step.
LEMMA RecordFitsStep ==
  ASSUME IInv, RecordFits, Next
  PROVE  RecordFits'
<1>1. Typed
  BY DEF IInv
<1>2. CASE Unrecorded
  BY <1>2, UnrecordedFacts DEF RecordFits
<1>3. CASE BlockMissing
  BY <1>3, RecordedFacts DEF RecordFits
<1>4. CASE ClearBlock
  BY <1>1, <1>4, RecordedFacts DEF RecordFits
<1>5. CASE BlockRewritten
  <2>1. ~(published.status = "none" \/ (published.status = "blocked" /\ published.pre = "none"))
    BY <1>5 DEF BlockRewritten, RecordFits, Extends, Baseline
  <2> QED  BY <1>5, <2>1, RecordedFacts DEF RecordFits
<1>6. CASE Hold \/ Record
  BY <1>6, RecordedFacts DEF RecordFits
<1> QED  BY <1>2, <1>3, <1>4, <1>5, <1>6, NextSplits

Elsewhere ==
  \/ \E item \in Items, urgent \in Urgencies : SaveRequest(item, urgent)
  \/ Grow \/ Rewrite \/ Vanish \/ Return \/ IntervalElapses

\* Where a pass comes to, and what the world around it leaves alone.
LEMMA PlaceFacts ==
  ASSUME Next
  PROVE  /\ Elsewhere => UNCHANGED <<pc, req, published, pending, metadata, acked>>
         /\ ~Elsewhere /\ pc' \in {"clear", "build"} => ReplayHeld \/ ClearBlock
         /\ ~Elsewhere /\ pc' = "hold" => Seal
         /\ ~Elsewhere /\ pc' = "settle" => BlockMissing \/ Settle \/ BlockRewritten
<1>1. ASSUME Elsewhere PROVE UNCHANGED <<pc, req, published, pending, metadata, acked>>
  <2>1. ASSUME NEW item \in Items, NEW urgent \in Urgencies, SaveRequest(item, urgent)
        PROVE  UNCHANGED <<pc, req, published, pending, metadata, acked>>
    BY <2>1 DEF SaveRequest, remote, collector, history
  <2>2. CASE Grow \/ Rewrite \/ Vanish \/ Return \/ IntervalElapses
    BY <2>2 DEF Grow, Rewrite, Vanish, Return, IntervalElapses, Outside, local, remote, collector,
                history
  <2> QED  BY <1>1, <2>1, <2>2 DEF Elsewhere
<1>2. CASE Crash \/ GiveUp \/ Scan \/ ResumeWaits \/ ResumePublishes \/ Hold \/ SettleRequest
  <2>1. pc' \notin {"clear", "build", "hold", "settle"}
    BY <1>2 DEF Crash, GiveUp, Scan, ResumeWaits, ResumePublishes, Hold, SettleRequest, Goto
  <2> QED  BY <1>1, <2>1
<1>3. CASE BlockMissing \/ ReplayHeld \/ ClearBlock \/ Settle \/ BlockRewritten \/ Seal
  <2>1. /\ BlockMissing \/ Settle \/ BlockRewritten => pc' = "settle"
        /\ Seal => pc' \in {"position", "hold"}
        /\ ReplayHeld => pc' = "clear"
        /\ ClearBlock => pc' = "build"
    BY DEF BlockMissing, ReplayHeld, ClearBlock, Settle, BlockRewritten, Seal, Goto
  <2> QED  BY <1>1, <1>3, <2>1
<1>4. CASE \/ Position \/ PutSource \/ PutMetadata \/ Retire \/ Record \/ CompletePublished
           \/ RemovePending \/ SweepBegins \/ SweepDelete \/ SweepForget \/ SweepEnds
  <2>1. pc' \notin {"clear", "build", "hold", "settle"}
    BY <1>4
    DEF Position, PutSource, PutMetadata, Retire, Record, CompletePublished, RemovePending,
        SweepBegins, SweepDelete, SweepForget, SweepEnds, Succeeds, Fails, Goto
  <2> QED  BY <1>1, <2>1
<1> QED  BY <1>1, <1>2, <1>3, <1>4 DEF Next, Pass, Elsewhere

\* What the block held stays in the request until the candidate is built.
LEMMA ReplayedStep ==
  ASSUME IInv, RecordFits, Replayed, Next
  PROVE  Replayed'
<1>1. Typed
  BY DEF IInv
<1>2. ASSUME NEW items \in SUBSET Items, NEW urgent \in BOOLEAN,
             request' = MergeRequest(items, urgent)
      PROVE  ItemsOf(request') = ItemsOf(request) \union items
  BY <1>1, <1>2, MergeTyped, MergeFresh, ItemsOfFacts
<1>3. ASSUME NEW item \in Items, NEW urgent \in Urgencies, SaveRequest(item, urgent)
      PROVE  Replayed'
  <2>1. UNCHANGED <<published, pc, req>> /\ ItemsOf(request) \subseteq ItemsOf(request')
    BY <1>2, <1>3, NumbersAssumption DEF SaveRequest, collector
  <2> QED  BY <2>1 DEF Replayed, BlockedMissing
<1>4. CASE Grow \/ Rewrite \/ Vanish \/ Return \/ IntervalElapses
  <2>1. UNCHANGED <<published, request, pc, req>>
    BY <1>4 DEF Grow, Rewrite, Vanish, Return, IntervalElapses, Outside, local, collector
  <2> QED  BY <2>1 DEF Replayed, BlockedMissing
<1>5. CASE ReplayHeld
  <2>1. /\ published.held \subseteq ItemsOf(request') /\ UNCHANGED published
        /\ pc' = "clear" /\ BlockedMissing
    BY <1>1, <1>2, <1>5 DEF ReplayHeld, Goto, Typed, PublishedRecords
  <2> QED  BY <2>1 DEF Replayed, BlockedMissing
<1>6. CASE ClearBlock
  <2>1. pc' = "build" /\ published.held \subseteq ItemsOf(req')
    BY <1>6 DEF ClearBlock, Goto, Replayed
  <2>2. \/ published' = published /\ published.pre = "none"
        \/ published'.held = {} /\ published'.reason = "none"
    BY <1>1, <1>6, RecordedFacts
  <2> QED  BY <2>1, <2>2 DEF Replayed, BlockedMissing
<1>7. CASE ~Elsewhere /\ ~ReplayHeld /\ ~ClearBlock
  BY <1>7, PlaceFacts DEF Replayed
<1> QED  BY <1>3, <1>4, <1>5, <1>6, <1>7 DEF Elsewhere

\* The steps that leave the candidate alone.
LEMMA PendingKept ==
  ASSUME Next, ~ResumePublishes, ~Seal, ~RemovePending PROVE UNCHANGED pending
<1>1. ASSUME NEW item \in Items, NEW urgent \in Urgencies, SaveRequest(item, urgent)
      PROVE  UNCHANGED pending
  BY <1>1 DEF SaveRequest
<1>2. CASE Grow \/ Rewrite \/ Vanish \/ Return \/ IntervalElapses \/ Crash \/ GiveUp
  BY <1>2 DEF Grow, Rewrite, Vanish, Return, IntervalElapses, Crash, GiveUp, Outside, local
<1>3. CASE \/ Scan \/ ResumeWaits \/ BlockMissing \/ ReplayHeld \/ ClearBlock \/ Settle
           \/ BlockRewritten \/ Hold \/ SettleRequest \/ Position
  BY <1>3
  DEF Scan, ResumeWaits, BlockMissing, ReplayHeld, ClearBlock, Settle, BlockRewritten, Hold,
      SettleRequest, Position, local
<1>4. CASE PutSource \/ PutMetadata \/ Retire \/ Record \/ CompletePublished
  BY <1>4 DEF PutSource, PutMetadata, Retire, Record, CompletePublished, Uploading, local
<1>5. CASE SweepBegins \/ SweepDelete \/ SweepForget \/ SweepEnds
  BY <1>5 DEF SweepBegins, SweepDelete, SweepForget, SweepEnds, Sweeping, local
<1> QED  BY <1>1, <1>2, <1>3, <1>4, <1>5 DEF Next, Pass

\* A scan that builds or reads has no publication under way.
LEMMA BuildsFacts ==
  ASSUME IInv, Reads \/ Builds PROVE ~Attempted /\ metadata = published.last
BY DEF IInv, Progress, RecordAgrees, Reads, Builds, Superseded, Attempted

\* The candidate carries the evidence of what it replaces.
LEMMA InheritedStep ==
  ASSUME IInv, RecordFits, Inherited, Next
  PROVE  Inherited'
<1>1. Typed /\ Typed'
  BY IInvStep DEF IInv
<1>2. CASE Seal
  <2>1. UNCHANGED published
    BY <1>2 DEF Seal
  <2> QED  BY <1>1, <1>2, <2>1, SealFacts DEF Inherited
<1>3. CASE ResumePublishes
  <2>1. UNCHANGED published
    BY <1>3 DEF ResumePublishes
  <2> QED  BY <1>1, <1>3, <2>1, ResumeFacts DEF Inherited
<1>4. CASE RemovePending
  BY <1>4 DEF RemovePending, Inherited
<1>5. ASSUME ~ResumePublishes, ~Seal, ~RemovePending PROVE Inherited'
  <2>1. UNCHANGED pending
    BY <1>5, PendingKept
  <2>2. CASE Unrecorded
    BY <2>1, <2>2, UnrecordedFacts DEF Inherited
  <2>3. CASE BlockMissing \/ ClearBlock
    <3>1. published'.cached = published.cached /\ published'.last = published.last
      BY <1>1, <2>3, RecordedFacts
    <3> QED  BY <2>1, <3>1 DEF Inherited
  <2>4. CASE BlockRewritten
    <3>1. ItemsOf(published'.cached) = ItemsOf(published.cached) \union ItemsOf(req)
          /\ published'.last = published.last
      BY <1>1, <2>4, RecordedFacts, CandidateTyped, ItemsOfFacts DEF Candidate
    <3> QED  BY <2>1, <3>1 DEF Inherited
  <2>5. CASE Hold
    <3>1. pending \in Pendings /\ pending # NoPending
      BY <1>1, <2>5 DEF Hold, IInv, Progress, Typed
    <3>2. ItemsOf(pending.bundle) = pending.bundle.items
      BY <3>1, ItemsOfFacts DEF Pendings
    <3> QED  BY <2>1, <2>5, <3>1, <3>2, RecordedFacts DEF Inherited
  <2>6. CASE Record
    <3>1. pending \in Pendings /\ pending # NoPending
      BY <1>1, <2>6 DEF Record, IInv, Progress, Typed, Publishing, Attempted
    <3>2. ItemsOf(pending.bundle) = pending.bundle.items
      BY <3>1, ItemsOfFacts DEF Pendings
    <3> QED  BY <2>1, <2>6, <3>1, <3>2, RecordedFacts DEF Inherited
  <2> QED  BY <2>2, <2>3, <2>4, <2>5, <2>6, NextSplits
<1> QED  BY <1>2, <1>3, <1>4, <1>5

\* What holds of the evidence in every case is inductive.
LEMMA EvidenceBaseStep ==
  ASSUME IInv, EvidenceBase, Next
  PROVE  EvidenceBase'
BY CountedStep, TokenNamesStep, RecordFitsStep, ReplayedStep, InheritedStep DEF EvidenceBase

-----------------------------------------------------------------------------
(* The three cases                                                         *)

\* What the application does to its transcript.
LEMMA TranscriptFacts ==
  ASSUME Typed, Next
  PROVE  /\ ~Rewrite => transcript'.native >= transcript.native
         /\ ~Vanish /\ transcript.present => transcript'.present
         /\ ~Grow /\ ~Rewrite /\ ~Vanish /\ ~Return => UNCHANGED transcript
<1>1. transcript.native \in Nat /\ transcript \in [native : Natives, present : BOOLEAN]
  BY NumbersAssumption DEF Typed
<1>2. CASE Grow \/ Rewrite
  <2>1. PICK n \in Natives : /\ transcript' = [transcript EXCEPT !.native = n]
                             /\ Grow => n > transcript.native
    BY <1>2 DEF Grow, Rewrite
  <2>2. transcript'.native = n /\ transcript'.present = transcript.present /\ n \in Nat
    BY <1>1, <2>1, NumbersAssumption
  <2> QED  BY <1>1, <1>2, <2>1, <2>2
<1>3. CASE Vanish \/ Return
  <2>1. transcript'.native = transcript.native /\ (Return => transcript'.present)
    BY <1>1, <1>3 DEF Vanish, Return
  <2> QED  BY <1>1, <1>3, <2>1 DEF Return
<1>4. ASSUME ~Grow, ~Rewrite, ~Vanish, ~Return PROVE UNCHANGED transcript
  <2>1. ASSUME NEW item \in Items, NEW urgent \in Urgencies, SaveRequest(item, urgent)
        PROVE  UNCHANGED transcript
    BY <2>1 DEF SaveRequest
  <2>2. CASE \/ Scan \/ ResumeWaits \/ ResumePublishes \/ BlockMissing \/ ReplayHeld \/ ClearBlock
             \/ Settle \/ BlockRewritten \/ Seal \/ Hold \/ SettleRequest \/ Position \/ Retire
             \/ CompletePublished \/ RemovePending
    <3>1. Locally
      BY <2>2
      DEF Scan, ResumeWaits, ResumePublishes, BlockMissing, ReplayHeld, ClearBlock, Settle,
          BlockRewritten, Seal, Hold, SettleRequest, Position, Retire, CompletePublished,
          RemovePending
    <3> QED  BY <3>1 DEF Locally
  <2>3. CASE \/ IntervalElapses \/ Crash \/ GiveUp \/ PutSource \/ PutMetadata \/ Record
             \/ SweepBegins \/ SweepDelete \/ SweepForget \/ SweepEnds
    BY <2>3
    DEF IntervalElapses, Crash, GiveUp, PutSource, PutMetadata, Record, SweepBegins, SweepDelete,
        SweepForget, SweepEnds, Uploading, Sweeping
  <2> QED  BY <1>4, <2>1, <2>2, <2>3 DEF Next, Pass
<1> QED  BY <1>1, <1>2, <1>3, <1>4

\* A transcript that is there is read: no block comes, or has to be cleared.
LEMMA PresentStep ==
  ASSUME IInv, EvidenceBase, Present, Next
  PROVE  Present'
<1>1. Typed /\ left \in [Kinds -> Nat] /\ "remove" \in Kinds
  BY DEF IInv, EvidenceBase, Kinds
<1>2. ~Vanish
  BY <1>1, SpendFacts DEF Vanish, Present
<1>3. left'["remove"] = 0 /\ transcript'.present
  BY <1>1, <1>2, CountedStep, TranscriptFacts DEF EvidenceBase, Present
<1>4. ~BlockMissing /\ ~ReplayHeld /\ ~ClearBlock
  BY DEF Present, BlockMissing, ReplayHeld, ClearBlock, BlockedMissing
<1>5. published'.reason # "missing"
  BY <1>4, NextSplits, UnrecordedFacts, RecordedFacts DEF Present
<1>6. pc' \notin {"clear", "build"}
  BY <1>4, PlaceFacts DEF Present
<1> QED  BY <1>3, <1>5, <1>6 DEF Present

\* A candidate that is due at once is attempted at once.
LEMMA PromptStep ==
  ASSUME IInv, EvidenceBase, Prompt, Next
  PROVE  Prompt'
<1>1. Typed /\ "interval" \in Kinds
  BY DEF IInv, Kinds
<1>2. left'["interval"] = 0 /\ ~recent'
  BY <1>1, CountedStep DEF EvidenceBase, Prompt
<1>3. CASE Seal
  <2>1. pending'.attempted /\ pc' = "position"
    BY <1>1, <1>3, SealFacts DEF Seal, DueNow, Prompt, Goto
  <2> QED  BY <1>2, <2>1 DEF Prompt
<1>4. ASSUME ~Seal PROVE Prompt'
  <2>1. pc' # "hold"
    BY <1>4, PlaceFacts DEF Prompt
  <2>2. pending' # NoPending => pending'.attempted
    BY <1>1, <1>4, ResumeFacts, PendingKept DEF Prompt, RemovePending
  <2> QED  BY <1>2, <2>1, <2>2 DEF Prompt
<1> QED  BY <1>3, <1>4

\* A transcript that only grows extends everything built from it.
LEMMA WholeExtends ==
  ASSUME IInv, Whole
  PROVE  Extends(Candidate, Baseline)
BY DEF Whole, Extends, Baseline, Candidate

LEMMA WholeStep ==
  ASSUME IInv, EvidenceBase, Whole, Next
  PROVE  Whole'
<1> DEFINE Fits(b) == b # NoBundle => b.native <= transcript.native
<1>1. Typed /\ left \in [Kinds -> Nat] /\ "rewrite" \in Kinds
  BY DEF IInv, EvidenceBase, Kinds
<1>2. ~Rewrite
  BY <1>1, SpendFacts DEF Rewrite, Whole
<1>3. left'["rewrite"] = 0 /\ transcript'.native >= transcript.native
  BY <1>1, <1>2, CountedStep, TranscriptFacts DEF EvidenceBase, Whole
<1>4. ~BlockRewritten
  BY WholeExtends DEF BlockRewritten
<1>5. Hold \/ Record => pending # NoPending
  BY DEF Hold, Record, IInv, Progress, Publishing, Attempted
<1>6. published'.reason # "rewritten"
  BY <1>1, <1>4, NextSplits, UnrecordedFacts, RecordedFacts DEF Whole
<1>7. /\ published'.cached = published.cached \/ Hold \/ Record
      /\ published'.last = published.last \/ Record
  BY <1>1, <1>4, NextSplits, UnrecordedFacts, RecordedFacts
<1>8. Fits(published'.cached) /\ Fits(published'.last)
  BY <1>5, <1>7, RecordedFacts DEF Whole
<1>9. pending' # NoPending => pending'.bundle.native <= transcript.native
  <2>1. CASE Seal
    <3>1. transcript.native \in Nat
      BY <1>1, NumbersAssumption DEF Typed
    <3> QED  BY <1>1, <2>1, <3>1, SealFacts
  <2>2. CASE ~Seal
    BY <1>1, <2>2, ResumeFacts, PendingKept DEF Whole, RemovePending
  <2> QED  BY <2>1, <2>2
<1>10. /\ transcript.native \in Nat /\ transcript'.native \in Nat
       /\ \A b \in Bundles : b.native \in Nat
  BY <1>1, IInvStep, NumbersAssumption DEF IInv, Typed, Bundles
<1>11. /\ published'.cached \in Bundles \union {NoBundle}
       /\ published'.last \in Bundles \union {NoBundle}
       /\ pending' # NoPending => pending'.bundle \in Bundles
  BY IInvStep DEF IInv, Typed, PublishedRecords, Pendings
<1> QED  BY <1>3, <1>6, <1>8, <1>9, <1>10, <1>11 DEF Whole

\* A publication under way carries what is held, if the transcript never goes
\* away or no candidate is held back.
LEMMA CarriesHeldStep ==
  ASSUME IInv, EvidenceBase, Present \/ Prompt, CarriesHeld, Next
  PROVE  CarriesHeld'
<1>1. Typed /\ EvidenceBase'
  BY EvidenceBaseStep DEF IInv
<1>2. CASE Present
  BY <1>1, <1>2, PresentStep DEF EvidenceBase, RecordFits, CarriesHeld, Present
<1>3. CASE Prompt
  <2>1. CASE Seal
    <3>1. published.held \subseteq ItemsOf(req)
      BY <2>1 DEF Seal, Builds, EvidenceBase, RecordFits, Replayed, BlockedMissing
    <3>2. UNCHANGED published
      BY <2>1 DEF Seal
    <3> QED  BY <1>1, <2>1, <3>1, <3>2, SealFacts DEF CarriesHeld, Attempted
  <2>2. CASE ResumePublishes
    <3>1. UNCHANGED published
      BY <2>2 DEF ResumePublishes
    <3> QED  BY <1>1, <1>3, <2>2, <3>1, ResumeFacts DEF CarriesHeld, Prompt, Attempted
  <2>3. CASE RemovePending
    BY <2>3 DEF RemovePending, CarriesHeld, Attempted
  <2>4. ASSUME ~Seal, ~ResumePublishes, ~RemovePending PROVE CarriesHeld'
    <3>1. UNCHANGED pending
      BY <2>4, PendingKept
    <3>2. CASE Unrecorded
      BY <3>1, <3>2, UnrecordedFacts DEF CarriesHeld, Attempted
    <3>3. CASE BlockMissing \/ ClearBlock \/ BlockRewritten
      <4>1. ~Attempted
        BY <3>3, BuildsFacts DEF BlockMissing, ClearBlock, BlockRewritten, IInv, Progress
      <4> QED  BY <3>1, <4>1 DEF CarriesHeld, Attempted
    <3>4. CASE Hold \/ Record
      BY <3>4, RecordedFacts DEF CarriesHeld
    <3> QED  BY <3>2, <3>3, <3>4, NextSplits
  <2> QED  BY <2>1, <2>2, <2>3, <2>4
<1> QED  BY <1>2, <1>3

\* The scan compares with what is published, if no truncation meets a block.
LEMMA ComparesPublishedStep ==
  ASSUME IInv, EvidenceBase, Present \/ Whole, ComparesPublished, Next
  PROVE  ComparesPublished'
<1>1. Typed
  BY DEF IInv
<1>2. CASE Unrecorded
  BY <1>2, UnrecordedFacts DEF ComparesPublished, BlockedMissing
<1>3. CASE BlockMissing
  <2>1. published.reason # "rewritten"
    BY <1>3 DEF BlockMissing, Present, Whole
  <2>2. published.status = "blocked" => BlockedMissing
    BY <1>1, <2>1 DEF EvidenceBase, RecordFits, BlockedMissing, Typed, PublishedRecords
  <2> QED  BY <1>3, <2>2, RecordedFacts DEF ComparesPublished, BlockedMissing
<1>4. CASE ClearBlock
  <2>1. BlockedMissing
    BY <1>4 DEF ClearBlock, EvidenceBase, Replayed
  <2> QED  BY <1>1, <1>4, <2>1, RecordedFacts DEF ComparesPublished, BlockedMissing
<1>5. CASE BlockRewritten \/ Hold \/ Record
  BY <1>5, RecordedFacts DEF ComparesPublished, BlockedMissing
<1> QED  BY <1>2, <1>3, <1>4, <1>5, NextSplits

\* guard refuses a candidate poorer than its baseline, and the baseline is never
\* poorer than what is published.
LEMMA NoPoorerStep ==
  ASSUME IInv, EvidenceBase, Present \/ Whole, NoPoorer, Next
  PROVE  NoPoorer'
<1>1. Typed /\ Typed'
  BY IInvStep DEF IInv
<1>2. /\ \A b \in Bundles : b.native \in Nat /\ b # NoBundle
      /\ published.cached \in Bundles \union {NoBundle}
      /\ published.last \in Bundles \union {NoBundle}
      /\ pending # NoPending => pending.bundle \in Bundles
      /\ pending' # NoPending => pending'.bundle \in Bundles
  BY <1>1, NumbersAssumption, AbsentAssumption DEF Typed, Bundles, PublishedRecords, Pendings
<1>3. CASE Seal
  <2>1. Extends(pending'.bundle, Baseline) /\ pending' # NoPending /\ UNCHANGED published
    BY <1>1, <1>3, SealFacts DEF Seal
  <2>2. published.last # NoBundle => Baseline # NoBundle /\ Extends(Baseline, published.last)
    BY <1>2 DEF Baseline, NoPoorer, EvidenceBase, RecordFits, Extends
  <2>3. Baseline \in Bundles \union {NoBundle}
    BY <1>2 DEF Baseline
  <2>4. Extends(pending'.bundle, published.last)
    BY <1>2, <2>1, <2>2, <2>3 DEF Extends
  <2> QED  BY <2>1, <2>4 DEF NoPoorer, Extends
<1>4. CASE ResumePublishes
  <2>1. UNCHANGED published
    BY <1>4 DEF ResumePublishes
  <2> QED  BY <1>1, <1>4, <2>1, ResumeFacts DEF NoPoorer, Extends
<1>5. CASE RemovePending
  BY <1>5 DEF RemovePending, NoPoorer, Extends
<1>6. ASSUME ~Seal, ~ResumePublishes, ~RemovePending PROVE NoPoorer'
  <2>1. UNCHANGED pending
    BY <1>6, PendingKept
  <2>2. CASE Unrecorded
    BY <2>1, <2>2, UnrecordedFacts DEF NoPoorer, Extends
  <2>3. CASE BlockMissing
    <3>1. published.reason # "rewritten"
      BY <2>3 DEF BlockMissing, Present, Whole
    <3> QED  BY <2>1, <2>3, <3>1, RecordedFacts DEF NoPoorer, Extends
  <2>4. CASE ClearBlock
    <3>1. published.reason # "rewritten"
      BY <2>4 DEF ClearBlock, EvidenceBase, Replayed, BlockedMissing
    <3> QED  BY <1>1, <2>1, <2>4, <3>1, RecordedFacts DEF NoPoorer, Extends
  <2>5. CASE BlockRewritten
    BY <2>1, <2>5, RecordedFacts DEF NoPoorer, Extends
  <2>6. CASE Hold \/ Record
    <3>1. pending # NoPending
      BY <2>6 DEF Hold, Record, IInv, Progress, Publishing, Attempted
    <3> QED  BY <1>2, <2>1, <2>6, <3>1, RecordedFacts DEF NoPoorer, Extends
  <2> QED  BY <2>2, <2>3, <2>4, <2>5, <2>6, NextSplits
<1> QED  BY <1>3, <1>4, <1>5, <1>6

\* A request is acknowledged when what it carries is archived or held.
LEMMA SettlesKeptStep ==
  ASSUME IInv, EvidenceBase, ComparesPublished, SettlesKept, Next
  PROVE  SettlesKept'
<1>1. Typed
  BY DEF IInv
<1>2. CASE Elsewhere
  BY <1>2, PlaceFacts DEF SettlesKept
<1>3. CASE BlockMissing
  <2>1. /\ UNCHANGED <<req, metadata>>
        /\ \/ published' = published /\ ItemsOf(req) = {}
           \/ published' = Blocked("missing", published.cached, ItemsOf(req))
    BY <1>3 DEF BlockMissing, Locally, remote
  <2>2. ItemsOf(req') \subseteq published'.held
    BY <2>1 DEF Blocked
  <2> QED  BY <2>2 DEF SettlesKept
<1>4. CASE Settle
  <2>1. /\ UNCHANGED <<published, req, metadata>> /\ metadata = published.last
        /\ Unchanged /\ published.status # "limited"
    BY <1>4, BuildsFacts DEF Settle, Locally, local, remote
  <2>2. published.cached \in Bundles
    BY <1>1, <2>1 DEF Unchanged, Typed, PublishedRecords
  <2>3. published.cached.items = ItemsOf(published.cached) \union ItemsOf(req)
    BY <1>1, <2>1, <2>2, CandidateTyped DEF Unchanged, SameEvidence, Candidate, Bundles
  <2>4. ItemsOf(req) \subseteq ItemsOf(published.cached)
    BY <2>2, <2>3, ItemsOfFacts
  <2>5. published.reason # "rewritten" => published.status = "published"
    <3>1. ~BlockedMissing
      <4>1. ~(pc = "build" /\ BlockedMissing)
        BY <2>1 DEF Unchanged, EvidenceBase, Replayed, RecordFits, BlockedMissing
      <4> QED  BY <1>4, <4>1 DEF Settle, Builds
    <3>2. published.status # "none"
      BY <2>1 DEF Unchanged, EvidenceBase, RecordFits
    <3> QED  BY <1>1, <2>1, <3>1, <3>2
             DEF EvidenceBase, RecordFits, BlockedMissing, Typed, PublishedRecords
  <2> QED  BY <2>1, <2>4, <2>5 DEF SettlesKept, ComparesPublished
<1>5. CASE BlockRewritten
  BY <1>5, RecordedFacts DEF SettlesKept
<1>6. CASE ~Elsewhere /\ ~BlockMissing /\ ~Settle /\ ~BlockRewritten
  BY <1>6, PlaceFacts DEF SettlesKept
<1> QED  BY <1>2, <1>3, <1>4, <1>5, <1>6

-----------------------------------------------------------------------------
(* What a step does to the archive, to what is held and to the request     *)

\* The metadata moves from what is recorded as published to the candidate.
LEMMA PointFacts ==
  ASSUME IInv, Next
  PROVE  \/ metadata' = metadata
         \/ /\ Attempted /\ pending.bundle \in Bundles /\ metadata' = pending.bundle
            /\ metadata = published.last
<1>1. CASE PutMetadata
  <2>1. /\ Attempted /\ pending.bundle \in Bundles /\ metadata \in {pending.bundle, pending.prior}
        /\ metadata' \in {metadata, pending.bundle}
    BY <1>1 DEF PutMetadata, Positioned, Point, Succeeds, Fails, IInv, Progress, Publishing, Typed,
                Pendings, Attempted
  <2> QED  BY <2>1 DEF IInv, RecordAgrees, Attempted
<1>2. ASSUME NEW item \in Items, NEW urgent \in Urgencies, SaveRequest(item, urgent)
      PROVE  metadata' = metadata
  BY <1>2 DEF SaveRequest, remote
<1>3. CASE \/ Grow \/ Rewrite \/ Vanish \/ Return \/ IntervalElapses \/ Crash \/ GiveUp
           \/ PutSource \/ Record \/ SweepBegins \/ SweepDelete \/ SweepForget \/ SweepEnds
  BY <1>3
  DEF Grow, Rewrite, Vanish, Return, IntervalElapses, Crash, GiveUp, PutSource, Record,
      SweepBegins, SweepDelete, SweepForget, SweepEnds, Outside, remote
<1>4. CASE \/ Scan \/ ResumeWaits \/ ResumePublishes \/ BlockMissing \/ ReplayHeld \/ ClearBlock
           \/ Settle \/ BlockRewritten \/ Seal \/ Hold \/ SettleRequest \/ Position \/ Retire
           \/ CompletePublished \/ RemovePending
  <2>1. Locally
    BY <1>4
    DEF Scan, ResumeWaits, ResumePublishes, BlockMissing, ReplayHeld, ClearBlock, Settle,
        BlockRewritten, Seal, Hold, SettleRequest, Position, Retire, CompletePublished,
        RemovePending
  <2> QED  BY <2>1 DEF Locally, remote
<1> QED  BY <1>1, <1>2, <1>3, <1>4 DEF Next, Pass

\* Evidence in the archive stays there.
LEMMA ArchiveGrows ==
  ASSUME IInv, EvidenceBase, Next
  PROVE  ItemsOf(metadata) \subseteq ItemsOf(metadata')
<1>1. CASE metadata' = metadata
  BY <1>1
<1>2. CASE Attempted /\ pending.bundle \in Bundles /\ metadata' = pending.bundle
           /\ metadata = published.last
  BY <1>2, ItemsOfFacts DEF EvidenceBase, Inherited, Attempted
<1> QED  BY <1>1, <1>2, PointFacts

\* What a block no longer holds is in the request or archived, if the transcript
\* never goes away or no candidate is held back.
LEMMA HeldFacts ==
  ASSUME IInv, EvidenceBase, Present \/ Prompt, CarriesHeld, Next
  PROVE  published.held \ published'.held \subseteq ItemsOf(request) \union ItemsOf(metadata)
<1>1. Typed
  BY DEF IInv
<1>2. CASE Unrecorded
  BY <1>2, UnrecordedFacts
<1>3. CASE BlockMissing
  BY <1>3, RecordedFacts DEF EvidenceBase, RecordFits
<1>4. CASE ClearBlock
  BY <1>4 DEF ClearBlock, EvidenceBase, Replayed
<1>5. CASE BlockRewritten
  <2>1. ~BlockedMissing
    <3>1. CASE pc = "build"
      BY <1>5, <3>1 DEF BlockRewritten, Extends, Baseline, EvidenceBase, RecordFits, Replayed,
                        BlockedMissing
    <3>2. CASE pc # "build"
      BY <1>5, <3>2 DEF BlockRewritten, Builds
    <3> QED  BY <3>1, <3>2
  <2> QED  BY <2>1 DEF EvidenceBase, RecordFits, BlockedMissing
<1>6. CASE Hold
  BY <1>6 DEF Hold, Prompt, Present, EvidenceBase, RecordFits
<1>7. CASE Record
  <2>1. Attempted /\ metadata = pending.bundle /\ pending.bundle \in Bundles
    BY <1>1, <1>7 DEF Record, IInv, Progress, Publishing, Typed, Pendings, Attempted
  <2> QED  BY <2>1, ItemsOfFacts DEF CarriesHeld
<1> QED  BY <1>2, <1>3, <1>4, <1>5, <1>6, <1>7, NextSplits

\* A request that is acknowledged was archived or held; every other step keeps it.
LEMMA AcknowledgedFacts ==
  ASSUME IInv, EvidenceBase, SettlesKept, Next
  PROVE  /\ acked' \subseteq acked \union ItemsOf(metadata) \union published.held
         /\ \/ ItemsOf(request) \subseteq ItemsOf(request')
            \/ published.reason = "rewritten"
            \/ ItemsOf(request) \subseteq ItemsOf(metadata) \union published.held
         /\ request' = request \/ published' = published
<1>1. Typed /\ Typed'
  BY IInvStep DEF IInv
<1>2. ASSUME NEW items \in SUBSET Items, NEW urgent \in BOOLEAN,
             request' = MergeRequest(items, urgent)
      PROVE  ItemsOf(request) \subseteq ItemsOf(request')
  BY <1>1, <1>2, MergeTyped, MergeFresh, ItemsOfFacts
<1>3. request # NoRequest => ItemsOf(request) = request.items
  BY <1>1, ItemsOfFacts DEF Typed
<1>4. ASSUME NEW item \in Items, NEW urgent \in Urgencies, SaveRequest(item, urgent)
      PROVE  /\ acked' = acked /\ published' = published
             /\ ItemsOf(request) \subseteq ItemsOf(request')
  BY <1>2, <1>4, NumbersAssumption DEF SaveRequest, history
<1>5. CASE ReplayHeld
  <2>1. request' = MergeRequest(published.held, TRUE) /\ published.held \in SUBSET Items
        /\ UNCHANGED <<acked, published>>
    BY <1>1, <1>5 DEF ReplayHeld, Typed, PublishedRecords
  <2> QED  BY <1>2, <2>1
<1>6. CASE SettleRequest
  <2>1. /\ pc = "settle" /\ published' = published
        /\ \/ request' = request /\ acked' = acked
           \/ /\ request # NoRequest /\ request.token = TokenOf(req)
              /\ acked' = IF published.reason # "rewritten" THEN acked \union request.items ELSE acked
    BY <1>6 DEF SettleRequest, CompleteRequest
  <2>2. ASSUME request # NoRequest, request.token = TokenOf(req) PROVE request = req
    <3>1. req # NoRequest
      BY <1>1, <2>2, NumbersAssumption DEF TokenOf, Typed, Requests
    <3> QED  BY <1>1, <2>2, <3>1, AbsentAssumption DEF TokenOf, Typed, EvidenceBase, TokenNames
  <2> QED  BY <1>3, <2>1, <2>2 DEF SettlesKept
<1>7. CASE CompletePublished
  <2>1. /\ Attempted /\ metadata = pending.bundle /\ pending.bundle \in Bundles
        /\ published' = published
        /\ \/ request' = request /\ acked' = acked
           \/ /\ request # NoRequest /\ request.token = pending.token
              /\ acked' = acked \union request.items
    BY <1>1, <1>7 DEF CompletePublished, CompleteRequest, IInv, Progress, Publishing, RecordAgrees,
                      Typed, Pendings, Attempted
  <2> QED  BY <1>3, <2>1, ItemsOfFacts DEF EvidenceBase, TokenNames, Attempted
<1>8. CASE Elsewhere /\ UNCHANGED request
  BY <1>8, PlaceFacts
<1>9. CASE \/ Crash \/ GiveUp \/ PutSource \/ PutMetadata \/ Record
           \/ SweepBegins \/ SweepDelete \/ SweepForget \/ SweepEnds
  <2>1. UNCHANGED <<request, acked>>
    BY <1>9
    DEF Crash, GiveUp, PutSource, PutMetadata, Record, SweepBegins, SweepDelete, SweepForget,
        SweepEnds, Uploading, Sweeping, local, history
  <2> QED  BY <2>1
<1>10. CASE \/ Scan \/ ResumeWaits \/ ResumePublishes \/ BlockMissing \/ ClearBlock \/ Settle
            \/ BlockRewritten \/ Seal \/ Hold \/ Position \/ Retire \/ RemovePending
  <2>1. UNCHANGED <<request, acked>>
    BY <1>10
    DEF Scan, ResumeWaits, ResumePublishes, BlockMissing, ClearBlock, Settle, BlockRewritten,
        Seal, Hold, Position, Retire, RemovePending, local
  <2> QED  BY <2>1
<1>11. Grow \/ Rewrite \/ Vanish \/ Return \/ IntervalElapses => Elsewhere /\ UNCHANGED request
  BY DEF Grow, Rewrite, Vanish, Return, IntervalElapses, Outside, local, Elsewhere
<1> QED  BY <1>4, <1>5, <1>6, <1>7, <1>8, <1>9, <1>10, <1>11 DEF Next, Pass

-----------------------------------------------------------------------------
(* The invariants of the three theorems                                    *)

\* A transcript that never goes away, or no candidate held back.
HeldInv == EvidenceBase /\ CarriesHeld /\ (Present \/ Prompt)

\* A transcript that never goes away, or is never truncated.
RichInv == EvidenceBase /\ NoPoorer /\ (Present \/ Whole)

\* A transcript that never goes away; or no candidate held back and none truncated.
KeptInv ==
  /\ EvidenceBase /\ CarriesHeld /\ ComparesPublished /\ SettlesKept
  /\ \/ Present /\ acked \subseteq ItemsOf(metadata)
     \/ Prompt /\ Whole /\ EvidenceKept

\* A first state: nothing saved, built or published.
LEMMA InitEvidence ==
  ASSUME Init
  PROVE  /\ EvidenceBase /\ CarriesHeld /\ ComparesPublished /\ NoPoorer /\ SettlesKept
         /\ left["remove"] = 0 => Present
         /\ left["interval"] = 0 => Prompt
         /\ left["rewrite"] = 0 => Whole
         /\ acked = {} /\ left \in Budgets
<1>1. /\ left \in Budgets /\ left \in [Kinds -> Nat] /\ recent = FALSE /\ request = NoRequest
      /\ req = NoRequest /\ pending = NoPending /\ pc = "idle" /\ acked = {} /\ transcript.present
      /\ published = NothingPublished
  BY NumbersAssumption DEF Init
<1>2. /\ published.status = "none" /\ published.reason = "none" /\ published.pre = "none"
      /\ published.cached = NoBundle /\ published.last = NoBundle /\ published.held = {}
  BY <1>1 DEF NothingPublished
<1>3. EvidenceBase
  BY <1>1, <1>2 DEF EvidenceBase, TokenNames, RecordFits, Replayed, Inherited
<1>4. CarriesHeld /\ ComparesPublished /\ NoPoorer /\ SettlesKept
  BY <1>1, <1>2 DEF CarriesHeld, Attempted, ComparesPublished, BlockedMissing, NoPoorer, SettlesKept
<1>5. /\ left["remove"] = 0 => Present
      /\ left["interval"] = 0 => Prompt
      /\ left["rewrite"] = 0 => Whole
  BY <1>1, <1>2 DEF Present, Prompt, Whole
<1> QED  BY <1>1, <1>3, <1>4, <1>5

\* A stuttering step changes nothing the invariants are about.
LEMMA EvidenceStutters ==
  ASSUME UNCHANGED vars
  PROVE  /\ EvidenceBase' = EvidenceBase /\ CarriesHeld' = CarriesHeld
         /\ ComparesPublished' = ComparesPublished /\ NoPoorer' = NoPoorer
         /\ SettlesKept' = SettlesKept /\ EvidenceKept' = EvidenceKept
         /\ Present' = Present /\ Prompt' = Prompt /\ Whole' = Whole
         /\ acked' = acked /\ metadata' = metadata
BY DEF vars, local, remote, collector, history, EvidenceBase, TokenNames, RecordFits, Replayed,
       Inherited, CarriesHeld, Attempted, ComparesPublished, BlockedMissing, NoPoorer, SettlesKept,
       EvidenceKept, Present, Prompt, Whole

LEMMA HeldInvStep == IInv /\ HeldInv /\ [Next]_vars => HeldInv'
<1> SUFFICES ASSUME IInv, HeldInv, [Next]_vars PROVE HeldInv'
  OBVIOUS
<1>1. CASE Next
  BY <1>1, EvidenceBaseStep, CarriesHeldStep, PresentStep, PromptStep DEF HeldInv
<1>2. CASE UNCHANGED vars
  BY <1>2, EvidenceStutters DEF HeldInv
<1> QED  BY <1>1, <1>2

LEMMA RichInvStep == IInv /\ RichInv /\ [Next]_vars => RichInv'
<1> SUFFICES ASSUME IInv, RichInv, [Next]_vars PROVE RichInv'
  OBVIOUS
<1>1. CASE Next
  BY <1>1, EvidenceBaseStep, NoPoorerStep, PresentStep, WholeStep DEF RichInv
<1>2. CASE UNCHANGED vars
  BY <1>2, EvidenceStutters DEF RichInv
<1> QED  BY <1>1, <1>2

LEMMA KeptInvStep == IInv /\ KeptInv /\ [Next]_vars => KeptInv'
<1> SUFFICES ASSUME IInv, KeptInv, [Next]_vars PROVE KeptInv'
  OBVIOUS
<1>1. CASE Next
  <2>1. /\ EvidenceBase /\ EvidenceBase' /\ CarriesHeld /\ SettlesKept
        /\ CarriesHeld' /\ ComparesPublished' /\ SettlesKept'
    BY <1>1, EvidenceBaseStep, CarriesHeldStep, ComparesPublishedStep, SettlesKeptStep DEF KeptInv
  <2>2. /\ acked' \subseteq acked \union ItemsOf(metadata) \union published.held
        /\ ItemsOf(metadata) \subseteq ItemsOf(metadata')
    BY <1>1, <2>1, AcknowledgedFacts, ArchiveGrows
  <2>3. CASE Present /\ acked \subseteq ItemsOf(metadata)
    <3>1. published.held = {}
      BY <2>1, <2>3 DEF Present, EvidenceBase, RecordFits
    <3> QED  BY <1>1, <2>1, <2>2, <2>3, <3>1, PresentStep DEF KeptInv
  <2>4. CASE Prompt /\ Whole /\ EvidenceKept
    <3>1. /\ published.held \ published'.held \subseteq ItemsOf(request) \union ItemsOf(metadata)
          /\ \/ ItemsOf(request) \subseteq ItemsOf(request')
             \/ ItemsOf(request) \subseteq ItemsOf(metadata) \union published.held
          /\ request' = request \/ published' = published
      BY <1>1, <2>1, <2>4, HeldFacts, AcknowledgedFacts DEF Whole
    <3>2. EvidenceKept'
      BY <2>2, <2>4, <3>1 DEF EvidenceKept
    <3> QED  BY <1>1, <2>1, <2>4, <3>2, PromptStep, WholeStep DEF KeptInv
  <2> QED  BY <2>3, <2>4 DEF KeptInv
<1>2. CASE UNCHANGED vars
  BY <1>2, EvidenceStutters DEF KeptInv
<1> QED  BY <1>1, <1>2

-----------------------------------------------------------------------------

\* Evidence of an acknowledged request is archived, held by a missing
\* transcript's block, or a request again, in every run in which a transcript
\* never goes away, or is never truncated and meets no upload interval
\* (completeRequest, readFailed, clearEndedBlock).  publication_held and
\* publication_baseline show why both conditions are needed.
THEOREM EvidenceAlwaysKept ==
  ASSUME \A b \in Budgets : b["remove"] = 0 \/ (b["interval"] = 0 /\ b["rewrite"] = 0)
  PROVE  Spec => []EvidenceKept
<1>1. Init => IInv /\ KeptInv
  BY InitIInv, InitEvidence DEF KeptInv, EvidenceKept
<1>2. IInv /\ KeptInv /\ [Next]_vars => (IInv /\ KeptInv)'
  BY IInvStep, KeptInvStep
<1>3. IInv /\ KeptInv => EvidenceKept
  BY DEF KeptInv, EvidenceKept
<1> QED  BY <1>1, <1>2, <1>3, PTL DEF Spec

\* What a missing transcript's block held leaves it for a request or the
\* archive, in every run in which no candidate is held back by the upload
\* interval, or no transcript goes away (publishedState.next, Published.Save,
\* ClearRecoverableBlock).  publication_held is a run in which both happen.
THEOREM HeldAlwaysHandedBack ==
  ASSUME \A b \in Budgets : b["remove"] = 0 \/ b["interval"] = 0
  PROVE  Spec => HeldIsHandedBack
<1> DEFINE HandedBack ==
      published.held \ published'.held \subseteq ItemsOf(request) \union ItemsOf(metadata)
<1>1. Init => IInv /\ HeldInv
  BY InitIInv, InitEvidence DEF HeldInv
<1>2. IInv /\ HeldInv /\ [Next]_vars => (IInv /\ HeldInv)'
  BY IInvStep, HeldInvStep
<1>3. IInv /\ HeldInv /\ [Next]_vars => [HandedBack]_vars
  BY HeldFacts DEF HeldInv
<1> QED  BY <1>1, <1>2, <1>3, PTL DEF Spec, HeldIsHandedBack, HandedBack

\* The archive never moves to a snapshot that what it points at extends, in every
\* run in which no transcript is truncated, or none goes away (guard).
\* publication_baseline is a run in which both happen.
THEOREM RichestAlwaysKept ==
  ASSUME \A b \in Budgets : b["remove"] = 0 \/ b["rewrite"] = 0
  PROVE  Spec => RichestSnapshotKept
<1> DEFINE RichKept == metadata # NoBundle => Extends(metadata', metadata)
<1>1. Init => IInv /\ RichInv
  BY InitIInv, InitEvidence DEF RichInv
<1>2. IInv /\ RichInv /\ [Next]_vars => (IInv /\ RichInv)'
  BY IInvStep, RichInvStep
<1>3. IInv /\ RichInv /\ [Next]_vars => [RichKept]_vars
  <2> SUFFICES ASSUME IInv, RichInv, Next, metadata' # metadata PROVE RichKept
    <3>1. ASSUME IInv, metadata' = metadata PROVE RichKept
      <4>1. metadata \in Bundles \union {NoBundle}
        BY <3>1 DEF IInv, RecordAgrees, Typed, Pendings, PublishedRecords
      <4>2. metadata \in Bundles => metadata.native \in Nat
        BY NumbersAssumption DEF Bundles
      <4> QED  BY <3>1, <4>1, <4>2 DEF Extends
    <3> QED  BY <3>1
  <2>1. Attempted /\ metadata' = pending.bundle /\ metadata = published.last
    BY PointFacts
  <2> QED  BY <2>1 DEF RichInv, NoPoorer, Attempted, Extends
<1> QED  BY <1>1, <1>2, <1>3, PTL DEF Spec, RichestSnapshotKept, RichKept

=============================================================================
