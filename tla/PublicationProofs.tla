------------------------- MODULE PublicationProofs -------------------------
(***************************************************************************)
(* Publication for any evidence, any transcript and any number of crashes, *)
(* store failures, saves, rewrites and sweeps: metadata.json always points *)
(* at a source that is in the bucket, and the publication being retried is *)
(* the only difference there can be between the bucket and the local       *)
(* record.  Nothing is left in the bucket that nobody remembers, and the   *)
(* source the current one replaced is kept.                                *)
(***************************************************************************)
EXTENDS Publication, SequenceTheorems, TLAPS

PublishedRecords ==
  [status : {"none", "limited", "published", "blocked"},
   reason : {"none", "missing", "rewritten"},
   pre : {"none", "limited", "published", "blocked"},
   cached : Bundles \union {NoBundle}, last : Bundles \union {NoBundle},
   held : SUBSET Items]

\* The types the argument needs.
Typed ==
  /\ transcript \in [native : Natives, present : BOOLEAN]
  /\ request \in Requests \union {NoRequest}
  /\ req \in Requests \union {NoRequest}
  /\ pending \in Pendings \union {NoPending}
  /\ published \in PublishedRecords
  /\ captures \in Nat

Attempted == pending # NoPending /\ pending.attempted

\* The steps from ResumePublishes or Seal to RemovePending.
Publishing == {"position", "source", "commit", "retire", "record", "complete", "remove"}

\* What the pass has established by the step it is at.
Progress ==
  /\ pc \in Publishing => Attempted
  /\ pc \in {"clear", "build"} => ~Attempted
  /\ pc = "hold" => pending # NoPending
  /\ pc = "commit" => pending.bundle \in objects
  /\ pc \in {"complete", "remove"} => published.last = pending.bundle

\* A candidate nothing has been attempted for replaces what is published.
FrozenPredecessor ==
  pending # NoPending /\ ~pending.attempted => pending.prior = published.last

IInv == Typed /\ Progress /\ FrozenPredecessor /\ RecordAgrees /\ PointerResolves

-----------------------------------------------------------------------------
(* The values the scan builds have their types                             *)

\* The candidate buildRead builds is a bundle.
LEMMA CandidateTyped == Typed => Candidate \in Bundles
BY DEF Typed, Candidate, ItemsOf, Bundles, Requests, PublishedRecords

\* mergeRequest builds a request with a token.
LEMMA MergeTyped ==
  ASSUME Typed, NEW items \in SUBSET Items, NEW urgent \in BOOLEAN
  PROVE  MergeRequest(items, urgent) \in Requests
<1>1. TokenOf(request) \in Tokens \union {NoToken} /\ TokenOf(req) \in Tokens \union {NoToken}
      /\ TokenOf(pending) \in Tokens \union {NoToken}
  BY DEF Typed, TokenOf, Requests, Pendings
<1>2. FreshToken \in Tokens
  BY <1>1, TokensAssumption DEF FreshToken
<1>3. ItemsOf(request) \in SUBSET Items
  BY DEF Typed, ItemsOf, Requests
<1>4. (urgent \/ (request # NoRequest /\ request.urgent)) \in BOOLEAN
  OBVIOUS
<1> QED BY <1>2, <1>3, <1>4 DEF MergeRequest, Requests

\* Removing a request, or not, leaves a request file of the right type.
LEMMA CompleteTyped ==
  ASSUME Typed, NEW token, CompleteRequest(token)
  PROVE  request' \in Requests \union {NoRequest}
BY DEF Typed, CompleteRequest

-----------------------------------------------------------------------------
(* The invariant is inductive                                              *)

\* A machine that has published nothing, and an empty bucket.
LEMMA InitIInv == Init => IInv
<1> SUFFICES ASSUME Init PROVE IInv
  OBVIOUS
<1>1. transcript \in [native : Natives, present : BOOLEAN]
  BY DEF Init
<1>2. Typed
  BY <1>1 DEF Init, NothingPublished, Typed, PublishedRecords
<1>3. Progress
  BY DEF Init, Progress, Publishing
<1>4. FrozenPredecessor /\ RecordAgrees /\ PointerResolves
  BY DEF Init, NothingPublished, FrozenPredecessor, RecordAgrees, PointerResolves
<1> QED BY <1>2, <1>3, <1>4 DEF IInv

\* Nothing outside the collector moves a pass or what it publishes.
LEMMA OutsideStep ==
  ASSUME IInv,
         \/ \E item \in Items, urgent \in Urgencies : SaveRequest(item, urgent)
         \/ Grow \/ Rewrite \/ Vanish \/ Return \/ IntervalElapses \/ Crash \/ GiveUp
  PROVE  IInv'
<1> USE DEF IInv, Progress, FrozenPredecessor, RecordAgrees, PointerResolves, Attempted, Publishing
<1>1. ASSUME NEW item \in Items, NEW urgent \in Urgencies, SaveRequest(item, urgent)
      PROVE  IInv'
  <2>1. request' \in Requests
    BY <1>1, NumbersAssumption, MergeTyped DEF SaveRequest
  <2>2. Typed'
    BY <1>1, <2>1 DEF SaveRequest, Typed, local, collector
  <2> QED BY <1>1, <2>2 DEF SaveRequest, remote, collector
<1>2. ASSUME Grow \/ Rewrite \/ Vanish \/ Return PROVE IInv'
  <2>1. transcript' \in [native : Natives, present : BOOLEAN]
    BY <1>2 DEF Grow, Rewrite, Vanish, Return, Typed
  <2>2. UNCHANGED Outside
    BY <1>2 DEF Grow, Rewrite, Vanish, Return
  <2>3. Typed'
    BY <2>1, <2>2 DEF Outside, local, collector, Typed
  <2> QED BY <2>2, <2>3 DEF Outside, local, remote, collector
<1>3. CASE IntervalElapses
  BY <1>3 DEF IntervalElapses, Typed, local, remote, collector
<1>4. CASE Crash
  BY <1>4 DEF Crash, Goto, Typed, local, remote
<1>5. CASE GiveUp
  BY <1>5 DEF GiveUp, Goto, Typed, local, remote
<1> QED BY <1>1, <1>2, <1>3, <1>4, <1>5

\* The scan, from reading the request to the sealed publication.
LEMMA ScanStep ==
  ASSUME IInv,
         \/ Scan \/ ResumeWaits \/ ResumePublishes \/ BlockMissing \/ ReplayHeld \/ ClearBlock
         \/ Settle \/ BlockRewritten \/ Seal \/ Hold \/ SettleRequest
  PROVE  IInv'
<1> USE DEF IInv, Progress, FrozenPredecessor, RecordAgrees, PointerResolves, Attempted, Publishing,
            Goto, Locally, remote
<1>1. CASE Scan
  BY <1>1 DEF Scan, Typed, local
<1>2. CASE ResumeWaits
  BY <1>2 DEF ResumeWaits, Typed, local
<1>3. CASE ResumePublishes
  <2>1. pending \in Pendings
    BY <1>3 DEF ResumePublishes, Typed
  <2>2. /\ pending' \in Pendings
        /\ pending'.attempted
        /\ pending'.bundle = pending.bundle
        /\ pending'.prior = pending.prior
    BY <1>3, <2>1 DEF ResumePublishes, Pendings
  <2>3. Typed'
    BY <1>3, <2>2 DEF ResumePublishes, Typed
  <2> QED BY <1>3, <2>1, <2>2, <2>3, AbsentAssumption DEF ResumePublishes
<1>4. ASSUME Reads PROVE ~Attempted
  BY <1>4 DEF Reads, Superseded
<1>5. ASSUME Builds PROVE ~Attempted
  BY <1>4, <1>5 DEF Builds
<1>6. CASE BlockMissing
  <2>1. published' \in PublishedRecords /\ published'.last = published.last
    BY <1>6 DEF BlockMissing, Blocked, Typed, PublishedRecords, ItemsOf, Requests
  <2>2. Typed'
    BY <1>6, <2>1 DEF BlockMissing, Typed
  <2> QED BY <1>4, <1>6, <2>1, <2>2 DEF BlockMissing
<1>7. CASE ReplayHeld
  <2>1. request' \in Requests
    BY <1>7, MergeTyped DEF ReplayHeld, Typed, PublishedRecords
  <2>2. Typed'
    BY <1>7, <2>1 DEF ReplayHeld, Typed
  <2> QED BY <1>4, <1>7, <2>2 DEF ReplayHeld
<1>8. CASE ClearBlock
  <2>1. published' \in PublishedRecords /\ published'.last = published.last
    BY <1>8 DEF ClearBlock, Cleared, Typed, PublishedRecords
  <2>2. Typed'
    BY <1>8, <2>1 DEF ClearBlock, Typed
  <2> QED BY <1>4, <1>8, <2>1, <2>2 DEF ClearBlock
<1>9. CASE Settle
  BY <1>5, <1>9 DEF Settle, Typed, local
<1>10. CASE BlockRewritten
  <2>1. published' \in PublishedRecords /\ published'.last = published.last
    BY <1>10, CandidateTyped DEF BlockRewritten, Blocked, Typed, PublishedRecords
  <2>2. Typed'
    BY <1>10, <2>1 DEF BlockRewritten, Typed
  <2> QED BY <1>5, <1>10, <2>1, <2>2 DEF BlockRewritten
<1>11. CASE Seal
  <2> DEFINE bundle == IF Unchanged THEN published.cached ELSE Candidate
  <2>1. bundle \in Bundles
    BY CandidateTyped DEF Unchanged, Typed, PublishedRecords
  <2>2. /\ pending' = [bundle |-> bundle, prior |-> published.last,
                       token |-> TokenOf(req), attempted |-> DueNow]
        /\ captures' \in Nat
    BY <1>11, <2>1 DEF Seal, Typed, Bundles
  <2>3. TokenOf(req) \in Tokens \union {NoToken} /\ DueNow \in BOOLEAN
    BY DEF TokenOf, Typed, Requests, DueNow
  <2>4. pending' \in Pendings /\ pending' # NoPending
    BY <2>1, <2>2, <2>3, AbsentAssumption DEF Pendings, Typed, PublishedRecords
  <2>5. Typed'
    BY <1>11, <2>2, <2>4 DEF Seal, Typed
  <2>6. metadata = published.last /\ UNCHANGED <<published, objects, metadata>>
    BY <1>5, <1>11 DEF Seal
  <2>7. pending'.prior = published.last /\ (pending'.attempted <=> DueNow)
    BY <2>2
  <2>8. pc' = IF DueNow THEN "position" ELSE "hold"
    BY <1>11 DEF Seal
  <2> QED BY <2>4, <2>5, <2>6, <2>7, <2>8
<1>12. CASE Hold
  <2>1. published' \in PublishedRecords /\ published'.last = published.last
    BY <1>12 DEF Hold, RateLimited, Typed, PublishedRecords, Pendings
  <2>2. Typed'
    BY <1>12, <2>1 DEF Hold, Typed
  <2> QED BY <1>12, <2>1, <2>2 DEF Hold
<1>13. CASE SettleRequest
  <2>1. Typed'
    BY <1>13, CompleteTyped DEF SettleRequest, Typed
  <2> QED BY <1>13, <2>1 DEF SettleRequest
<1> QED BY <1>1, <1>2, <1>3, <1>6, <1>7, <1>8, <1>9, <1>10, <1>11, <1>12, <1>13

\* The publication, from reading metadata to removing the pending file.
LEMMA PublicationStep ==
  ASSUME IInv,
         \/ Position \/ PutSource \/ PutMetadata \/ Retire \/ Record
         \/ CompletePublished \/ RemovePending
  PROVE  IInv'
<1> USE DEF IInv, Progress, FrozenPredecessor, RecordAgrees, PointerResolves, Attempted, Publishing,
            Goto, Succeeds, Fails, Spend
<1>1. CASE Position
  BY <1>1 DEF Position, Locally, remote, Typed, local
<1>2. CASE PutSource
  BY <1>2 DEF PutSource, Uploading, Typed, local
<1>3. CASE PutMetadata
  <2>1. pending # NoPending /\ pending.attempted /\ pending.bundle \in objects
    BY <1>3 DEF PutMetadata
  <2>2. UNCHANGED <<pending, published, objects>>
    BY <1>3 DEF PutMetadata, Uploading, local
  <2>3. metadata' \in {metadata, pending.bundle} /\ pc' \in {"commit", "retire", "sweep"}
    BY <1>3 DEF PutMetadata, Point
  <2>4. Typed'
    BY <1>3 DEF PutMetadata, Uploading, Typed, local
  <2> QED BY <2>1, <2>2, <2>3, <2>4
<1>4. CASE Retire
  BY <1>4 DEF Retire, Locally, remote, Typed
<1>5. CASE Record
  <2>1. published' \in PublishedRecords /\ published'.last = pending.bundle
    BY <1>5 DEF Record, Committed, PublishedRecords, Typed, Pendings
  <2>2. Typed'
    BY <1>5, <2>1 DEF Record, Typed
  <2> QED BY <1>5, <2>1, <2>2 DEF Record, remote
<1>6. CASE CompletePublished
  <2>1. Typed'
    BY <1>6, CompleteTyped DEF CompletePublished, Locally, Typed
  <2> QED BY <1>6, <2>1 DEF CompletePublished, Locally, remote
<1>7. CASE RemovePending
  BY <1>7 DEF RemovePending, Locally, remote, Typed
<1> QED BY <1>1, <1>2, <1>3, <1>4, <1>5, <1>6, <1>7

\* The sweep deletes no source metadata points at.
LEMMA SweepStep ==
  ASSUME IInv, SweepBegins \/ SweepDelete \/ SweepForget \/ SweepEnds
  PROVE  IInv'
<1> USE DEF IInv, Progress, FrozenPredecessor, RecordAgrees, PointerResolves, Attempted, Publishing, Goto
<1>1. CASE SweepBegins
  BY <1>1 DEF SweepBegins, Typed, local, remote
<1>2. CASE SweepDelete
  <2>1. PICK key \in Range(ledger) : key # metadata /\ objects' \in {objects, objects \ {key}}
    BY <1>2 DEF SweepDelete, Expirable, Succeeds
  <2>2. pc' \in {"swept", "idle"} /\ UNCHANGED <<pending, published, metadata>>
    BY <1>2 DEF SweepDelete, Succeeds, Sweeping
  <2>3. Typed'
    BY <1>2 DEF SweepDelete, Sweeping, Typed
  <2> QED BY <2>1, <2>2, <2>3
<1>3. CASE SweepForget
  BY <1>3 DEF SweepForget, Sweeping, Typed, remote
<1>4. CASE SweepEnds
  BY <1>4 DEF SweepEnds, Sweeping, Typed, remote
<1> QED BY <1>1, <1>2, <1>3, <1>4

\* Every step of Next is a step of one of the four parts above.
LEMMA IInvStep == IInv /\ [Next]_vars => IInv'
<1> SUFFICES ASSUME IInv, [Next]_vars PROVE IInv'
  OBVIOUS
<1>1. CASE Next
  BY <1>1, OutsideStep, ScanStep, PublicationStep, SweepStep DEF Next, Pass
<1>2. CASE UNCHANGED vars
  BY <1>2 DEF vars, local, remote, collector, IInv, Typed, Progress, FrozenPredecessor,
              RecordAgrees, PointerResolves, Attempted, Publishing
<1> QED BY <1>1, <1>2

-----------------------------------------------------------------------------

\* metadata.json never points at a source that is not in the bucket: the
\* source is uploaded before the metadata and a sweep never deletes what the
\* metadata points at (PutResolvedSourceSetThenMetadataReadback, expirable).
THEOREM PointerAlwaysResolves == Spec => []PointerResolves
<1>1. IInv => PointerResolves
  BY DEF IInv
<1> QED BY InitIInv, IInvStep, <1>1, PTL DEF Spec

\* The local record and the bucket differ by the publication under way at
\* most: a retry after any crash finds its own metadata or the predecessor it
\* froze (publicationPosition).
THEOREM RecordAlwaysAgrees == Spec => []RecordAgrees
<1>1. IInv => RecordAgrees
  BY DEF IInv
<1> QED BY InitIInv, IInvStep, <1>1, PTL DEF Spec

\* What has been attempted is retried unchanged until it is recorded: only
\* publish's save of a candidate, resume's mark and RemovePending write the
\* pending file.
THEOREM AttemptedStaysFrozen == Spec => FrozenUntilRecorded
<1> DEFINE Frozen ==
      Attempted => pending' = pending \/ (pending' = NoPending /\ published.last = pending.bundle)
<1>1. IInv /\ [Next]_vars => [Frozen]_vars
  <2> SUFFICES ASSUME IInv, Next, Attempted PROVE Frozen
    BY DEF Frozen
  <2>1. CASE ResumePublishes
    BY <2>1 DEF ResumePublishes, IInv, Typed, Pendings, Attempted
  <2>2. CASE RemovePending
    BY <2>2 DEF RemovePending, IInv, Progress
  <2>3. ~Reads /\ ~Builds
    BY DEF IInv, Progress, Reads, Builds, Superseded, Attempted
  <2>4. ~Seal
    BY <2>3 DEF Seal
  <2>5. CASE ~ResumePublishes /\ ~RemovePending
    BY <2>4, <2>5
    DEF Next, Pass, SaveRequest, Grow, Rewrite, Vanish, Return, Outside, local, IntervalElapses,
        Crash, GiveUp, Scan, ResumeWaits, BlockMissing, ReplayHeld, ClearBlock, Settle,
        BlockRewritten, Hold, SettleRequest, Position, PutSource, Uploading, PutMetadata, Retire,
        Record, CompletePublished, SweepBegins, SweepDelete, Sweeping, SweepForget, SweepEnds
  <2> QED BY <2>1, <2>2, <2>5
<1> QED BY InitIInv, IInvStep, <1>1, PTL DEF Spec, FrozenUntilRecorded, Frozen, Attempted

-----------------------------------------------------------------------------
(* The ledger of superseded sources                                        *)

\* TypeOK, but for what Typed says already.
LedgerTyped ==
  /\ published.pre # "blocked"
  /\ ledger \in Seq(Bundles) /\ objects \subseteq Bundles
  /\ metadata \in Bundles \union {NoBundle} /\ replaced \in Bundles \union {NoBundle}
  /\ victim \in Bundles \union {NoBundle}
  /\ pc \in Steps /\ recent \in BOOLEAN
  /\ acked \subseteq Items /\ left \in [Kinds -> Nat]

\* A key is in the ledger once.
Unique(keys) == \A i, j \in DOMAIN keys : keys[i] = keys[j] => i = j

\* What was captured was captured by now.
Captured ==
  /\ published.cached # NoBundle => published.cached.at <= captures
  /\ published.last # NoBundle => published.last.at <= captures
  /\ pending # NoPending => pending.bundle.at <= captures

Later(bundle) ==
  bundle # NoBundle /\ (published.last # NoBundle => bundle.at > published.last.at)

\* A candidate was captured after what is published, until it is published.
Newer ==
  /\ pending # NoPending =>
       Later(pending.bundle) \/ (Attempted /\ pending.bundle = published.last)
  /\ "limited" \in {published.status, published.pre} => Later(published.cached)
  /\ pc = "hold" => ~Attempted

\* A key in the ledger was captured before what is published, or is published and
\* being replaced.
LedgerOlder ==
  \A key \in Range(ledger) :
    /\ published.last # NoBundle
    /\ \/ key.at < published.last.at
       \/ /\ key = published.last
          /\ Attempted /\ pending.bundle # published.last /\ metadata = pending.bundle

\* What the pass has established about the ledger by the step it is at, and that
\* what is being replaced is at its end.
Retiring ==
  /\ \A i \in DOMAIN ledger : ledger[i] = published.last => i = Len(ledger)
  /\ pc \in {"retire", "record", "complete", "remove"} => metadata = pending.bundle
  /\ pc = "record" =>
       published.last \in {NoBundle, pending.bundle} \union Range(ledger)
  /\ pc = "swept" => victim \in Range(ledger) \ objects /\ victim # Last(ledger)

\* The source that was replaced is the one still recorded as published, or the
\* last in the ledger.
Predecessor ==
  /\ metadata # published.last => replaced = published.last
  /\ replaced # NoBundle /\ metadata = published.last =>
       ledger # <<>> /\ Last(ledger) = replaced

\* The inductive invariant, beside IInv.
LInv ==
  /\ LedgerTyped /\ Unique(ledger)
  /\ Captured /\ Newer /\ LedgerOlder /\ Retiring /\ Predecessor
  /\ NoLeakedObject /\ PredecessorKept

-----------------------------------------------------------------------------
(* The ledger as a sequence                                                *)

\* Taking a key out leaves the others in their order.
LEMMA WithoutFacts ==
  ASSUME NEW S, NEW keys \in Seq(S), Unique(keys), NEW key
  PROVE  /\ Without(keys, key) \in Seq(S) /\ Unique(Without(keys, key))
         /\ Range(Without(keys, key)) = Range(keys) \ {key}
         /\ keys # <<>> /\ Last(keys) # key =>
              Without(keys, key) # <<>> /\ Last(Without(keys, key)) = Last(keys)
<1>1. CASE key \notin Range(keys)
  BY <1>1 DEF Without, Range
<1>2. CASE key \in Range(keys)
  <2> DEFINE at == CHOOSE i \in DOMAIN keys : keys[i] = key
             rest == Without(keys, key)
             From(i) == IF i < at THEN i ELSE i + 1
  <2>1. at \in 1 .. Len(keys) /\ keys[at] = key /\ Len(keys) \in Nat
    BY <1>2 DEF Range
  <2>2. rest = SubSeq(keys, 1, at - 1) \o SubSeq(keys, at + 1, Len(keys))
    BY <1>2 DEF Without, RemoveAt
  <2> HIDE DEF at
  <2> DEFINE before == SubSeq(keys, 1, at - 1)
             after == SubSeq(keys, at + 1, Len(keys))
  <2>3. /\ before \in Seq(S) /\ Len(before) = at - 1
        /\ \A i \in 1 .. at - 1 : before[i] = keys[i]
    <3>1. \A i \in 1 .. at - 1 : keys[i] \in S
      BY <2>1
    <3> QED  BY <2>1, <3>1, SubSeqProperties
  <2>4. /\ after \in Seq(S) /\ Len(after) = Len(keys) - at
        /\ \A i \in 1 .. Len(keys) - at : after[i] = keys[at + i]
    <3>1. \A i \in at + 1 .. Len(keys) : keys[i] \in S
      BY <2>1
    <3>2. at + 1 \in Int /\ Len(keys) \in Int
      BY <2>1
    <3>3. /\ after \in Seq(S)
          /\ Len(after) = IF at + 1 <= Len(keys) THEN Len(keys) - (at + 1) + 1 ELSE 0
          /\ \A i \in 1 .. Len(keys) - (at + 1) + 1 : after[i] = keys[at + 1 + i - 1]
      BY <3>1, <3>2, SubSeqProperties
    <3> HIDE DEF after
    <3> QED  BY <2>1, <3>3
  <2> HIDE DEF before, after
  <2>5. /\ rest \in Seq(S) /\ Len(rest) = Len(keys) - 1
        /\ \A i \in 1 .. Len(keys) - 1 : rest[i] = keys[From(i)]
    <3>1. rest = before \o after
      BY <2>2 DEF before, after
    <3>2. /\ before \o after \in Seq(S) /\ Len(before \o after) = Len(before) + Len(after)
          /\ \A i \in 1 .. Len(before) + Len(after) :
               (before \o after)[i] = IF i <= Len(before) THEN before[i] ELSE after[i - Len(before)]
      BY <2>3, <2>4, ConcatProperties
    <3> HIDE DEF rest
    <3>3. Len(before) + Len(after) = Len(keys) - 1
      BY <2>1, <2>3, <2>4
    <3>4. ASSUME NEW i \in 1 .. Len(keys) - 1 PROVE rest[i] = keys[From(i)]
      <4>1. rest[i] = IF i <= at - 1 THEN before[i] ELSE after[i - (at - 1)]
        BY <2>3, <3>1, <3>2, <3>3
      <4>2. CASE i < at
        BY <2>1, <2>3, <4>1, <4>2
      <4>3. CASE i >= at
        <5>1. i - (at - 1) \in 1 .. Len(keys) - at /\ at + (i - (at - 1)) = i + 1
          BY <2>1, <4>3
        <5>2. after[i - (at - 1)] = keys[i + 1]
          BY <2>4, <5>1
        <5> QED  BY <2>1, <4>1, <4>3, <5>2
      <4> QED  BY <2>1, <4>2, <4>3
    <3> QED  BY <3>1, <3>2, <3>3, <3>4
  <2> HIDE DEF rest
  <2>6. DOMAIN rest = 1 .. Len(keys) - 1
    BY <2>1, <2>5
  <2>7. \A i \in DOMAIN rest : From(i) \in DOMAIN keys /\ From(i) # at
    BY <2>1, <2>6
  <2>8. Unique(rest)
    BY <2>1, <2>5, <2>6, <2>7 DEF Unique
  <2>9. Range(rest) = Range(keys) \ {key}
    <3>1. ASSUME NEW i \in DOMAIN rest PROVE rest[i] \in Range(keys) \ {key}
      BY <2>1, <2>5, <2>6, <2>7 DEF Unique, Range
    <3>2. ASSUME NEW i \in DOMAIN keys, keys[i] # key PROVE keys[i] \in Range(rest)
      <4>1. CASE i < at
        BY <2>1, <2>5, <2>6, <4>1 DEF Range
      <4>2. CASE i > at
        <5>1. i - 1 \in DOMAIN rest /\ rest[i - 1] = keys[i]
          BY <2>1, <2>5, <2>6, <4>2
        <5> QED  BY <5>1 DEF Range
      <4> QED  BY <2>1, <3>2, <4>1, <4>2
    <3> QED  BY <3>1, <3>2 DEF Range
  <2>10. ASSUME keys # <<>>, Last(keys) # key
         PROVE  rest # <<>> /\ Last(rest) = Last(keys)
    <3>1. at < Len(keys)
      BY <2>1, <2>10 DEF Last
    <3>2. Len(rest) >= 1 /\ From(Len(rest)) = Len(keys)
      BY <2>1, <2>5, <3>1
    <3> QED  BY <2>1, <2>5, <3>1, <3>2 DEF Last
  <2> QED  BY <2>5, <2>8, <2>9, <2>10 DEF rest
<1> QED  BY <1>1, <1>2

\* A key that is appended is the last, and the others stay.
LEMMA AppendFacts ==
  ASSUME NEW S, NEW keys \in Seq(S), Unique(keys), NEW key \in S, key \notin Range(keys)
  PROVE  /\ Append(keys, key) \in Seq(S) /\ Unique(Append(keys, key))
         /\ Range(Append(keys, key)) = Range(keys) \union {key}
         /\ Append(keys, key) # <<>> /\ Last(Append(keys, key)) = key
<1> DEFINE more == Append(keys, key)
<1>1. /\ more \in Seq(S) /\ Len(more) = Len(keys) + 1 /\ Len(keys) \in Nat
      /\ DOMAIN more = 1 .. Len(keys) + 1 /\ DOMAIN keys = 1 .. Len(keys)
      /\ \A i \in 1 .. Len(keys) : more[i] = keys[i]
      /\ more[Len(keys) + 1] = key
  OBVIOUS
<1> HIDE DEF more
<1>2. Unique(more)
  BY <1>1 DEF Unique, Range
<1>3. Range(more) = Range(keys) \union {key}
  BY <1>1 DEF Range
<1>4. more # <<>> /\ Last(more) = key
  BY <1>1 DEF Last
<1> QED  BY <1>1, <1>2, <1>3, <1>4 DEF more

\* A key in the ledger is a bundle.
LEMMA RangeTyped == ASSUME NEW S, NEW keys \in Seq(S) PROVE Range(keys) \subseteq S
BY DEF Range

\* What metadata points at is in no ledger, so the sweep takes the last entry
\* for the immediate predecessor.
LEMMA LastIsPredecessor ==
  ASSUME IInv, LInv
  PROVE  metadata \notin Range(ledger) /\ ImmediatePredecessor = Last(ledger)
<1>1. ASSUME metadata \in Range(ledger) PROVE FALSE
  <2> DEFINE key == metadata
  <2>1. /\ published.last # NoBundle
        /\ \/ key.at < published.last.at
           \/ key = published.last /\ Attempted /\ pending.bundle # published.last
              /\ metadata = pending.bundle
    BY <1>1 DEF LInv, LedgerOlder
  <2>2. key \in Bundles
    BY <1>1, RangeTyped DEF LInv, LedgerTyped
  <2>3. published.last \in Bundles
    BY <2>1 DEF IInv, Typed, PublishedRecords
  <2>4. key.at \in Nat /\ published.last.at \in Nat
    BY <2>2, <2>3 DEF Bundles
  <2>5. metadata # published.last
    BY <2>1, <2>4
  <2>6. Attempted /\ metadata = pending.bundle
    BY <2>5 DEF IInv, RecordAgrees, Attempted
  <2>7. key.at > published.last.at
    BY <2>1, <2>5, <2>6 DEF LInv, Newer, Later, Attempted
  <2> QED  BY <2>1, <2>4, <2>5, <2>7
<1> QED  BY <1>1 DEF ImmediatePredecessor, Without

\* The bundle a scan builds was captured after everything before it.
LEMMA CandidateLater == ASSUME IInv, LInv PROVE Later(Candidate)
<1>1. Candidate \in Bundles /\ Candidate.at = captures + 1
  BY CandidateTyped DEF IInv, Candidate
<1>2. published.last # NoBundle => published.last.at \in Nat /\ published.last.at <= captures
  BY DEF IInv, Typed, PublishedRecords, Bundles, LInv, Captured
<1> QED  BY <1>1, <1>2, AbsentAssumption DEF Later, IInv, Typed

\* An outside event uses up its bound.
LEMMA SpendTyped ==
  ASSUME LedgerTyped, NEW kind \in Kinds, Spend(kind) PROVE left' \in [Kinds -> Nat]
BY DEF LedgerTyped, Spend

-----------------------------------------------------------------------------
(* The invariant is inductive                                              *)

Calm ==
  \/ \E item \in Items, urgent \in Urgencies : SaveRequest(item, urgent)
  \/ Grow \/ Rewrite \/ Vanish \/ Return \/ IntervalElapses \/ Crash \/ GiveUp
  \/ Scan \/ ResumeWaits \/ ReplayHeld \/ Settle \/ SettleRequest \/ Position
  \/ CompletePublished \/ SweepBegins \/ SweepEnds

\* Most steps write neither the candidate, what is published nor the ledger.
LEMMA CalmStep ==
  ASSUME IInv, LInv, Calm
  PROVE  LInv'
<1> DEFINE Kept == UNCHANGED <<pending, published, ledger, objects, metadata, replaced, captures>>
           Steady ==
             /\ pc' \in Steps /\ (pc' \in {"hold", "retire", "record", "complete"} => pc' = pc)
             /\ (pc' = "remove" => pc \in {"complete", "remove"})
             /\ (pc' = "swept" => pc' = pc /\ victim' = victim)
           Rest == victim' \in {victim, NoBundle} /\ recent' \in BOOLEAN /\ acked' \subseteq Items
                   /\ left' \in [Kinds -> Nat]
<1> LedgerTyped /\ Typed
  BY DEF LInv, IInv
<1>1. Kept /\ Steady /\ Rest
  <2>1. ASSUME NEW item \in Items, NEW urgent \in Urgencies, SaveRequest(item, urgent)
        PROVE  Kept /\ Steady /\ Rest
    BY <2>1, SpendTyped DEF SaveRequest, Kinds, remote, collector, history, LedgerTyped
  <2>2. CASE Grow \/ Rewrite \/ Vanish \/ Return
    <3>1. UNCHANGED Outside /\ left' \in [Kinds -> Nat]
      BY <2>2, SpendTyped DEF Grow, Rewrite, Vanish, Return, Kinds, LedgerTyped
    <3> QED  BY <3>1 DEF Outside, local, remote, collector, history, LedgerTyped
  <2>3. CASE IntervalElapses
    BY <2>3 DEF IntervalElapses, local, remote, collector, history, LedgerTyped
  <2>4. CASE Crash \/ GiveUp
    BY <2>4, SpendTyped DEF Crash, GiveUp, Goto, Kinds, local, remote, history, LedgerTyped, Steps
  <2>5. CASE Scan \/ ResumeWaits \/ ReplayHeld \/ Settle \/ Position
    BY <2>5 DEF Scan, ResumeWaits, ReplayHeld, Settle, Position, Goto, Locally, local, remote,
                LedgerTyped, Steps
  <2>6. ItemsOf(request) \subseteq Items /\ (request # NoRequest => request.items \subseteq Items)
    BY DEF Typed, ItemsOf, Requests
  <2>7. CASE SettleRequest \/ CompletePublished
    BY <2>6, <2>7 DEF SettleRequest, CompletePublished, Goto, Locally, remote, LedgerTyped, Steps
  <2>8. CASE SweepBegins \/ SweepEnds
    BY <2>8 DEF SweepBegins, SweepEnds, Sweeping, Goto, local, remote, history, LedgerTyped, Steps
  <2> QED  BY <2>1, <2>2, <2>3, <2>4, <2>5, <2>7, <2>8 DEF Calm
<1>2. LedgerTyped'
  BY <1>1 DEF LInv, LedgerTyped
<1>3. Unique(ledger)' /\ Captured' /\ Newer' /\ LedgerOlder'
  BY <1>1 DEF LInv, Unique, Captured, Newer, Later, LedgerOlder, Attempted
<1>4. Retiring'
  BY <1>1 DEF LInv, Retiring
<1>5. Predecessor' /\ NoLeakedObject' /\ PredecessorKept'
  BY <1>1 DEF LInv, Predecessor, NoLeakedObject, PredecessorKept
<1> QED  BY <1>2, <1>3, <1>4, <1>5 DEF LInv

\* What a retry marks attempted keeps its bundle.
LEMMA ResumePublishesStep ==
  ASSUME IInv, LInv, ResumePublishes
  PROVE  LInv'
<1>1. pending \in Pendings /\ pending # NoPending /\ pc = "scan"
  BY DEF ResumePublishes, IInv, Typed
<1>2. /\ pending' \in Pendings /\ pending'.attempted
      /\ pending'.bundle = pending.bundle /\ pending'.prior = pending.prior
  BY <1>1 DEF ResumePublishes, Pendings
<1>3. pending' # NoPending
  BY <1>2, AbsentAssumption
<1>4. UNCHANGED <<published, ledger, objects, metadata, replaced, captures, recent, victim,
                  acked, left>>
      /\ pc' = "position"
  BY DEF ResumePublishes, Goto, Locally, remote
<1>5. LedgerTyped' /\ Unique(ledger)'
  BY <1>4 DEF LInv, LedgerTyped, Unique, Steps
<1>6. Captured' /\ Newer'
  BY <1>1, <1>2, <1>3, <1>4 DEF LInv, Captured, Newer, Later, Attempted
<1>7. LedgerOlder'
  BY <1>1, <1>2, <1>3, <1>4 DEF LInv, LedgerOlder, Attempted
<1>8. Retiring' /\ Predecessor' /\ PredecessorKept'
  BY <1>4 DEF LInv, Retiring, Predecessor, PredecessorKept
<1>9. NoLeakedObject'
  BY <1>1, <1>2, <1>3, <1>4 DEF LInv, NoLeakedObject
<1> QED  BY <1>5, <1>6, <1>7, <1>8, <1>9 DEF LInv

\* A block, its end, and a candidate held back change what is cached only.
LEMMA RecordStep ==
  ASSUME IInv, LInv, BlockMissing \/ ClearBlock \/ BlockRewritten \/ Hold
  PROVE  LInv'
<1> DEFINE Cached ==
      /\ published'.last = published.last /\ published'.pre # "blocked"
      /\ published'.cached # NoBundle => published'.cached.at <= captures'
      /\ "limited" \in {published'.status, published'.pre} => Later(published'.cached)
<1>1. /\ UNCHANGED <<pending, ledger, objects, metadata, replaced, recent, victim, acked, left>>
      /\ pc' \in {"settle", "build", "sweep"} /\ captures' \in {captures, captures + 1}
  BY DEF BlockMissing, ClearBlock, BlockRewritten, Hold, Goto, Locally, remote
<1>2. /\ published \in PublishedRecords /\ published.pre # "blocked" /\ captures \in Nat
      /\ published.cached # NoBundle => published.cached.at <= captures
      /\ "limited" \in {published.status, published.pre} => Later(published.cached)
  BY DEF IInv, Typed, LInv, LedgerTyped, Captured, Newer
<1>3. Cached
  <2>1. CASE BlockMissing
    BY <1>2, <2>1 DEF BlockMissing, Blocked, PublishedRecords
  <2>2. CASE ClearBlock
    BY <1>2, <2>2 DEF ClearBlock, Cleared, PublishedRecords
  <2>3. CASE BlockRewritten
    <3>1. Candidate.at = captures + 1 /\ captures' = captures + 1 /\ Later(Candidate)
      BY <2>3, CandidateLater DEF BlockRewritten, Candidate
    <3>2. /\ published'.last = published.last /\ published'.cached = Candidate
          /\ published'.status = "blocked"
          /\ published'.pre = IF published.status = "blocked" THEN published.pre
                              ELSE published.status
      BY <2>3 DEF BlockRewritten, Blocked
    <3> QED  BY <1>2, <3>1, <3>2
  <2>4. CASE Hold
    <3>1. /\ published'.last = published.last /\ published'.cached = pending.bundle
          /\ published'.pre = "none" /\ captures' = captures
      BY <2>4 DEF Hold, RateLimited
    <3>2. pending # NoPending /\ ~Attempted
      BY <2>4 DEF Hold, IInv, Progress, LInv, Newer
    <3>3. Later(pending.bundle) /\ pending.bundle.at <= captures
      BY <3>2 DEF LInv, Newer, Captured
    <3> QED  BY <3>1, <3>3
  <2> QED  BY <2>1, <2>2, <2>3, <2>4
<1>4. LedgerTyped' /\ Unique(ledger)'
  BY <1>1, <1>3 DEF LInv, LedgerTyped, Unique, Steps
<1>5. Captured'
  <2>1. /\ published.last # NoBundle => published.last.at \in Nat
        /\ pending # NoPending => pending.bundle.at \in Nat
    BY DEF IInv, Typed, PublishedRecords, Pendings, Bundles
  <2> QED  BY <1>1, <1>2, <1>3, <2>1 DEF LInv, Captured
<1>6. Newer'
  BY <1>1, <1>3 DEF LInv, Newer, Later, Attempted
<1>7. LedgerOlder' /\ Retiring' /\ Predecessor' /\ NoLeakedObject' /\ PredecessorKept'
  BY <1>1, <1>3 DEF LInv, LedgerOlder, Retiring, Predecessor, NoLeakedObject,
      PredecessorKept, Attempted
<1> QED  BY <1>4, <1>5, <1>6, <1>7 DEF LInv

\* A new candidate is newer than what is published, and nothing is being replaced.
LEMMA SealStep ==
  ASSUME IInv, LInv, Seal
  PROVE  LInv'
<1> DEFINE bundle == IF Unchanged THEN published.cached ELSE Candidate
<1>1. ~Attempted /\ metadata = published.last
  BY DEF Seal, Builds, Reads, Superseded, IInv, Progress, RecordAgrees, Attempted
<1>2. /\ pending' = [bundle |-> bundle, prior |-> published.last,
                     token |-> TokenOf(req), attempted |-> DueNow]
      /\ captures' = IF bundle.at > captures THEN bundle.at ELSE captures
      /\ pc' = IF DueNow THEN "position" ELSE "hold"
      /\ UNCHANGED <<published, ledger, objects, metadata, replaced, recent, victim, acked,
                     left>>
  BY DEF Seal, Goto, Locally, remote
<1>3. bundle \in Bundles /\ Later(bundle)
  <2>1. CASE Unchanged
    BY <2>1 DEF Unchanged, IInv, Typed, PublishedRecords, Seal, LInv, Newer
  <2>2. CASE ~Unchanged
    BY <2>2, CandidateTyped, CandidateLater DEF IInv
  <2> QED  BY <2>1, <2>2
<1> HIDE DEF bundle
<1>4. /\ pending'.bundle = bundle /\ (pending'.attempted <=> DueNow) /\ captures \in Nat
      /\ bundle.at \in Nat /\ bundle.at <= captures' /\ captures <= captures'
  BY <1>2, <1>3 DEF Bundles, IInv, Typed
<1>5. LedgerTyped' /\ Unique(ledger)'
  BY <1>2 DEF LInv, LedgerTyped, Unique, Steps
<1>6. Captured'
  <2>1. /\ published.last # NoBundle => published.last.at \in Nat
        /\ published.cached # NoBundle => published.cached.at \in Nat
    BY DEF IInv, Typed, PublishedRecords, Bundles
  <2> QED  BY <1>2, <1>4, <2>1 DEF LInv, Captured
<1>7. Newer'
  BY <1>2, <1>3, <1>4 DEF LInv, Newer, Later, Attempted
<1>8. LedgerOlder'
  BY <1>1, <1>2 DEF LInv, LedgerOlder
<1>9. Retiring' /\ Predecessor' /\ PredecessorKept'
  BY <1>2 DEF LInv, Retiring, Predecessor, PredecessorKept
<1>10. NoLeakedObject'
  BY <1>1, <1>2 DEF LInv, NoLeakedObject, Attempted
<1> QED  BY <1>5, <1>6, <1>7, <1>8, <1>9, <1>10 DEF LInv

\* An upload leaves nothing in the bucket but the candidate a retry will point at.
LEMMA PutSourceStep ==
  ASSUME IInv, LInv, PutSource
  PROVE  LInv'
<1>1. Attempted /\ pending.bundle \in Bundles
  BY DEF PutSource, IInv, Progress, Publishing, Typed, Pendings, Attempted
<1>2. /\ objects \subseteq objects' /\ objects' \subseteq objects \union {pending.bundle}
      /\ pc' \in {"source", "commit", "sweep"}
      /\ UNCHANGED <<pending, published, ledger, metadata, replaced, captures, recent,
                     victim, acked>>
      /\ left' \in [Kinds -> Nat]
  BY SpendTyped DEF PutSource, Succeeds, Fails, Goto, Uploading, local, LInv, LedgerTyped, Kinds
<1>3. LedgerTyped' /\ Unique(ledger)'
  BY <1>1, <1>2 DEF LInv, LedgerTyped, Unique, Steps
<1>4. Captured' /\ Newer' /\ LedgerOlder'
  BY <1>2 DEF LInv, Captured, Newer, Later, LedgerOlder, Attempted
<1>5. Retiring' /\ Predecessor' /\ PredecessorKept'
  BY <1>2 DEF LInv, Retiring, Predecessor, PredecessorKept
<1>6. NoLeakedObject'
  BY <1>1, <1>2 DEF LInv, NoLeakedObject, Attempted
<1> QED  BY <1>3, <1>4, <1>5, <1>6 DEF LInv

\* The metadata moves from what is recorded as published, which is in the bucket.
LEMMA PutMetadataStep ==
  ASSUME IInv, LInv, PutMetadata
  PROVE  LInv'
<1>1. Attempted /\ pending.bundle \in Bundles /\ metadata \in {pending.bundle, pending.prior}
  BY DEF PutMetadata, Positioned, IInv, Progress, Publishing, Typed, Pendings, Attempted
<1>2. /\ UNCHANGED <<pending, published, ledger, objects, captures, recent, victim, acked>>
      /\ \/ metadata' = pending.bundle
            /\ replaced' = IF metadata = pending.bundle THEN replaced ELSE metadata
         \/ metadata # pending.bundle /\ UNCHANGED <<metadata, replaced>> /\ pc' # "retire"
      /\ pc' \in {"commit", "retire", "sweep"}
      /\ left' \in [Kinds -> Nat]
  BY SpendTyped DEF PutMetadata, Point, Succeeds, Fails, Goto, Uploading, local, LInv,
      LedgerTyped, Kinds
<1>3. metadata # pending.bundle => metadata = published.last
  BY <1>1 DEF IInv, RecordAgrees, Attempted
<1>4. LedgerTyped' /\ Unique(ledger)'
  BY <1>1, <1>2 DEF LInv, LedgerTyped, Unique, Steps
<1>5. Captured' /\ Newer'
  BY <1>2 DEF LInv, Captured, Newer, Later, Attempted
<1>6. LedgerOlder'
  BY <1>2 DEF LInv, LedgerOlder, Attempted
<1>7. Retiring'
  BY <1>2 DEF LInv, Retiring
<1>8. CASE UNCHANGED <<metadata, replaced>>
  <2>1. Predecessor' /\ NoLeakedObject' /\ PredecessorKept'
    BY <1>2, <1>8 DEF LInv, Predecessor, NoLeakedObject, PredecessorKept
  <2> QED  BY <1>4, <1>5, <1>6, <1>7, <2>1 DEF LInv
<1>9. CASE metadata # pending.bundle /\ metadata' = pending.bundle /\ replaced' = metadata
  <2>1. pending.bundle # published.last
    BY <1>3, <1>9
  <2>2. Predecessor'
    BY <1>2, <1>3, <1>9, <2>1 DEF Predecessor
  <2>3. NoLeakedObject'
    BY <1>1, <1>2, <1>3, <1>9 DEF LInv, NoLeakedObject, Attempted
  <2>4. PredecessorKept'
    BY <1>2, <1>9 DEF IInv, PointerResolves, PredecessorKept
  <2> QED  BY <1>4, <1>5, <1>6, <1>7, <2>2, <2>3, <2>4 DEF LInv
<1> QED  BY <1>2, <1>8, <1>9

\* What is replaced goes to the end of the ledger, once.
LEMMA RetireStep ==
  ASSUME IInv, LInv, Retire
  PROVE  LInv'
<1>1. /\ Attempted /\ metadata = pending.bundle /\ pc' = "record"
      /\ UNCHANGED <<pending, published, objects, metadata, replaced, captures, recent,
                     victim, acked, left>>
  BY DEF Retire, Goto, Locally, remote, IInv, Progress, Publishing
<1>2. \/ published.last \in {NoBundle, pending.bundle} /\ ledger' = ledger
      \/ /\ published.last \in Bundles /\ published.last # pending.bundle
         /\ ledger' = Append(Without(ledger, published.last), published.last)
  BY DEF Retire, IInv, Typed, PublishedRecords
<1>3. Captured' /\ Newer' /\ PredecessorKept'
  BY <1>1 DEF LInv, Captured, Newer, Later, PredecessorKept, Attempted
<1>4. CASE published.last \in {NoBundle, pending.bundle} /\ ledger' = ledger
  <2>1. LedgerTyped' /\ Unique(ledger)'
    BY <1>1, <1>4 DEF LInv, LedgerTyped, Unique, Steps
  <2>2. LedgerOlder' /\ Retiring' /\ Predecessor' /\ NoLeakedObject'
    BY <1>1, <1>4 DEF LInv, LedgerOlder, Retiring, Predecessor, NoLeakedObject, Attempted
  <2> QED  BY <1>3, <2>1, <2>2 DEF LInv
<1>5. CASE /\ published.last \in Bundles /\ published.last # pending.bundle
           /\ ledger' = Append(Without(ledger, published.last), published.last)
  <2> DEFINE rest == Without(ledger, published.last)
  <2>1. rest \in Seq(Bundles) /\ Unique(rest) /\ Range(rest) = Range(ledger) \ {published.last}
    BY WithoutFacts DEF LInv, LedgerTyped
  <2> HIDE DEF rest
  <2>2. /\ ledger' \in Seq(Bundles) /\ Unique(ledger')
        /\ Range(ledger') = Range(rest) \union {published.last}
        /\ ledger' # <<>> /\ Last(ledger') = published.last
    BY <1>5, <2>1, AppendFacts DEF rest
  <2>3. published.last # NoBundle
    BY <1>5, AbsentAssumption
  <2>4. LedgerTyped' /\ Unique(ledger)'
    BY <1>1, <2>2 DEF LInv, LedgerTyped, Steps, Unique
  <2>5. LedgerOlder'
    BY <1>1, <1>5, <2>1, <2>2, <2>3 DEF LInv, LedgerOlder, Attempted
  <2>6. Len(ledger') \in DOMAIN ledger' /\ ledger'[Len(ledger')] = published.last
    BY <2>2 DEF Last
  <2>7. Retiring'
    BY <1>1, <2>2, <2>6 DEF Retiring, Unique
  <2>8. Predecessor' /\ NoLeakedObject'
    BY <1>1, <1>5, <2>1, <2>2 DEF LInv, Predecessor, NoLeakedObject
  <2> QED  BY <1>3, <2>4, <2>5, <2>7, <2>8 DEF LInv
<1> QED  BY <1>2, <1>4, <1>5

\* Once recorded, the candidate is published, newer than all that is in the
\* ledger; what it replaced is at the ledger's end.
LEMMA CommittedStep ==
  ASSUME IInv, LInv, Record
  PROVE  LInv'
<1>1. /\ Attempted /\ metadata = pending.bundle /\ pending.bundle \in Bundles /\ pc = "record"
      /\ published' = Committed(pending.bundle) /\ recent' \in BOOLEAN /\ pc' = "complete"
      /\ UNCHANGED <<pending, ledger, objects, metadata, replaced, captures, victim, acked,
                     left>>
  BY DEF Record, Goto, remote, history, IInv, Progress, Publishing, Typed, Pendings, Attempted
<1>2. /\ published'.last = pending.bundle /\ published'.cached = pending.bundle
      /\ published'.status = "published" /\ published'.pre = "none"
  BY <1>1 DEF Committed
<1>3. LedgerTyped' /\ Unique(ledger)'
  BY <1>1, <1>2 DEF LInv, LedgerTyped, Unique, Steps
<1>4. Captured' /\ Newer'
  BY <1>1, <1>2 DEF LInv, Captured, Newer, Attempted
<1>5. pending.bundle # NoBundle
  BY <1>1, AbsentAssumption
<1>6. ASSUME NEW key, key \in Range(ledger)
      PROVE  key.at < pending.bundle.at /\ key # pending.bundle
  <2>1. key \in Bundles
    BY <1>6, RangeTyped DEF LInv, LedgerTyped
  <2>2. /\ published.last # NoBundle
        /\ \/ key.at < published.last.at
           \/ key = published.last /\ pending.bundle # published.last
    BY <1>6 DEF LInv, LedgerOlder
  <2>3. key.at \in Nat /\ pending.bundle.at \in Nat /\ published.last.at \in Nat
    BY <1>1, <2>1, <2>2 DEF IInv, Typed, PublishedRecords, Bundles
  <2>4. pending.bundle = published.last \/ pending.bundle.at > published.last.at
    BY <1>1, <2>2 DEF LInv, Newer, Later, Attempted
  <2> QED  BY <2>2, <2>3, <2>4
<1>7. LedgerOlder'
  BY <1>1, <1>2, <1>5, <1>6 DEF LedgerOlder
<1>8. Retiring'
  <2>1. \A i \in DOMAIN ledger : ledger[i] \in Range(ledger)
    BY DEF Range
  <2> QED  BY <1>1, <1>2, <1>6, <2>1 DEF Retiring
<1>9. Predecessor'
  <2>1. CASE published.last = pending.bundle
    BY <1>1, <1>2, <2>1 DEF LInv, Predecessor
  <2>2. CASE published.last = NoBundle
    BY <1>1, <1>2, <2>2, <1>5 DEF LInv, Predecessor
  <2>3. CASE published.last \notin {pending.bundle, NoBundle}
    <3>1. PICK i \in DOMAIN ledger : ledger[i] = published.last
      BY <1>1, <2>3 DEF LInv, Retiring, Range
    <3>2. i = Len(ledger)
      BY <3>1 DEF LInv, Retiring
    <3>3. ledger # <<>> /\ Last(ledger) = published.last
      BY <3>1, <3>2 DEF Last, LInv, LedgerTyped
    <3> QED  BY <1>1, <1>2, <2>3, <3>3 DEF LInv, Predecessor
  <2> QED  BY <2>1, <2>2, <2>3
<1>10. NoLeakedObject'
  <2>1. CASE published.last \in {pending.bundle, NoBundle}
    <3>1. published.last \in objects => published.last = pending.bundle
      BY <2>1, AbsentAssumption DEF LInv, LedgerTyped
    <3> QED  BY <1>1, <1>2, <3>1 DEF LInv, NoLeakedObject, Attempted
  <2>2. CASE published.last \in Range(ledger)
    BY <1>1, <1>2, <2>2 DEF LInv, NoLeakedObject, Attempted
  <2> QED  BY <1>1, <2>1, <2>2 DEF LInv, Retiring
<1>11. PredecessorKept'
  BY <1>1 DEF LInv, PredecessorKept
<1> QED  BY <1>3, <1>4, <1>7, <1>8, <1>9, <1>10, <1>11 DEF LInv

\* The candidate whose file is removed is what is published, and current.
LEMMA RemovePendingStep ==
  ASSUME IInv, LInv, RemovePending
  PROVE  LInv'
<1>1. /\ Attempted /\ published.last = pending.bundle /\ metadata = pending.bundle
      /\ pending' = NoPending /\ pc' = "sweep"
      /\ UNCHANGED <<published, ledger, objects, metadata, replaced, captures, recent,
                     victim, acked, left>>
  BY DEF RemovePending, Goto, Locally, remote, IInv, Progress, Publishing, LInv, Retiring
<1>2. LedgerTyped' /\ Unique(ledger)'
  BY <1>1 DEF LInv, LedgerTyped, Unique, Steps
<1>3. Captured' /\ Newer' /\ LedgerOlder'
  BY <1>1 DEF LInv, Captured, Newer, Later, LedgerOlder
<1>4. Retiring' /\ Predecessor' /\ NoLeakedObject' /\ PredecessorKept'
  BY <1>1 DEF LInv, Retiring, Predecessor, NoLeakedObject, PredecessorKept
<1> QED  BY <1>2, <1>3, <1>4 DEF LInv

\* A sweep deletes neither the current source nor the one at the ledger's end.
LEMMA SweepDeleteStep ==
  ASSUME IInv, LInv, SweepDelete
  PROVE  LInv'
<1>1. PICK key \in Range(ledger) :
        /\ key # metadata /\ key # Last(ledger)
        /\ \/ pc' = "swept" /\ objects' = objects \ {key} /\ victim' = key /\ UNCHANGED left
           \/ pc' = "idle" /\ objects' \in {objects, objects \ {key}} /\ UNCHANGED victim
              /\ left' \in [Kinds -> Nat]
  BY LastIsPredecessor, SpendTyped
  DEF SweepDelete, Expirable, Succeeds, Goto, LInv, Kinds
<1>2. UNCHANGED <<pending, published, ledger, metadata, replaced, captures, recent, acked>>
  BY DEF SweepDelete, Sweeping, history
<1>3. key \in Bundles
  BY <1>1, RangeTyped DEF LInv, LedgerTyped
<1>4. LedgerTyped' /\ Unique(ledger)'
  BY <1>1, <1>2, <1>3 DEF LInv, LedgerTyped, Unique, Steps
<1>5. Captured' /\ Newer' /\ LedgerOlder' /\ Predecessor'
  BY <1>1, <1>2 DEF LInv, Captured, Newer, Later, LedgerOlder, Predecessor, Attempted
<1>6. Retiring'
  BY <1>1, <1>2 DEF LInv, Retiring
<1>7. NoLeakedObject'
  BY <1>1, <1>2 DEF LInv, NoLeakedObject
<1>8. PredecessorKept'
  <2>1. replaced # NoBundle => replaced # key
    <3>1. CASE metadata = published.last
      BY <1>1, <3>1 DEF LInv, Predecessor
    <3>2. CASE metadata # published.last
      <4>1. key # published.last
        <5>1. PICK i \in DOMAIN ledger : ledger[i] = key
          BY <1>1 DEF Range
        <5> QED  BY <1>1, <5>1 DEF LInv, Retiring, Last
      <4> QED  BY <3>2, <4>1 DEF LInv, Predecessor
    <3> QED  BY <3>1, <3>2
  <2> QED  BY <1>1, <1>2, <2>1 DEF LInv, PredecessorKept
<1> QED  BY <1>4, <1>5, <1>6, <1>7, <1>8 DEF LInv

\* A sweep forgets a key whose object is gone and that is not the last.
LEMMA SweepForgetStep ==
  ASSUME IInv, LInv, SweepForget
  PROVE  LInv'
<1>1. /\ pc' = "sweeping" /\ ledger' = Without(ledger, victim) /\ victim' = NoBundle
      /\ UNCHANGED <<pending, published, objects, metadata, replaced, captures, recent,
                     acked, left>>
      /\ victim \in Range(ledger) \ objects /\ victim # Last(ledger)
  BY DEF SweepForget, Goto, Sweeping, remote, history, LInv, Retiring
<1>2. ledger # <<>>
  BY <1>1 DEF Range
<1>3. /\ ledger' \in Seq(Bundles) /\ Unique(ledger') /\ Range(ledger') = Range(ledger) \ {victim}
      /\ ledger' # <<>> /\ Last(ledger') = Last(ledger)
  BY <1>1, <1>2, WithoutFacts DEF LInv, LedgerTyped
<1>4. LedgerTyped' /\ Unique(ledger)'
  BY <1>1, <1>3 DEF LInv, LedgerTyped, Steps, Unique
<1>5. Captured' /\ Newer' /\ LedgerOlder' /\ Predecessor'
  BY <1>1, <1>2, <1>3 DEF LInv, Captured, Newer, Later, LedgerOlder, Predecessor, Attempted
<1>6. Retiring'
  <2>1. ASSUME NEW i \in DOMAIN ledger', ledger'[i] = published.last PROVE i = Len(ledger')
    <3>1. published.last \in Range(ledger)
      BY <1>3, <2>1 DEF Range
    <3>2. PICK j \in DOMAIN ledger : ledger[j] = published.last
      BY <3>1 DEF Range
    <3>3. Last(ledger') = published.last
      BY <1>3, <3>2 DEF LInv, Retiring, Last
    <3>4. Len(ledger') \in DOMAIN ledger' /\ ledger'[Len(ledger')] = published.last
      BY <1>3, <3>3 DEF Last
    <3> QED  BY <1>3, <2>1, <3>4 DEF Unique
  <2> QED  BY <1>1, <2>1 DEF Retiring
<1>7. NoLeakedObject' /\ PredecessorKept'
  BY <1>1, <1>3 DEF LInv, NoLeakedObject, PredecessorKept
<1> QED  BY <1>4, <1>5, <1>6, <1>7 DEF LInv

\* A machine that has published nothing: the ledger and the bucket are empty.
LEMMA InitLInv == Init => LInv
<1> SUFFICES ASSUME Init PROVE LInv
  OBVIOUS
<1>1. left \in [Kinds -> Nat] /\ ledger = <<>> /\ objects = {} /\ published = NothingPublished
      /\ pending = NoPending /\ metadata = NoBundle /\ replaced = NoBundle /\ victim = NoBundle
      /\ pc = "idle" /\ recent = FALSE /\ acked = {} /\ captures = 0
  BY NumbersAssumption DEF Init
<1>2. published.last = NoBundle /\ published.cached = NoBundle
      /\ published.status = "none" /\ published.pre = "none"
  BY <1>1 DEF NothingPublished
<1>3. ledger \in Seq(Bundles) /\ DOMAIN ledger = {} /\ Range(ledger) = {}
  BY <1>1 DEF Range
<1>4. LedgerTyped /\ Unique(ledger)
  BY <1>1, <1>2, <1>3 DEF LedgerTyped, Unique, Steps
<1>5. Captured /\ Newer /\ LedgerOlder /\ Retiring
  BY <1>1, <1>2, <1>3 DEF Captured, Newer, LedgerOlder, Retiring
<1>6. Predecessor /\ NoLeakedObject /\ PredecessorKept
  BY <1>1, <1>2 DEF Predecessor, NoLeakedObject, PredecessorKept
<1> QED  BY <1>4, <1>5, <1>6 DEF LInv

\* Every step is one of the steps above.
LEMMA LInvStep == IInv /\ LInv /\ [Next]_vars => LInv'
<1> SUFFICES ASSUME IInv, LInv, [Next]_vars PROVE LInv'
  OBVIOUS
<1>1. CASE Next
  BY <1>1, CalmStep, ResumePublishesStep, RecordStep, SealStep, PutSourceStep, PutMetadataStep,
     RetireStep, CommittedStep, RemovePendingStep, SweepDeleteStep, SweepForgetStep
  DEF Next, Pass, Calm
<1>2. CASE UNCHANGED vars
  BY <1>2
  DEF vars, local, remote, collector, history, LInv, LedgerTyped, Unique, Captured, Newer,
      Later,
      LedgerOlder, Retiring, Predecessor, NoLeakedObject, PredecessorKept, Attempted
<1> QED  BY <1>1, <1>2

\* IInv and LInv hold in every state.
LEMMA Invariance == Spec => [](IInv /\ LInv)
<1>1. Init => IInv /\ LInv
  BY InitIInv, InitLInv
<1>2. IInv /\ LInv /\ [Next]_vars => (IInv /\ LInv)'
  BY IInvStep, LInvStep
<1> QED  BY <1>1, <1>2, PTL DEF Spec

-----------------------------------------------------------------------------

\* The session's files, the bucket and the pass keep their types; a block never
\* remembers another block as what it replaced (publishedState.next).
THEOREM TypeCorrect == Spec => []TypeOK
<1>1. IInv /\ LInv => TypeOK
  BY DEF IInv, Typed, PublishedRecords, LInv, LedgerTyped, TypeOK
<1> QED  BY Invariance, <1>1, PTL

\* No upload, crash, failed call or sweep leaves an object in the bucket that
\* nothing local remembers: a source goes to the ledger before the record of
\* what replaced it is saved, and leaves the ledger after it is deleted
\* (recordSourceSetRetirement, deleteSuperseded).
THEOREM NoObjectLeaked == Spec => []NoLeakedObject
<1>1. LInv => NoLeakedObject
  BY DEF LInv
<1> QED  BY Invariance, <1>1, PTL

\* The source the current metadata replaced is never deleted: it is the last in
\* the ledger, or still the one recorded as published, which is in no sweep's
\* reach (immediatePredecessor, expirable).
THEOREM PredecessorAlwaysKept == Spec => []PredecessorKept
<1>1. LInv => PredecessorKept
  BY DEF LInv
<1> QED  BY Invariance, <1>1, PTL

=============================================================================
