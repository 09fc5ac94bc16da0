\* Two saves; a transcript that grows and is truncated, a crash anywhere and a
\* store failure: upload, acknowledgement, rate limit, block, retry and sweep; or
\* a transcript that goes away and comes back twice, with a crash anywhere.
CONSTANTS
  Items = {"a", "b"}
  Natives = {1, 2}
  Tokens = {1, 2, 3, 4}
  Urgencies = {TRUE, FALSE}
  NoBundle = NoBundle
  NoRequest = NoRequest
  NoPending = NoPending
  Budgets <- FaultsOrMissing
SPECIFICATION FairSpec
CHECK_DEADLOCK FALSE
INVARIANTS TypeOK PointerResolves RecordAgrees EvidenceKept NoLeakedObject PredecessorKept
PROPERTIES FrozenUntilRecorded RichestSnapshotKept HeldIsHandedBack SavedIsPublished
