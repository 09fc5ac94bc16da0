\* A transcript that is truncated, goes away and comes back.
CONSTANTS
  Items = {"a"}
  Natives = {1, 2, 3}
  Tokens = {1, 2, 3, 4}
  Urgencies = {TRUE}
  NoBundle = NoBundle
  NoRequest = NoRequest
  NoPending = NoPending
  Budgets <- RewriteMissing
SPECIFICATION Spec
CHECK_DEADLOCK FALSE
PROPERTIES RichestSnapshotKept
