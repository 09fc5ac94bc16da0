\* Two machines and two publications, with the same content again or another; a
\* collection and its recovery; a stop anywhere or a write that lands late.
CONSTANTS
  Machines = {m1, m2}
  Contents = {1, 2}
  Offered <- OfferedContents
  Epochs = {1, 2, 3, 4, 5, 6, 7}
  None = None
  Lifetime = 1
  Uncertainty = 1
  Precision = 1
  MaxTime = 3
  Budget <- CatalogBudget
SPECIFICATION FairSpec
CHECK_DEADLOCK FALSE
INVARIANTS TypeOK SnapshotKept CommittedOnce AuthorityIsOwned
PROPERTIES ClaimsKept PendingSettles
