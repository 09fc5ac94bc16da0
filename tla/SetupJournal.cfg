\* Every plan of the collector's job and the search worker's, with an edit, a
\* name taken, a crash or logout, and a failed call, each at any step.
SPECIFICATION FairSpec
CONSTANTS
  plist = plist
  search_plist = search_plist
  collector = collector
  search = search
  FileOrder <- BothFiles
  Roles <- BothRoles
  Definition <- BothDefinition
  Plans <- EveryPlan
  Absent <- None
  Orphans = FALSE
  Budget <- SetupBudget
  NoJournal = NoJournal
INVARIANTS TypeOK NoPassHalfway RecoveredWhole CommittedWhole
PROPERTIES EditsKept RecordIsResolved
