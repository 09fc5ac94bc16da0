SPECIFICATION FairSpec
CONSTANTS
  plist = plist
  search_plist = search_plist
  collector = collector
  search = search
  FileOrder <- OneFile
  Roles <- CollectorOnly
  Definition <- OneDefinition
  Plans <- CollectorPlans
  Absent <- PlistGone
  Orphans = TRUE
  Budget <- OneFault
  NoJournal = NoJournal
PROPERTY RerunRecovers
