\* A hook, another writer and the collector that never stop writing; a kill or a
\* power loss anywhere; a request an older version left without a token.
CONSTANTS
  Hooks = {h1}
  Others = {o1}
  Collector = collector
  Events <- MCEvents
  Legacy <- MCLegacy
  NoRequest = NoRequest
  Nobody = Nobody
  Tokens = {1, 2, 3, 4, 5, 6, 7}
  Attempts = 2
  Starts <- KillOrPower
SPECIFICATION FairSpec
CHECK_DEADLOCK FALSE
INVARIANTS TypeOK SavedEvidenceKept
PROPERTIES ImplementsRegister NothingSavedForgotten HookSaveLands
