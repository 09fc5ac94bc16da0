\* Two writers of the same event, a power loss and nothing else.
CONSTANTS
  Hooks = {h1}
  Others = {o1}
  Collector = collector
  Events <- MCEvents
  Legacy <- MCLegacy
  NoRequest = NoRequest
  Nobody = Nobody
  Tokens = {1, 2, 3, 4, 5, 6, 7}
  Attempts = 2
  Starts <- Power
SPECIFICATION Spec
CHECK_DEADLOCK FALSE
INVARIANTS ReturnedSaveSurvives
