\* Three saves around a transcript that goes away and comes back, with the upload
\* interval: a candidate may be held back while the transcript is missing.
CONSTANTS
  Items = {"a", "b"}
  Natives = {1, 2}
  Tokens = {1, 2, 3, 4}
  Urgencies = {TRUE, FALSE}
  NoBundle = NoBundle
  NoRequest = NoRequest
  NoPending = NoPending
  Budgets <- HeldBack
SPECIFICATION Spec
CHECK_DEADLOCK FALSE
PROPERTIES HeldIsHandedBack
