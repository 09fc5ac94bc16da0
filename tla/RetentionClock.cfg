\* 14 is a clock far ahead, 0 one far behind, 5 one close to the true time.
CONSTANTS
  Captures = {s}
  Entries = {a}
  Age <- MCAge
  Skew = 1
  Gap = 3
  Agreeing = 2
  Holding = 2
  NoReading = NoReading
  Start = 2
  Settings = {0, 5, 14}
  Quiet = 6
  Limits <- MCLimits
  Horizon = 9
SPECIFICATION FairSpec
PROPERTIES KeptItsTime HoldEnds
