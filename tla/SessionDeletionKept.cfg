\* One hook and one removal: the hook queues its request between the sweep's scan
\* and the intent.
CONSTANTS
  Sources = {"s1", "s2", "s3"}
  Versions = {1, 2, 3}
  SourcesOf <- DocumentSources
  Hooks = {1}
  Budget <- QuietBudget
SPECIFICATION FairSpec
PROPERTIES KeptIsRestored
