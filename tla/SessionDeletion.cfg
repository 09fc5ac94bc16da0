\* A removal, a hook during it and another, an undo; a crash anywhere, a remote
\* call that fails, and a clock that cannot be read.
CONSTANTS
  Sources = {"s1", "s2", "s3"}
  Versions = {1, 2, 3}
  SourcesOf <- DocumentSources
  Hooks = {1, 2}
  Budget <- RemovalBudget
SPECIFICATION FairSpec
INVARIANTS TypeOK MetadataResolves Recoverable ForgottenIsGone
PROPERTIES HookEvidenceKept UndoIsFinal DeletionSettles
