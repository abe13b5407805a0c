SPECIFICATION Spec
CONSTANTS
  Repos <- MCRepos
  Requests <- MCRequests
  Hooks <- MCHooks
  MaxEdits = 1
  MaxDrifts = 1
  MaxSyncs = 2
CHECK_DEADLOCK FALSE
INVARIANTS
  PagesAnswered
  AssetsMatch
  BoundaryScope
PROPERTY
  DocsOwned
