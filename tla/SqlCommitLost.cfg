SPECIFICATION Spec
CONSTANTS
  Handlers <- MCHandlers
  MaxRequests = 1
  MaxDrops = 1
CHECK_DEADLOCK FALSE
INVARIANT CommitCommits
