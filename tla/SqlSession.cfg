SPECIFICATION Spec
CONSTANTS
  Handlers <- MCHandlers
  MaxRequests = 3
  MaxDrops = 2
CHECK_DEADLOCK FALSE
INVARIANTS AllOrNothing CommitKeeps RollbackUndoes
