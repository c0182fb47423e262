SPECIFICATION FairSpec
CONSTANTS
  RequestsPerChild = 2
  Watchdog = TRUE
  Sizes <- MCSizes
  Allow = {"stall", "shrink", "loop", "stopped"}
  MaxConns = 2
  MaxOps = 2
CHECK_DEADLOCK FALSE
INVARIANTS TypeOK OwnBytes Framed
PROPERTIES RefinesConnection KeepAliveHonoured RequestEnds
