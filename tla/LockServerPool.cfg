SPECIFICATION FairSpec
CONSTANTS
  Pids = {f, a, b}
  Flusher = f
  Conns = {k1, k2}
  NumChildren = 2
  RequestsPerChild = 1
  Algorithm = "flock"
  Refusable = {"setgid", "setuid"}
  MaxForkFailures = 1
  MaxCrashes = 2
  MaxAcceptErrors = 1
  None = None
CHECK_DEADLOCK FALSE
INVARIANTS TypeOK PoolAccounted AcceptExclusion RootOnlyIfRefused
PROPERTIES ConnectionsAccepted PoolRestored
