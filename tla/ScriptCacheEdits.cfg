SPECIFICATION Spec
CONSTANTS
  Kinds = {"jst", "coffee", "less", "sjs"}
  Broken = {2, 3}
  SameSecond = TRUE
  SetBack = TRUE
  MayVanish = TRUE
  MaxVersion = 4
  MaxRequests = 5
  None = None
CHECK_DEADLOCK FALSE
INVARIANTS TypeOK NoFreedRun FreesAccounted CompiledUpToDate
