SPECIFICATION FairSpec
CONSTANTS
  Stream <- MCStream
  BufSize = 4
  NoStream = NoStream
CHECK_DEADLOCK FALSE
INVARIANTS TypeOK OwnConnection ParsedAsSent
PROPERTIES ReadingEnds
