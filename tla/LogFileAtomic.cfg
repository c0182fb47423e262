SPECIFICATION FairSpec
CONSTANTS
  Master = m
  Flusher = f
  FirstGen = {a, b}
  Replacements = {}
  Killable = {}
  l1 = l1
  l2 = l2
  l3 = l3
  Lines = {l1, l2, l3}
  LineLen <- MCLineLen
  Chunk = 4
  MaxErrors = 0
  MayDestroy = FALSE
  Quiet = FALSE
  NoFd = NoFd
INVARIANT TypeOK
PROPERTIES RefinesAtomicLog LinesReachDisk
