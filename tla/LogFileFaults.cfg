SPECIFICATION FairSpec
CONSTANTS
  Master = m
  Flusher = f
  FirstGen = {a}
  Replacements = {}
  Killable = {a, f}
  l1 = l1
  l2 = l2
  l3 = l3
  Lines = {l1, l3}
  LineLen <- MCLineLen
  Chunk = 4
  MaxErrors = 1
  MayDestroy = TRUE
  Quiet = FALSE
  NoFd = NoFd
INVARIANTS MutualExclusion BufferInBounds NoLostLine FlushReachesDisk
PROPERTY CallsReturn
CHECK_DEADLOCK FALSE
