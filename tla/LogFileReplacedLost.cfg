SPECIFICATION Spec
CONSTANTS
  Master = m
  Flusher = f
  FirstGen = {a, b}
  Replacements = {c, d}
  Killable = {}
  l1 = l1
  l2 = l2
  l3 = l3
  Lines = {l1, l2, l3}
  LineLen <- MCLineLen
  Chunk = 4
  MaxErrors = 0
  MayDestroy = FALSE
  Quiet = TRUE
  NoFd = NoFd
INVARIANTS NoLostLine
CHECK_DEADLOCK FALSE
