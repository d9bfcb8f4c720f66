SPECIFICATION CacheSpec
CONSTANTS
  XSize = 2
  YSize = 2
  WinLen = 3
  Client = {c1, c2}
  Position <- MCPosition
  Evaluation = {e1, e2}
  tableSize = 1
  index <- MCIndex
  MaySkip <- MCMaySkip
  NULL = NULL
INVARIANTS PolicyIsForLegalMoves
