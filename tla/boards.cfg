SPECIFICATION BoardSpec
CONSTANTS
  XSize = 3
  YSize = 2
  WinLen = 3
  NUM_RECENT_BOARDS = 4
  MaxStones = 5
  MaxClears = 1
  Client = {c1, c2}
  Position <- MCPosition
  Evaluation = {e1, e2}
  tableSize = 1
  index <- MCIndex
  MaySkip <- MCMaySkip
  NULL = NULL
INVARIANTS BoardConsistent LegalAgreesWithRules FinishedIffRow AssumedLegalMovesAreRecent
           ResultIsWhatWasAsked
PROPERTIES PublishedIsFinal
SYMMETRY MCSymmetry
CHECK_DEADLOCK FALSE
