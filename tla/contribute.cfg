SPECIFICATION Spec
CONSTANTS
  Manager <- MCManager
  Model = {a}
  Game = {}
  AutoCleanup = FALSE
  MaxDataQueueSize = 1
  MaxRows = 0
  Loop = {l1, l2}
  GameThread = {t1}
  TaskRepFactor = 2
  MaxRatingMatches = 1
  MaxTasks = 2
  NoTask = NoTask
  NoOne = NoOne
INVARIANTS NetsAreCountedAndLoaded
PROPERTIES CommandEnds
CHECK_DEADLOCK FALSE
