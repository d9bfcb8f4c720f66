SPECIFICATION CommandSpec
CONSTANTS
  Manager <- MCManager
  Model = {1, 2}
  Game = {1, 2}
  AutoCleanup = TRUE
  MaxDataQueueSize = 1
  MaxRows = 1
  Thread = {t1, t2}
  MaxGamesTotal = 2
  NoModel = NoModel
  NumGamesPerGating = 3
  MaxCandidates = 2
  NoNet = NoNet
INVARIANTS PipelineIsConsistent NetsInUseAreAlive FinishedGamesAreKept VerdictIsFinal
PROPERTIES PipelineGoesOn
CHECK_DEADLOCK FALSE
