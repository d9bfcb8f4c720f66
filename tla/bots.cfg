SPECIFICATION CommandSpec
CONSTANTS
  Bot = {b1}
  Callbacks = {"none", "once", "periodic", "skip"}
  MaxRequests = 3
  Priority <- MCPriority
  Reporting = {2}
  NoRequest = NoRequest
  NumNodes = 5
  Succ <- MCSucc
  GameThread = {t1, t2}
  numIterations <- MCNumIterations
  numToExpandPerIteration = 2
  saveEveryIterations = 1
  maxDepthToRecord = 2
  minTreeVisitsToRecord = 3
  MaxRuns = 2
  NoValues = NoValues
INVARIANTS UserHasSearchAlone CallbackSeesItsSearch MoveIsReportedOnce RequestsAreSafe AnsweredOnce SavedBookIsSearched BookIsConsistent
PROPERTIES EveryCallEnds
CHECK_DEADLOCK FALSE
