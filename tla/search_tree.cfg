SPECIFICATION Spec
CONSTANTS
  n1 = n1
  n2 = n2
  n3 = n3
  Node = {n1, n2, n3}
  Root = Root
  NULL = NULL
  MaxThreads = 2
  NumShards = 3
  shardOf <- MCShardOf
  MaxPlayouts = 3
  leadsTo <- MCLeadsTo
  MaxAge = 2
INVARIANTS PoolIsSound TreeIsSound
PROPERTIES SweepLeavesTheTree TasksEnd
