SPECIFICATION FairSpec
CONSTANTS
    Clients = {c1, c2, c3}
    Servers = {s1, s2}
    maxNumRows = 2
    maxConcurrentEvals = 3
    numResultBufss = 4
    NULL = NULL
INVARIANTS RowsAreHeldOnce SleepersAreAttendedTo KillLeavesNothing
PROPERTIES IsBatchService CallsGoOn
