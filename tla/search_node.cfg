SPECIFICATION FairSpec
CONSTANTS
    Threads = {t1, t2}
    Moves = {m1, m2, m3}
    CHILDREN0SIZE = 1
    CHILDREN1SIZE = 2
    CHILDREN2SIZE = 3
    Doubtful = {m1}
    Shared = {m1}
    MaxPlayouts = 4
    MaxElsewhere = 1
    NULL = NULL
INVARIANTS PublishedIsReady ChildrenAgree VirtualLossesBalance StatsAreUpToDate
PROPERTIES IsChildList PlayoutReturns
CHECK_DEADLOCK FALSE
