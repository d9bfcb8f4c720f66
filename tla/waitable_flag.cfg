SPECIFICATION FairSpec
CONSTANT Threads = {t1, t2}
PROPERTY LastValueReleases
CHECK_DEADLOCK FALSE
