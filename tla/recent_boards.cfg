SPECIFICATION Spec
CONSTANTS
    XSize = 3
    YSize = 2
    WinLen = 3
    NUM_RECENT_BOARDS = 4
    MaxStones = 5
    MaxClears = 0
INVARIANT RecentBoardsAreMovesAgo
CHECK_DEADLOCK FALSE
