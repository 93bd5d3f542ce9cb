CONSTANTS
    TOTALBLOCKS = 8
    FirstData = 2
    CACHESIZE = 2
    MAXDIRENTRIES = 4
    INODETABLESIZE = 6
    Names = {"a", "b", "c"}
    KeepFirst = FALSE
    MaxLinks = 8
    MaxOpen = 0
SPECIFICATION Spec
INVARIANT FreeCount
