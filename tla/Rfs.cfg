\* Links 5 to 9 of the root are in the boot block; a cache of 3 is refilled
\* up to three times.
CONSTANTS
    TOTALBLOCKS = 10
    FirstData = 2
    CACHESIZE = 3
    MAXDIRENTRIES = 5
    INODETABLESIZE = 7
    Names = {"a", "b", "c"}
    KeepFirst = TRUE
    MaxLinks = 10
    MaxOpen = 2
SPECIFICATION Spec
INVARIANTS TypeOK OwnBlock FreeCount Reachable ParentEntry OpenOnce
