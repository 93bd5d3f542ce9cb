\* Processes: each reader has its own reader_count.
CONSTANTS
    Readers = {r1, r2}
    Writers = {w1}
    Shared = FALSE
SPECIFICATION FairSpec
PROPERTY AllTerminate
CHECK_DEADLOCK FALSE
