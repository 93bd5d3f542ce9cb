CONSTANTS
    NThreads = 3
    Limits = {2, 3, 20}
SPECIFICATION FairSpec
INVARIANTS TypeOK NobodyLost Census  
PROPERTY Ends
