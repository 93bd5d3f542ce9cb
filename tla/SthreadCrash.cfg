CONSTANTS
    NThreads = 2
    Limits = {20}
SPECIFICATION Spec
INVARIANT NoCrash
