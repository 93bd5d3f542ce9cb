\* The limits as in the code, but 10 minutes for three hours.
CONSTANTS
    Small = 5
    Large = 10
    Horizon = 12
    Start = 0
    MaxJumps = 1
    Back = FALSE
SPECIFICATION Spec
INVARIANT WildOnce
