CONSTANTS
    Small = 2
    Large = 4
    Horizon = 8
    Start = 3
    MaxJumps = 2
    Back = TRUE
SPECIFICATION Spec
INVARIANTS TypeOK FixedOnce WildNow NeverEarly
