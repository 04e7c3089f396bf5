SPECIFICATION FairSpec
CONSTANTS
    MAX_UNCONFIRMED_TICKS = 2
    U8 = 4
    Env <- Disturbances
INVARIANTS
    TypeOK
    GeneratorOnlyRegistered
    ConfirmingWakes
    SyncHeld
PROPERTY ConfirmingEnds
