SPECIFICATION Spec
CONSTANTS
    d1 = d1
    d2 = d2
    NoDev = NoDev
    NoKey = NoKey
    Devices <- OneDevice
    Env <- BootEnv
    RandomCounters <- NarrowDraws
    AnsweredIn <- FirstSlot
    U32 = 16
    U8 = 5
    NUM_RSP_SLOTS = 3
    MAX_NUM_SUBEVENTS = 2
    NUM_REGISTER_SLOTS = 1
    MAX_FREE_SLOTS = 1
    EVENTS_PER_BLOCK = 1
    MaxCounter = 2
    MaxBoots = 2
INVARIANTS
    ButtonKeepsCount
    AdvertCurrent
    FreshCounter
