SPECIFICATION Spec
CONSTANTS
    d1 = d1
    d2 = d2
    NoDev = NoDev
    NoKey = NoKey
    Devices <- TwoDevices
    Env <- NoEnv
    RandomCounters <- NarrowDraws
    AnsweredIn <- TwoSlots
    U32 = 16
    U8 = 5
    NUM_RSP_SLOTS = 3
    MAX_NUM_SUBEVENTS = 1
    NUM_REGISTER_SLOTS = 1
    MAX_FREE_SLOTS = 1
    EVENTS_PER_BLOCK = 1
    MaxCounter = 8
    MaxBoots = 0
SYMMETRY Symmetry
INVARIANTS
    DiscoveryOpen
