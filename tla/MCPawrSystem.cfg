SPECIFICATION SysSpec
CONSTANTS
    d1 = d1
    d2 = d2
    NoDev = NoDev
    NoKey = NoKey
    Devices <- TwoDevices
    CONFIG_SCANNER_ID = d1
    Env <- Resets
    ScannerEnv <- PoorRadio
    RandomCounters <- NarrowDraws
    AnsweredIn <- AllSlots
    U32 = 16
    U8 = 5
    NUM_RSP_SLOTS = 3
    MAX_NUM_SUBEVENTS = 1
    NUM_REGISTER_SLOTS = 1
    MAX_FREE_SLOTS = 1
    EVENTS_PER_BLOCK = 1
    MAX_UNCONFIRMED_TICKS = 2
    MaxCounter = 4
    MaxBoots = 1
    MaxLate = 0
    MaxOthers = 1
    Loss <- AllLost
INVARIANTS
    AssumptionsMet
    IndicationsAccepted
    ResponsesAccepted
    AckMeansOwned
\* Behaviours end at the bound MaxCounter.
CHECK_DEADLOCK FALSE
