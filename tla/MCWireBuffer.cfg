SPECIFICATION Spec
CONSTANTS
    U8 = 16
    HASH_LEN = 32
    POINTER = 4
    TO_SEND_BUF_SIZE = 251
    NUM_RSP_SLOTS = 103
    NUM_REGISTER_SLOTS = 5
    UNUSED_DATA_LEN = 15
    Messages <- FullLists
    Counters <- SomeCounters
INVARIANT BuffersHold
\* A behaviour is the life of one message.
CHECK_DEADLOCK FALSE
