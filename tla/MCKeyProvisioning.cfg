SPECIFICATION Spec
CONSTANTS
    LastId = 2
    Base = 2
    None = None
    COUNTER_ID = COUNTER_ID
    NoKey = NoKey
    Drawn = Drawn
    Garbage = Garbage
    Faults <- AllFaults
    MaxKeys = 3
INVARIANT SameTableAgrees
