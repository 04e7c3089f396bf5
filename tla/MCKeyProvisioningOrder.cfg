SPECIFICATION DocumentedSpec
CONSTANTS
    LastId = 3
    Base = 3
    None = None
    COUNTER_ID = COUNTER_ID
    NoKey = NoKey
    Drawn = Drawn
    Garbage = Garbage
    Faults <- NoFaults
    MaxKeys = 4
INVARIANT ProcedureSuffices
