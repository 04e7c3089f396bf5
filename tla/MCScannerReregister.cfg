SPECIFICATION InRangeSpec
CONSTANTS
    MAX_UNCONFIRMED_TICKS = 2
    U8 = 4
    Env <- GoodRadio
PROPERTY TriesToRegisterAgain
