SPECIFICATION LinkSpec
CONSTANTS
    Messages <- AllMessages
    MAX_ENCODED_LEN = 50
    MaxRefused = 1
    MaxSent = 2
    Grain = 10
    AllocFails = FALSE
    NestingLimit = 3
    NumberSize = 63
    Sources = {}
INVARIANTS PrintFits EncodeCleansUp NothingInvented WholeMessagesArrive
CHECK_DEADLOCK FALSE
