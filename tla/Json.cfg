SPECIFICATION FairSpec
CONSTANTS
    AllocFails = TRUE
    NestingLimit = 3
    NumberSize = 3
    Sources <- AllTexts
INVARIANTS ParserTypeOK ReadsFit WritesFit NoDoubleFree NothingLeaks NestingBounded AcceptedPrintsBack
PROPERTY EveryTextEnds
CHECK_DEADLOCK FALSE
