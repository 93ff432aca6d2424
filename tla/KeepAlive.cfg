SPECIFICATION Spec
CONSTANTS
    KEEP_ALIVE_INTERVAL = 10
    KEEP_ALIVE_CHECK_PERIOD = 1
    KEEP_ALIVE_GRACE = 3
    MaxDelay = 9
    MaxSkew = 1
    MaxQuiet = 65
    MaxMissed = 2
INVARIANTS TypeOK NoFalseAlarm DetectedInTime GraceIsGiven OneReportPerPeriod
