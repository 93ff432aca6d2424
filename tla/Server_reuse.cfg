SPECIFICATION Spec
CONSTANTS
    Main = main
    Ticker = ticker
    Threads = {main, worker, ticker}
    SigThreads = {main, worker}
    Preempt = TRUE
    Conns = {c1, c2}
    NoConn = NoConn
    NoFrame = NoFrame
    Fds = {1, 2}
    Segments <- CleanSegments
    FinSignals = 2
    EarlyData = TRUE
    AllocFails = FALSE
    Retries = TRUE
    StartFails = {"st_timer"}
    MaxStream = 0
    MaxQueue = 0
SYMMETRY ConnSymmetry
INVARIANTS TableMatchesSockets NoDuplicateEntry
PROPERTY ClosesOwnSocket
CHECK_DEADLOCK FALSE
