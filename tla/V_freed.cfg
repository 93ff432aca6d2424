SPECIFICATION Spec
CONSTANTS
    Main = main
    Ticker = ticker
    Threads = {main, worker, ticker}
    SigThreads = {main, worker}
    Preempt = TRUE
    Conns = {c1}
    NoConn = NoConn
    NoFrame = NoFrame
    Fds = {1}
    Segments <- CleanSegments
    FinSignals = 2
    EarlyData = FALSE
    AllocFails = FALSE
    Retries = TRUE
    StartFails = {}
    MaxStream = 1
    MaxQueue = 0
INVARIANT FlagProtectsHandlers
CHECK_DEADLOCK FALSE
