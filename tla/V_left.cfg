SPECIFICATION Spec
CONSTANTS
    Main = main
    Ticker = ticker
    Threads = {main, ticker}
    SigThreads = {main}
    Preempt = FALSE
    Conns = {c1}
    NoConn = NoConn
    NoFrame = NoFrame
    Fds = {1}
    Segments <- PairSegments
    FinSignals = 1
    EarlyData = FALSE
    AllocFails = FALSE
    Retries = TRUE
    StartFails = {}
    MaxStream = 2
    MaxQueue = 0
INVARIANT Drained
CHECK_DEADLOCK FALSE
