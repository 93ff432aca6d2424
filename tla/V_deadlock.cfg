SPECIFICATION Spec
CONSTANTS
    Main = main
    Ticker = ticker
    Threads = {main, ticker}
    SigThreads = {main}
    Preempt = TRUE
    Conns = {c1}
    NoConn = NoConn
    NoFrame = NoFrame
    Fds = {1}
    Segments <- CleanSegments
    FinSignals = 1
    EarlyData = FALSE
    AllocFails = FALSE
    Retries = TRUE
    StartFails = {}
    MaxStream = 1
    MaxQueue = 0
INVARIANT NoSelfDeadlock
CHECK_DEADLOCK FALSE
