SPECIFICATION Spec
CONSTANTS
    Main = main
    Ticker = ticker
    Threads = {main, worker, ticker}
    SigThreads = {worker, ticker}
    Preempt = TRUE
    Conns = {c1}
    NoConn = NoConn
    NoFrame = NoFrame
    Fds = {1}
    Segments <- BrokenSegments
    FinSignals = 2
    EarlyData = FALSE
    AllocFails = FALSE
    Retries = FALSE
    StartFails = {"st_listen"}
    MaxStream = 2
    MaxQueue = 1
INVARIANTS ClosedIsLast RemoveFindsEntry ClosedMeansEof
PROPERTY Exclusion
CHECK_DEADLOCK FALSE
