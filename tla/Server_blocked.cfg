SPECIFICATION FairSpec
CONSTANTS
    Main = main
    Ticker = ticker
    Threads = {main, ticker}
    SigThreads = {main}
    Preempt = FALSE
    Conns = {c1, c2}
    NoConn = NoConn
    NoFrame = NoFrame
    Fds = {1, 2}
    Segments <- MessageSegments
    FinSignals = 1
    EarlyData = FALSE
    AllocFails = FALSE
    Retries = FALSE
    StartFails = {}
    MaxStream = 1
    MaxQueue = 0
PROPERTIES DropsAreReported EveryCallReturns EverythingIsRead ClosedPeersAreFreed
CHECK_DEADLOCK FALSE
