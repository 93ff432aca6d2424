SPECIFICATION Spec
CONSTANTS
    Main = main
    Ticker = ticker
    Threads = {main, ticker}
    SigThreads = {main}
    Preempt = TRUE
    Conns = {c1}
    NoConn = NoConn
    NoFrame = NoFrame
    Fds = {1}
    Segments <- AllSegments
    FinSignals = 2
    EarlyData = TRUE
    AllocFails = TRUE
    Retries = TRUE
    StartFails = {"st_signals", "st_timer", "st_listen"}
    MaxStream = 2
    MaxQueue = 1
INVARIANTS TypeOK NoUseAfterFree QueueOutlivesTable MessagesInOrder StopLeavesNothing
PROPERTY ImplementsFeed
CHECK_DEADLOCK FALSE
