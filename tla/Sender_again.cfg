SPECIFICATION FairSpec
CONSTANTS
    App = {main, worker}
    Main = main
    Ticks = {k1}
    Stopper = stopper
    Nobody = nobody
    Fds = {1, 2}
    Lengths = {1, 2}
    KeepAliveLen = 2
    MaxEncoded = 2
    Room = 2
    Signals = FALSE
    PipeIgnored = TRUE
    FromHandler = TRUE
    Reconnects = TRUE
    Restarts = FALSE
INVARIANTS MessagesWhole SilentAfterStop
PROPERTY KeepAlivesGoOn
CHECK_DEADLOCK FALSE
