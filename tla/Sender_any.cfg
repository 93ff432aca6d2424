SPECIFICATION FairSpec
CONSTANTS
    App = {main}
    Main = main
    Ticks = {k1}
    Stopper = stopper
    Nobody = nobody
    Fds = {1, 2}
    Lengths = {2, 3}
    KeepAliveLen = 2
    MaxEncoded = 2
    Room = 2
    Signals = TRUE
    PipeIgnored = FALSE
    FromHandler = FALSE
    Reconnects = TRUE
    Restarts = TRUE
INVARIANTS TypeOK WritesOwnSocket
PROPERTY CallsReturn
CHECK_DEADLOCK FALSE
