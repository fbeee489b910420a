SPECIFICATION TMSpec
CONSTANTS
    t1 = t1
    h1 = h1
    Torrents = {t1}
    Priorities = {0}
    Positions <- NoPositions
    Limits = {1}
    ReAdds = FALSE
    MaxClock = 0
    MaxOrder = 1
    InfoHashes = {h1}
    BadHashes = {}
    Configs <- SomeConfigs
    Calls = {}
    MaxTorrents = 1
    MaxPending = 1
PROPERTY StoppedStaysStopped
CHECK_DEADLOCK FALSE
