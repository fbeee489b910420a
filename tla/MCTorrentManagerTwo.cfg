SPECIFICATION TMSpec
CONSTANTS
    t1 = t1
    t2 = t2
    h1 = h1
    h2 = h2
    Torrents = {t1, t2}
    Priorities = {0}
    Positions <- NoPositions
    Limits = {1}
    ReAdds = FALSE
    MaxClock = 0
    MaxOrder = 2
    InfoHashes = {h1, h2}
    BadHashes = {}
    Configs <- EnabledConfigs
    Calls = {}
    MaxTorrents = 2
    MaxPending = 1
SYMMETRY TorrentSymmetry
INVARIANT QueuedIsOnItsWay
CHECK_DEADLOCK FALSE
