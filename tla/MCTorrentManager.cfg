SPECIFICATION TMSpec
CONSTANTS
    t1 = t1
    h1 = h1
    h2 = h2
    Torrents = {t1}
    Priorities = {0}
    Positions <- OnePosition
    Limits = {1}
    ReAdds = TRUE
    MaxClock = 0
    MaxOrder = 2
    InfoHashes = {h1, h2}
    BadHashes = {h2}
    Configs <- SomeConfigs
    Calls = {"StartTorrentNow", "VerifyTorrent"}
    MaxTorrents = 1
    MaxPending = 1
INVARIANTS
    TMTypeOK
    
    
    VerifyingHasJob
CHECK_DEADLOCK FALSE
