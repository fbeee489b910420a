SPECIFICATION FairSpec
CONSTANTS
    t1 = t1
    t2 = t2
    Torrents = {t1, t2}
    Priorities = {0}
    Positions <- NoPositions
    Limits = {0}
    ReAdds = FALSE
    MaxClock = 0
    MaxOrder = 2
PROPERTY ZeroIsUnlimited
