SPECIFICATION FairSpec
CONSTANTS
    t1 = t1
    t2 = t2
    Torrents = {t1, t2}
    Priorities = {0, 1}
    Positions <- NoPositions
    Limits = {0, 1}
    ReAdds = FALSE
    MaxClock = 1
    MaxOrder = 2

    
    
PROPERTIES
    ActivatesBest
    
