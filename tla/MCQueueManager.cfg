SPECIFICATION Spec
CONSTANTS
    t1 = t1
    t2 = t2
    Torrents = {t1, t2}
    Priorities = {0, 1}
    Positions <- SomePositions
    Limits = {1}
    ReAdds = TRUE
    MaxClock = 0
    MaxOrder = 3
SYMMETRY TorrentSymmetry
INVARIANTS
    TypeOK
    PositionsTruthful
    OneQueue
    DisabledQueueDrained
PROPERTY ProcessingRespectsLimit
\* A panic ends the process.
CHECK_DEADLOCK FALSE
