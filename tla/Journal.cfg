SPECIFICATION FairSpec
CONSTANTS
    r1 = r1
    r2 = r2
    Keys = {r1, r2}
    Old = {r2}
    Skew = 2
    Rescan = 1
    Minute = 1
    Retain = 3
    Margin = 0
    Lag = 1
    SaveEvery = 1
    Ahead = 1
    HintBatch = 1
    Behinds = {TRUE, FALSE}
    MaxWrites = 1
    MaxFaults = 1
INVARIANTS
    TypeOK
    RestartFindsAll
PROPERTY AllShown
