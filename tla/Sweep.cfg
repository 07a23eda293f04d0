SPECIFICATION FairSpec
CONSTANTS
    a1 = a1
    a2 = a2
    h1 = h1
    h2 = h2
    Agents = {a1, a2}
    Hosts = {h1, h2}
    HostOf <- EachItsOwn
    Remote = remote
    HasLocal = TRUE
    HasRemote = TRUE
    Limit = 2
    MaxTries = 2
    MaxRetry = 1
    MaxFaults = 1
INVARIANTS
    TypeOK
    OneOwner
    OwnedIsTaken
    RunsAreClaimed
    NeverGivesUp
PROPERTIES
    SweepCovers
CHECK_DEADLOCK FALSE
