SPECIFICATION Spec
CONSTANTS
    a1 = a1
    a2 = a2
    f1 = f1
    h1 = h1
    h2 = h2
    Attempts = {a1, a2}
    Finishers = {}
    Hosts = {h1, h2}
    HostOf <- OneHost
    Remote = remote
    NoFile = nofile
    HasLocal = TRUE
    HasRemote = TRUE
    Rounds = 2
    MaxSeq = 1
    MaxFaults = 1
INVARIANTS
    FinishTellsTheTruth
PROPERTIES
    ImplementsRunEnding
CHECK_DEADLOCK FALSE
