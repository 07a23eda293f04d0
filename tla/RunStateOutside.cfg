SPECIFICATION Spec
CONSTANTS
    a1 = a1
    a2 = a2
    f1 = f1
    h1 = h1
    h2 = h2
    Attempts = {a1, a2}
    Finishers = {f1}
    Hosts = {h1, h2}
    HostOf <- TwoHosts
    Remote = remote
    NoFile = nofile
    HasLocal = TRUE
    HasRemote = TRUE
    Rounds = 2
    MaxSeq = 0
    MaxFaults = 0
INVARIANTS
    TypeOK
    LocalEndingIsReal
PROPERTIES
    EndingKept
CHECK_DEADLOCK FALSE
