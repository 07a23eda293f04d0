SPECIFICATION FairSpec
CONSTANTS
    p1 = p1
    p2 = p2
    Kinds = {"log", "metrics"}
    Procs = {p1, p2}
    Crews <- AnyCrew
    Guests = {"reader", "far"}
    Late = {"log"}
    Rollup = 1
    Lag = 1
    Attempts = 2
    MaxEntries = 3
    MaxFailures = 1
INVARIANTS
    TypeOK
    RemoteIsPrefix
    ReadsAreSound
PROPERTIES
    ImplementsReplica
    AllShipped
CHECK_DEADLOCK FALSE
