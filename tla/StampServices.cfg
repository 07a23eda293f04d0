SPECIFICATION FairSpec
CONSTANTS
    c1 = c1
    c2 = c2
    main = main
    dev = dev
    auth = auth
    web = web
    Clones = {c1, c2}
    Branches = {main, dev}
    Apps = {auth, web}
    Layouts <- SameBranch
    AppsOf <- TwoApps
    HasRoot = TRUE
    Servers = {TRUE, FALSE}
    Retries = 2
    Pull = {TRUE}
    MaxUser = 1
    MaxFaults = 0
INVARIANTS
    RolledBack
    PullGetsThrough
PROPERTIES
    StampEnds
CHECK_DEADLOCK FALSE
