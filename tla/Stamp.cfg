SPECIFICATION Spec
CONSTANTS
    c1 = c1
    c2 = c2
    main = main
    dev = dev
    auth = auth
    web = web
    Clones = {c1, c2}
    Branches = {main, dev}
    Apps = {auth, web}
    Layouts <- BothLayouts
    AppsOf <- OneApp
    HasRoot = TRUE
    Servers = {TRUE}
    Retries = 3
    Pull = {TRUE, FALSE}
    MaxUser = 1
    MaxFaults = 1
INVARIANTS
    TypeOK
    OneCommitPerVersion
    VersionsGrow
    PublishedWhole
    RolledBack
CHECK_DEADLOCK FALSE
