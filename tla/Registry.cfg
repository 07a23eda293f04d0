SPECIFICATION Spec
CONSTANTS
    r1 = r1
    r2 = r2
    prod = prod
    None = none
    Hosts = {1, 2}
    Runs = {r1, r2}
    Aliases = {prod}
    Moved = {1}
    MaxVersions = 2
    MaxTries = 3
    MaxClock = 1
    MaxOps = 4
    MaxFailures = 1
SYMMETRY Symmetry
INVARIANTS
    TypeOK
    OneRunPerVersion
    NumbersGrow
    NeverGivesUp
    KeysUnique
PROPERTIES
    MoveTakesEffect
    PruneSpares
CHECK_DEADLOCK FALSE
