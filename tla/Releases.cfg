SPECIFICATION Spec
CONSTANTS
    c1 = c1
    c2 = c2
    Clones = {c1, c2}
    PreOrder <- Names
    Modes = {"minor", "patch"}
    Args <- AllArgs
    Lags <- OneSlow
    Retries = 3
    MaxTags = 4
    MaxAdds = 1
    MaxFaults = 1
SYMMETRY Symmetry
INVARIANTS
    TypeOK
    ReleaseTellsTheTruth
    VersionsGrow
PROPERTIES
    NoPrereleaseAfterRelease
    StampGoesOn
